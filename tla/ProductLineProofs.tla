------------------------- MODULE ProductLineProofs -------------------------
(***************************************************************************)
(* Proofs about ProductLine, for every set of products, every factor and   *)
(* any width of the pulse counter: what the valve, the bill, the pump and  *)
(* the charge are when no command is at work, which faults a sample        *)
(* raises, and which values the variables of the ten products can have,    *)
(* whatever samples came between the statements of the commands.           *)
(***************************************************************************)
EXTENDS ProductLine, SequenceTheorems, TLAPS

USE WaterAssumption

-----------------------------------------------------------------------------
(* Scripts *)

Stmt(op, v) == [op |-> op, v |-> v]

LEMMA TwoStatements == ASSUME NEW a, NEW b PROVE <<a>> \o <<b>> = <<a, b>>
<1> DEFINE S == {a, b}
           c == <<a>> \o <<b>>
<1>1. <<a>> \in Seq(S) /\ <<b>> \in Seq(S) /\ <<a, b>> \in Seq(S)
  OBVIOUS
<1>2. Len(<<a>>) = 1 /\ Len(<<b>>) = 1 /\ Len(<<a, b>>) = 2
  OBVIOUS
<1>3. Len(c) = 2 /\ c \in Seq(S) /\ c[1] = a /\ c[2] = b
  BY <1>1, <1>2, ConcatProperties
<1>4. c = <<a, b>>
  <2> HIDE DEF c
  <2> QED BY <1>1, <1>2, <1>3, SeqEqual
<1> QED
  BY <1>4

LEMMA ThreeStatements ==
  ASSUME NEW a, NEW b, NEW d
  PROVE  <<a, b>> \o <<d>> = <<a, b, d>> /\ <<a>> \o <<b, d>> = <<a, b, d>>
<1> DEFINE S == {a, b, d}
           c == <<a, b>> \o <<d>>
           e == <<a>> \o <<b, d>>
<1>1. /\ <<a>> \in Seq(S) /\ <<a, b>> \in Seq(S) /\ <<d>> \in Seq(S) /\ <<b, d>> \in Seq(S)
      /\ <<a, b, d>> \in Seq(S)
  OBVIOUS
<1>2. /\ Len(<<a, b>>) = 2 /\ Len(<<d>>) = 1 /\ Len(<<a>>) = 1 /\ Len(<<b, d>>) = 2
      /\ Len(<<a, b, d>>) = 3
  OBVIOUS
<1>3. Len(c) = 3 /\ c \in Seq(S) /\ c[1] = a /\ c[2] = b /\ c[3] = d
  BY <1>1, <1>2, ConcatProperties
<1>4. Len(e) = 3 /\ e \in Seq(S) /\ e[1] = a /\ e[2] = b /\ e[3] = d
  BY <1>1, <1>2, ConcatProperties
<1>5. c = <<a, b, d>> /\ e = <<a, b, d>>
  <2> HIDE DEF c, e
  <2> QED BY <1>1, <1>2, <1>3, <1>4, SeqEqual
<1> QED
  BY <1>5

LEMMA FourStatements ==
  ASSUME NEW a, NEW b, NEW d, NEW e PROVE <<a, b, d>> \o <<e>> = <<a, b, d, e>>
<1> DEFINE S == {a, b, d, e}
           c == <<a, b, d>> \o <<e>>
<1>1. <<a, b, d>> \in Seq(S) /\ <<e>> \in Seq(S) /\ <<a, b, d, e>> \in Seq(S)
  OBVIOUS
<1>2. Len(<<a, b, d>>) = 3 /\ Len(<<e>>) = 1 /\ Len(<<a, b, d, e>>) = 4
  OBVIOUS
<1>3. Len(c) = 4 /\ c \in Seq(S) /\ c[1] = a /\ c[2] = b /\ c[3] = d /\ c[4] = e
  BY <1>1, <1>2, ConcatProperties
<1>4. c = <<a, b, d, e>>
  <2> HIDE DEF c
  <2> QED BY <1>1, <1>2, <1>3, SeqEqual
<1> QED
  BY <1>4

LEMMA NothingAfter ==
  ASSUME NEW a, NEW b, NEW d, NEW e
  PROVE  /\ <<>> \o <<>> = <<>> /\ <<a>> \o <<>> = <<a>> /\ <<a, b>> \o <<>> = <<a, b>>
         /\ <<a, b, d>> \o <<>> = <<a, b, d>> /\ <<a, b, d, e>> \o <<>> = <<a, b, d, e>>
         /\ <<>> \o <<a>> = <<a>>
<1> DEFINE S == {a, b, d, e}
<1>1. /\ <<>> \in Seq(S) /\ <<a>> \in Seq(S) /\ <<a, b>> \in Seq(S) /\ <<a, b, d>> \in Seq(S)
      /\ <<a, b, d, e>> \in Seq(S)
  OBVIOUS
<1> QED
  BY <1>1, ConcatEmptySeq

\* What is due, and what is left after it.
LEMMA OneLeft ==
  ASSUME NEW op, NEW v, todo = <<Stmt(op, v)>>
  PROVE  Value = v /\ Tail(todo) = <<>> /\ ~Idle /\ \A o : Due(o) <=> o = op
BY DEF Value, Due, Idle, Stmt

LEMMA TwoLeft ==
  ASSUME NEW op, NEW v, NEW a, todo = <<Stmt(op, v), a>>
  PROVE  Value = v /\ Tail(todo) = <<a>> /\ ~Idle /\ \A o : Due(o) <=> o = op
BY DEF Value, Due, Idle, Stmt

LEMMA ThreeLeft ==
  ASSUME NEW op, NEW v, NEW a, NEW b, todo = <<Stmt(op, v), a, b>>
  PROVE  Value = v /\ Tail(todo) = <<a, b>> /\ ~Idle /\ \A o : Due(o) <=> o = op
BY DEF Value, Due, Idle, Stmt

LEMMA FourLeft ==
  ASSUME NEW op, NEW v, NEW a, NEW b, NEW d, todo = <<Stmt(op, v), a, b, d>>
  PROVE  Value = v /\ Tail(todo) = <<a, b, d>> /\ ~Idle /\ \A o : Due(o) <=> o = op
BY DEF Value, Due, Idle, Stmt

LEMMA NothingDue == ASSUME todo = <<>> PROVE \A o : ~Due(o)
BY DEF Due, Idle

LEMMA SameStatement ==
  /\ \A o, p, v, w : Stmt(o, v) = Stmt(p, w) => o = p /\ v = w
  /\ \A a, b : <<a>> = <<b>> => a = b
  /\ \A a, b, c, d : <<a, b>> = <<c, d>> => a = c /\ b = d
  /\ \A a, b, c : <<a>> # <<b, c>>
  /\ \A a : <<a>> # <<>>
  /\ \A a, b : <<a, b>> # <<>>
BY DEF Stmt

-----------------------------------------------------------------------------
(* What each step of the device is for one product *)

LEMMA MachineSteps ==
  ASSUME [Next]_vars
  PROVE  /\ profile = "industrial" =>
              MachineSample \/ MachineCommand \/ MachineStep \/ UNCHANGED <<machine, todo>>
         /\ profile # "industrial" => UNCHANGED machine
<1>1. CASE UNCHANGED vars
  BY <1>1 DEF vars
<1>2. CASE Sample
  BY <1>2 DEF Sample, SensorHook, Only
<1>3. CASE Command
  BY <1>3 DEF Command, CmdHook, Only
<1>4. CASE CommandStep
  BY <1>4 DEF CommandStep, UseCase, Only
<1>5. CASE Interrupt
  BY <1>5 DEF Interrupt, Only
<1> QED
  BY <1>1, <1>2, <1>3, <1>4, <1>5 DEF Next

LEMMA WaterSteps ==
  ASSUME [Next]_vars
  PROVE  /\ profile' = profile
         /\ profile = "water" =>
              WaterSample \/ WaterCommand \/ WaterStep \/ Pulse \/ UNCHANGED <<water, todo>>
         /\ profile # "water" => UNCHANGED water
<1>1. CASE UNCHANGED vars
  BY <1>1 DEF vars
<1>2. CASE Sample
  BY <1>2 DEF Sample, SensorHook, Only
<1>3. CASE Command
  BY <1>3 DEF Command, CmdHook, Only
<1>4. CASE CommandStep
  BY <1>4 DEF CommandStep, UseCase, Only
<1>5. CASE Interrupt
  BY <1>5 DEF Interrupt, Only
<1> QED
  BY <1>1, <1>2, <1>3, <1>4, <1>5 DEF Next

LEMMA IrrigationSteps ==
  ASSUME [Next]_vars
  PROVE  /\ profile = "agriculture" =>
              IrrigationSample \/ IrrigationCommand \/ IrrigationStep \/ UNCHANGED <<irrigation, todo>>
         /\ profile # "agriculture" => UNCHANGED irrigation
<1>1. CASE UNCHANGED vars
  BY <1>1 DEF vars
<1>2. CASE Sample
  BY <1>2 DEF Sample, SensorHook, Only
<1>3. CASE Command
  BY <1>3 DEF Command, CmdHook, Only
<1>4. CASE CommandStep
  BY <1>4 DEF CommandStep, UseCase, Only
<1>5. CASE Interrupt
  BY <1>5 DEF Interrupt, Only
<1> QED
  BY <1>1, <1>2, <1>3, <1>4, <1>5 DEF Next

LEMMA ChargerSteps ==
  ASSUME [Next]_vars
  PROVE  /\ profile = "ev" =>
              ChargerSample \/ ChargerCommand \/ ChargerStep \/ UNCHANGED <<charger, todo>>
         /\ profile # "ev" => UNCHANGED charger
<1>1. CASE UNCHANGED vars
  BY <1>1 DEF vars
<1>2. CASE Sample
  BY <1>2 DEF Sample, SensorHook, Only
<1>3. CASE Command
  BY <1>3 DEF Command, CmdHook, Only
<1>4. CASE CommandStep
  BY <1>4 DEF CommandStep, UseCase, Only
<1>5. CASE Interrupt
  BY <1>5 DEF Interrupt, Only
<1> QED
  BY <1>1, <1>2, <1>3, <1>4, <1>5 DEF Next

-----------------------------------------------------------------------------
(* The machine *)

StoresLimit(q, n) == Stmt("limit", <<q, n>>)
StoresReading(q, n) == Stmt("reading", <<q, n>>)

\* What a command of the industrial product may have left to do; the limits that
\* set_limits has not stored yet are the old ones.
MachineScript ==
  \/ todo = <<>>
  \/ \E t \in 0..1 : \E i \in 0..1 :
       /\ todo = <<StoresLimit("t", t), StoresLimit("i", i), Stmt("vib", TRUE)>>
       /\ limit = old_limit
  \/ \E i \in 0..1 :
       todo = <<StoresLimit("i", i), Stmt("vib", TRUE)>> /\ limit["i"] = old_limit["i"]
  \/ \E t \in Levels : \E i \in Levels :
       todo = <<StoresReading("t", t), StoresReading("i", i), Stmt("vib", FALSE), Stmt("step", 0)>>
  \/ \E i \in Levels : todo = <<StoresReading("i", i), Stmt("vib", FALSE), Stmt("step", 0)>>
  \/ todo = <<Stmt("vib", FALSE), Stmt("step", 0)>>
  \/ todo = <<Stmt("vib", TRUE)>> \/ todo = <<Stmt("step", 0)>> \/ todo = <<Stmt("acknowledge", 0)>>
  \/ \E s \in {"IDLE", "RUN", "WARN", "FAULT"} : \E n \in 0..1 :
       todo = <<Stmt("st", s), Stmt("ack_needed", n)>>
  \/ \E s \in {"IDLE", "RUN", "WARN"} : todo = <<Stmt("st", s)>>
  \/ \E n \in 0..1 : todo = <<Stmt("ack_needed", n)>>

MachineInv == MachineTypeOK /\ MachineScript

\* The script that is at work follows from the statement that is due.
LEMMA MachineFirst ==
  ASSUME MachineScript
  PROVE  /\ Due("limit") =>
              \/ \E t \in 0..1 : \E i \in 0..1 :
                   /\ todo = <<StoresLimit("t", t), StoresLimit("i", i), Stmt("vib", TRUE)>>
                   /\ limit = old_limit
              \/ \E i \in 0..1 :
                   /\ todo = <<StoresLimit("i", i), Stmt("vib", TRUE)>>
                   /\ limit["i"] = old_limit["i"]
         /\ Due("reading") =>
              \/ \E t \in Levels : \E i \in Levels :
                   todo = <<StoresReading("t", t), StoresReading("i", i), Stmt("vib", FALSE),
                            Stmt("step", 0)>>
              \/ \E i \in Levels :
                   todo = <<StoresReading("i", i), Stmt("vib", FALSE), Stmt("step", 0)>>
         /\ Due("vib") =>
              todo = <<Stmt("vib", FALSE), Stmt("step", 0)>> \/ todo = <<Stmt("vib", TRUE)>>
         /\ Due("step") => todo = <<Stmt("step", 0)>>
         /\ Due("acknowledge") => todo = <<Stmt("acknowledge", 0)>>
         /\ Due("st") =>
              \/ \E s \in {"IDLE", "RUN", "WARN", "FAULT"} : \E n \in 0..1 :
                   todo = <<Stmt("st", s), Stmt("ack_needed", n)>>
              \/ \E s \in {"IDLE", "RUN", "WARN"} : todo = <<Stmt("st", s)>>
         /\ Due("ack_needed") => \E n \in 0..1 : todo = <<Stmt("ack_needed", n)>>
<1>1. CASE todo = <<>>
  BY <1>1, NothingDue
<1>2. CASE \E t \in 0..1 : \E i \in 0..1 :
             /\ todo = <<StoresLimit("t", t), StoresLimit("i", i), Stmt("vib", TRUE)>>
             /\ limit = old_limit
  <2>1. \A o : Due(o) <=> o = "limit"
    BY <1>2, ThreeLeft DEF StoresLimit
  <2> QED
    BY <1>2, <2>1
<1>3. CASE \E i \in 0..1 :
             todo = <<StoresLimit("i", i), Stmt("vib", TRUE)>> /\ limit["i"] = old_limit["i"]
  <2>1. \A o : Due(o) <=> o = "limit"
    BY <1>3, TwoLeft DEF StoresLimit
  <2> QED
    BY <1>3, <2>1
<1>4. CASE \E t \in Levels : \E i \in Levels :
             todo = <<StoresReading("t", t), StoresReading("i", i), Stmt("vib", FALSE), Stmt("step", 0)>>
  <2>1. \A o : Due(o) <=> o = "reading"
    BY <1>4, FourLeft DEF StoresReading
  <2> QED
    BY <1>4, <2>1
<1>5. CASE \E i \in Levels : todo = <<StoresReading("i", i), Stmt("vib", FALSE), Stmt("step", 0)>>
  <2>1. \A o : Due(o) <=> o = "reading"
    BY <1>5, ThreeLeft DEF StoresReading
  <2> QED
    BY <1>5, <2>1
<1>6. CASE todo = <<Stmt("vib", FALSE), Stmt("step", 0)>> \/ todo = <<Stmt("vib", TRUE)>>
  <2>1. \A o : Due(o) <=> o = "vib"
    BY <1>6, OneLeft, TwoLeft
  <2> QED
    BY <1>6, <2>1
<1>7. CASE todo = <<Stmt("step", 0)>>
  <2>1. \A o : Due(o) <=> o = "step"
    BY <1>7, OneLeft
  <2> QED
    BY <1>7, <2>1
<1>8. CASE todo = <<Stmt("acknowledge", 0)>>
  <2>1. \A o : Due(o) <=> o = "acknowledge"
    BY <1>8, OneLeft
  <2> QED
    BY <1>8, <2>1
<1>9. CASE \/ \E s \in {"IDLE", "RUN", "WARN", "FAULT"} : \E n \in 0..1 :
                todo = <<Stmt("st", s), Stmt("ack_needed", n)>>
           \/ \E s \in {"IDLE", "RUN", "WARN"} : todo = <<Stmt("st", s)>>
  <2>1. \A o : Due(o) <=> o = "st"
    BY <1>9, OneLeft, TwoLeft
  <2> QED
    BY <1>9, <2>1
<1>10. CASE \E n \in 0..1 : todo = <<Stmt("ack_needed", n)>>
  <2>1. \A o : Due(o) <=> o = "ack_needed"
    BY <1>10, OneLeft
  <2> QED
    BY <1>10, <2>1
<1> QED
  BY <1>1, <1>2, <1>3, <1>4, <1>5, <1>6, <1>7, <1>8, <1>9, <1>10 DEF MachineScript

LEMMA MachineTakes ==
  ASSUME MachineInv, MachineCommand PROVE MachineInv'
<1>1. /\ todo' \in MachineCommands /\ old_limit' = limit
      /\ UNCHANGED <<reading, limit, vib, st, ack_needed>>
  BY DEF MachineCommand, Take
<1>2. MachineTypeOK'
  BY <1>1 DEF MachineInv, MachineTypeOK
<1>3. \A o, v : Do(o, v) = <<Stmt(o, v)>>
  BY DEF Do, Stmt
<1>4. CASE \E t \in 0..1 : \E i \in 0..1 : todo' = SetLimits([t |-> t, i |-> i])
  <2>1. PICK t \in 0..1, i \in 0..1 : todo' = SetLimits([t |-> t, i |-> i])
    BY <1>4
  <2>2. SetLimits([t |-> t, i |-> i])
          = <<StoresLimit("t", t)>> \o <<StoresLimit("i", i)>> \o <<Stmt("vib", TRUE)>>
    BY <1>3 DEF SetLimits, StoresLimit
  <2>3. todo' = <<StoresLimit("t", t), StoresLimit("i", i), Stmt("vib", TRUE)>>
    <3>1. <<StoresLimit("t", t)>> \o <<StoresLimit("i", i)>> = <<StoresLimit("t", t), StoresLimit("i", i)>>
      BY TwoStatements
    <3>2. <<StoresLimit("t", t), StoresLimit("i", i)>> \o <<Stmt("vib", TRUE)>>
            = <<StoresLimit("t", t), StoresLimit("i", i), Stmt("vib", TRUE)>>
      BY ThreeStatements
    <3> QED
      BY <2>1, <2>2, <3>1, <3>2
  <2> QED
    BY <1>1, <1>2, <2>3 DEF MachineInv, MachineScript
<1>5. CASE \E t \in {0, 2} : \E i \in {0, 2} :
             todo' = Do("reading", <<"t", t>>) \o Do("reading", <<"i", i>>) \o Do("vib", FALSE)
                       \o Do("step", 0)
  <2>1. PICK t \in {0, 2}, i \in {0, 2} :
             todo' = Do("reading", <<"t", t>>) \o Do("reading", <<"i", i>>) \o Do("vib", FALSE)
                       \o Do("step", 0)
    BY <1>5
  <2>2. todo' = <<StoresReading("t", t)>> \o <<StoresReading("i", i)>> \o <<Stmt("vib", FALSE)>>
                  \o <<Stmt("step", 0)>>
    BY <1>3, <2>1 DEF StoresReading
  <2>3. todo' = <<StoresReading("t", t), StoresReading("i", i), Stmt("vib", FALSE), Stmt("step", 0)>>
    <3> DEFINE a == StoresReading("t", t)  b == StoresReading("i", i)
               c == Stmt("vib", FALSE)  d == Stmt("step", 0)
    <3> HIDE DEF a, b, c, d
    <3>1. <<a>> \o <<b>> = <<a, b>> /\ <<a, b>> \o <<c>> = <<a, b, c>>
      BY TwoStatements, ThreeStatements
    <3>2. <<a, b, c>> \o <<d>> = <<a, b, c, d>>
      BY FourStatements
    <3>3. ((<<a>> \o <<b>>) \o <<c>>) \o <<d>> = <<a, b, c, d>>
      BY <3>1, <3>2
    <3> QED
      BY <2>2, <3>3 DEF a, b, c, d
  <2>4. t \in Levels /\ i \in Levels
    BY DEF Levels
  <2> QED
    BY <1>2, <2>3, <2>4 DEF MachineInv, MachineScript
<1>6. CASE todo' = Do("step", 0) \/ todo' = Do("acknowledge", 0)
  BY <1>2, <1>3, <1>6 DEF MachineInv, MachineScript
<1> DEFINE L == {SetLimits([t |-> t, i |-> i]) : t \in 0..1, i \in 0..1}
           R == {Do("reading", <<"t", t>>) \o Do("reading", <<"i", i>>) \o Do("vib", FALSE)
                   \o Do("step", 0) : t \in {0, 2}, i \in {0, 2}}
<1>7. todo' \in L \/ todo' \in R \/ todo' = Do("step", 0) \/ todo' = Do("acknowledge", 0)
  <2>1. MachineCommands = L \cup R \cup {Do("step", 0), Do("acknowledge", 0)}
    BY DEF MachineCommands
  <2> HIDE DEF L, R
  <2> QED
    BY <1>1, <2>1
<1>8. todo' \in L => MachineInv'
  BY <1>4
<1>9. todo' \in R => MachineInv'
  <2> DEFINE script(t, i) ==
        Do("reading", <<"t", t>>) \o Do("reading", <<"i", i>>) \o Do("vib", FALSE) \o Do("step", 0)
  <2>1. (\E t \in {0, 2} : \E i \in {0, 2} : todo' = script(t, i)) => MachineInv'
    BY <1>5
  <2>2. R = {script(t, i) : t \in {0, 2}, i \in {0, 2}}
    OBVIOUS
  <2> HIDE DEF script, R
  <2> QED
    BY <2>1, <2>2
<1> QED
  <2> HIDE DEF L, R
  <2> QED
    BY <1>6, <1>7, <1>8, <1>9

\* A sample leaves the script and the limits alone.
LEMMA MachineSamples ==
  ASSUME MachineInv, MachineSample PROVE MachineInv'
<1>1. PICK t \in Levels, vibrates \in BOOLEAN :
        LET now == [t |-> t, i |-> 1]
        IN /\ reading' = now /\ vib' = vibrates
           /\ st' = IF Over(now) THEN "FAULT" ELSE Settled(now, vibrates)
           /\ ack_needed' = IF Over(now) THEN 1 ELSE ack_needed
  BY DEF MachineSample
<1>2. UNCHANGED <<limit, old_limit, todo>>
  BY DEF MachineSample
<1>3. reading' \in [Quantities -> Levels]
  BY <1>1 DEF Quantities, Levels
<1>4. st' \in {"IDLE", "RUN", "WARN", "FAULT"} /\ ack_needed' \in 0..1 /\ vib' \in BOOLEAN
  BY <1>1 DEF Settled, MachineInv, MachineTypeOK
<1>5. MachineTypeOK'
  BY <1>2, <1>3, <1>4 DEF MachineInv, MachineTypeOK
<1>6. MachineScript'
  BY <1>2 DEF MachineInv, MachineScript
<1> QED
  BY <1>5, <1>6 DEF MachineInv

\* set_limits stores one limit after the other.
LEMMA MachineLimits ==
  ASSUME MachineInv, StoreLimit PROVE MachineInv'
<1>1. /\ Due("limit") /\ todo' = Tail(todo) /\ limit' = [limit EXCEPT ![Value[1]] = Value[2]]
      /\ UNCHANGED <<reading, vib, st, ack_needed, old_limit>>
  BY DEF StoreLimit, Done
<1>2. limit \in [Quantities -> 0..1] /\ "t" \in Quantities /\ "i" \in Quantities
  BY DEF MachineInv, MachineTypeOK, Quantities
<1>3. CASE \E t \in 0..1 : \E i \in 0..1 :
             /\ todo = <<StoresLimit("t", t), StoresLimit("i", i), Stmt("vib", TRUE)>>
             /\ limit = old_limit
  <2>1. PICK t \in 0..1, i \in 0..1 :
             /\ todo = <<StoresLimit("t", t), StoresLimit("i", i), Stmt("vib", TRUE)>>
             /\ limit = old_limit
    BY <1>3
  <2>2. Value = <<"t", t>> /\ todo' = <<StoresLimit("i", i), Stmt("vib", TRUE)>>
    BY <1>1, <2>1, ThreeLeft DEF StoresLimit
  <2>3. limit' = [limit EXCEPT !["t"] = t]
    BY <1>1, <2>2
  <2>4. limit' \in [Quantities -> 0..1] /\ limit'["i"] = limit["i"]
    BY <1>2, <2>3
  <2>5. limit'["i"] = old_limit'["i"]
    BY <1>1, <2>1, <2>4
  <2>6. MachineScript'
    BY <2>2, <2>5 DEF MachineScript
  <2> QED
    BY <1>1, <2>4, <2>6 DEF MachineInv, MachineTypeOK
<1>4. CASE \E i \in 0..1 :
             todo = <<StoresLimit("i", i), Stmt("vib", TRUE)>> /\ limit["i"] = old_limit["i"]
  <2>1. PICK i \in 0..1 : todo = <<StoresLimit("i", i), Stmt("vib", TRUE)>>
    BY <1>4
  <2>2. Value = <<"i", i>> /\ todo' = <<Stmt("vib", TRUE)>>
    BY <1>1, <2>1, TwoLeft DEF StoresLimit
  <2>3. limit' = [limit EXCEPT !["i"] = i]
    BY <1>1, <2>2
  <2>4. limit' \in [Quantities -> 0..1]
    BY <1>2, <2>3
  <2>5. MachineScript'
    BY <2>2 DEF MachineScript
  <2> QED
    BY <1>1, <2>4, <2>5 DEF MachineInv, MachineTypeOK
<1> QED
  BY <1>1, <1>3, <1>4, MachineFirst DEF MachineInv

LEMMA MachineReads ==
  ASSUME MachineInv, StoreReading \/ StoreVib PROVE MachineInv'
<1>1. CASE StoreReading
  <2>1. /\ Due("reading") /\ todo' = Tail(todo)
        /\ reading' = [reading EXCEPT ![Value[1]] = Value[2]]
        /\ UNCHANGED <<limit, vib, st, ack_needed, old_limit>>
    BY <1>1 DEF StoreReading, Done
  <2>2. reading \in [Quantities -> Levels]
    BY DEF MachineInv, MachineTypeOK
  <2>3. CASE \E t \in Levels : \E i \in Levels :
               todo = <<StoresReading("t", t), StoresReading("i", i), Stmt("vib", FALSE),
                        Stmt("step", 0)>>
    <3>1. PICK t \in Levels, i \in Levels :
               todo = <<StoresReading("t", t), StoresReading("i", i), Stmt("vib", FALSE),
                        Stmt("step", 0)>>
      BY <2>3
    <3>2. Value = <<"t", t>> /\ todo' = <<StoresReading("i", i), Stmt("vib", FALSE), Stmt("step", 0)>>
      BY <2>1, <3>1, FourLeft DEF StoresReading
    <3>3. reading' = [reading EXCEPT !["t"] = t]
      BY <2>1, <3>2
    <3>4. reading' \in [Quantities -> Levels]
      BY <2>2, <3>3
    <3>5. MachineScript'
      BY <3>2 DEF MachineScript
    <3> QED
      BY <2>1, <3>4, <3>5 DEF MachineInv, MachineTypeOK
  <2>4. CASE \E i \in Levels :
               todo = <<StoresReading("i", i), Stmt("vib", FALSE), Stmt("step", 0)>>
    <3>1. PICK i \in Levels : todo = <<StoresReading("i", i), Stmt("vib", FALSE), Stmt("step", 0)>>
      BY <2>4
    <3>2. Value = <<"i", i>> /\ todo' = <<Stmt("vib", FALSE), Stmt("step", 0)>>
      BY <2>1, <3>1, ThreeLeft DEF StoresReading
    <3>3. reading' = [reading EXCEPT !["i"] = i]
      BY <2>1, <3>2
    <3>4. reading' \in [Quantities -> Levels]
      BY <2>2, <3>3
    <3>5. MachineScript'
      BY <3>2 DEF MachineScript
    <3> QED
      BY <2>1, <3>4, <3>5 DEF MachineInv, MachineTypeOK
  <2> QED
    BY <2>1, <2>3, <2>4, MachineFirst DEF MachineInv
<1>2. CASE StoreVib
  <2>1. Due("vib") /\ todo' = Tail(todo) /\ vib' \in BOOLEAN
        /\ UNCHANGED <<reading, limit, st, ack_needed, old_limit>>
    BY <1>2 DEF StoreVib, Done
  <2>2. todo = <<Stmt("vib", FALSE), Stmt("step", 0)>> \/ todo = <<Stmt("vib", TRUE)>>
    BY <2>1, MachineFirst DEF MachineInv
  <2>3. todo' = <<Stmt("step", 0)>> \/ todo' = <<>>
    BY <2>1, <2>2, OneLeft, TwoLeft
  <2>4. MachineScript'
    BY <2>3 DEF MachineScript
  <2> QED
    BY <2>1, <2>4 DEF MachineInv, MachineTypeOK
<1> QED
  BY <1>1, <1>2

\* The verdict of ind_step_state and the acknowledgement, stored by the statements that follow.
LEMMA MachineDecides ==
  ASSUME MachineInv, StepState \/ Acknowledge PROVE MachineInv'
<1>1. UNCHANGED machine
  BY DEF StepState, Acknowledge
<1>2. MachineTypeOK'
  BY <1>1 DEF machine, MachineInv, MachineTypeOK
<1>3. \A o, v : Do(o, v) = <<Stmt(o, v)>>
  BY DEF Do, Stmt
<1>4. CASE StepState
  <2>1. /\ Due("step")
        /\ todo' = (IF Over(reading) THEN Do("st", "FAULT") \o Do("ack_needed", 1)
                    ELSE IF Settled(reading, vib) = "FAULT" THEN <<>>
                    ELSE Do("st", Settled(reading, vib))) \o Tail(todo)
    BY <1>4 DEF StepState
  <2>2. Tail(todo) = <<>>
    BY <2>1, MachineFirst, OneLeft DEF MachineInv
  <2>3. CASE Over(reading)
    <3>1. todo' = <<Stmt("st", "FAULT"), Stmt("ack_needed", 1)>>
      BY <1>3, <2>1, <2>2, <2>3, TwoStatements, NothingAfter
    <3> QED
      BY <1>2, <3>1 DEF MachineInv, MachineScript
  <2>4. CASE ~Over(reading) /\ Settled(reading, vib) = "FAULT"
    <3>1. todo' = <<>>
      BY <2>1, <2>2, <2>4, NothingAfter
    <3> QED
      BY <1>2, <3>1 DEF MachineInv, MachineScript
  <2>5. CASE ~Over(reading) /\ Settled(reading, vib) # "FAULT"
    <3>1. todo' = <<Stmt("st", Settled(reading, vib))>>
      BY <1>3, <2>1, <2>2, <2>5, NothingAfter
    <3>2. Settled(reading, vib) \in {"IDLE", "RUN", "WARN"}
      BY <2>5 DEF Settled
    <3> QED
      BY <1>2, <3>1, <3>2 DEF MachineInv, MachineScript
  <2> QED
    BY <2>3, <2>4, <2>5
<1>5. CASE Acknowledge
  <2>1. /\ Due("acknowledge")
        /\ todo' = (IF st = "FAULT" THEN Do("st", "IDLE") \o Do("ack_needed", 0) ELSE <<>>) \o Tail(todo)
    BY <1>5 DEF Acknowledge
  <2>2. Tail(todo) = <<>>
    BY <2>1, MachineFirst, OneLeft DEF MachineInv
  <2>3. todo' = <<Stmt("st", "IDLE"), Stmt("ack_needed", 0)>> \/ todo' = <<>>
    <3>1. CASE st = "FAULT"
      BY <1>3, <2>1, <2>2, <3>1, TwoStatements, NothingAfter
    <3>2. CASE st # "FAULT"
      BY <2>1, <2>2, <3>2, NothingAfter
    <3> QED
      BY <3>1, <3>2
  <2>4. MachineScript'
    <3>1. CASE todo' = <<>>
      BY <3>1 DEF MachineScript
    <3>2. CASE todo' = <<Stmt("st", "IDLE"), Stmt("ack_needed", 0)>>
      BY <3>2 DEF MachineScript
    <3> QED
      BY <2>3, <3>1, <3>2
  <2> QED
    BY <1>2, <2>4 DEF MachineInv
<1> QED
  BY <1>4, <1>5

LEMMA MachineStores ==
  ASSUME MachineInv, StoreState \/ StoreAckNeeded PROVE MachineInv'
<1>1. CASE StoreState
  <2>1. /\ Due("st") /\ todo' = Tail(todo) /\ st' = Value
        /\ UNCHANGED <<reading, limit, vib, ack_needed, old_limit>>
    BY <1>1 DEF StoreState, Done
  <2>2. CASE \E s \in {"IDLE", "RUN", "WARN", "FAULT"} : \E n \in 0..1 :
               todo = <<Stmt("st", s), Stmt("ack_needed", n)>>
    <3>1. PICK s \in {"IDLE", "RUN", "WARN", "FAULT"}, n \in 0..1 :
            todo = <<Stmt("st", s), Stmt("ack_needed", n)>>
      BY <2>2
    <3>2. st' = s /\ todo' = <<Stmt("ack_needed", n)>>
      BY <2>1, <3>1, TwoLeft
    <3>3. MachineScript'
      BY <3>2 DEF MachineScript
    <3> QED
      BY <2>1, <3>2, <3>3 DEF MachineInv, MachineTypeOK
  <2>3. CASE \E s \in {"IDLE", "RUN", "WARN"} : todo = <<Stmt("st", s)>>
    <3>1. PICK s \in {"IDLE", "RUN", "WARN"} : todo = <<Stmt("st", s)>>
      BY <2>3
    <3>2. st' = s /\ todo' = <<>>
      BY <2>1, <3>1, OneLeft
    <3>3. MachineScript'
      BY <3>2 DEF MachineScript
    <3> QED
      BY <2>1, <3>2, <3>3 DEF MachineInv, MachineTypeOK
  <2> QED
    BY <2>1, <2>2, <2>3, MachineFirst DEF MachineInv
<1>2. CASE StoreAckNeeded
  <2>1. /\ Due("ack_needed") /\ todo' = Tail(todo) /\ ack_needed' = Value
        /\ UNCHANGED <<reading, limit, vib, st, old_limit>>
    BY <1>2 DEF StoreAckNeeded, Done
  <2>2. PICK n \in 0..1 : todo = <<Stmt("ack_needed", n)>>
    BY <2>1, MachineFirst DEF MachineInv
  <2>3. ack_needed' = n /\ todo' = <<>>
    BY <2>1, <2>2, OneLeft
  <2>4. MachineScript'
    BY <2>3 DEF MachineScript
  <2> QED
    BY <2>1, <2>3, <2>4 DEF MachineInv, MachineTypeOK
<1> QED
  BY <1>1, <1>2

LEMMA MachineStepKeeps ==
  ASSUME MachineInv,
         MachineSample \/ MachineCommand \/ MachineStep \/ UNCHANGED <<machine, todo>>
  PROVE  MachineInv'
<1>1. CASE UNCHANGED <<machine, todo>>
  BY <1>1 DEF machine, MachineInv, MachineTypeOK, MachineScript
<1> QED
  BY <1>1, MachineSamples, MachineTakes, MachineLimits, MachineReads, MachineDecides, MachineStores
     DEF MachineStep

\* A limit is an old one or one of the new ones, whichever statement is due.
LEMMA LimitOldOrNew ==
  ASSUME MachineInv, NEW q \in Quantities
  PROVE  limit[q] = old_limit[q] \/ LimitToBe(q) = limit[q]
<1>1. ASSUME \A i \in DOMAIN todo : ~(todo[i].op = "limit" /\ todo[i].v[1] = q)
      PROVE  LimitToBe(q) = limit[q]
  <2>1. {i \in DOMAIN todo : todo[i].op = "limit" /\ todo[i].v[1] = q} = {}
    BY <1>1
  <2> QED
    BY <2>1 DEF LimitToBe
<1>2. CASE \E t \in 0..1 : \E i \in 0..1 :
             /\ todo = <<StoresLimit("t", t), StoresLimit("i", i), Stmt("vib", TRUE)>>
             /\ limit = old_limit
  BY <1>2
<1>3. CASE \E i \in 0..1 :
             todo = <<StoresLimit("i", i), Stmt("vib", TRUE)>> /\ limit["i"] = old_limit["i"]
  <2>1. CASE q = "i"
    BY <1>3, <2>1
  <2>2. CASE q = "t"
    BY <1>1, <1>3, <2>2 DEF StoresLimit, Stmt
  <2> QED
    BY <2>1, <2>2 DEF Quantities
<1>4. CASE todo = <<>>
  BY <1>1, <1>4
<1>5. CASE \E t \in Levels : \E i \in Levels :
             todo = <<StoresReading("t", t), StoresReading("i", i), Stmt("vib", FALSE), Stmt("step", 0)>>
  BY <1>1, <1>5 DEF StoresReading, Stmt
<1>6. CASE \E i \in Levels : todo = <<StoresReading("i", i), Stmt("vib", FALSE), Stmt("step", 0)>>
  BY <1>1, <1>6 DEF StoresReading, Stmt
<1>7. CASE todo = <<Stmt("vib", FALSE), Stmt("step", 0)>>
  BY <1>1, <1>7 DEF Stmt
<1>8. CASE \/ todo = <<Stmt("vib", TRUE)>> \/ todo = <<Stmt("step", 0)>>
           \/ todo = <<Stmt("acknowledge", 0)>>
  BY <1>1, <1>8 DEF Stmt
<1>9. CASE \E s \in {"IDLE", "RUN", "WARN", "FAULT"} : \E n \in 0..1 :
              todo = <<Stmt("st", s), Stmt("ack_needed", n)>>
  BY <1>1, <1>9 DEF Stmt
<1>10. CASE \/ \E s \in {"IDLE", "RUN", "WARN"} : todo = <<Stmt("st", s)>>
            \/ \E n \in 0..1 : todo = <<Stmt("ack_needed", n)>>
  BY <1>1, <1>10 DEF Stmt
<1> QED
  BY <1>2, <1>3, <1>4, <1>5, <1>6, <1>7, <1>8, <1>9, <1>10 DEF MachineInv, MachineScript

\* A sample that finds no fault before it raises one only over a limit.
LEMMA FaultNotSpurious ==
  ASSUME MachineInv, MachineSample, st # "FAULT", st' = "FAULT"
  PROVE  \E q \in Quantities : reading'[q] > old_limit[q] \/ reading'[q] > LimitToBe(q)
<1>1. PICK t \in Levels, vibrates \in BOOLEAN :
        LET now == [t |-> t, i |-> 1]
        IN /\ reading' = now
           /\ st' = IF Over(now) THEN "FAULT" ELSE Settled(now, vibrates)
  BY DEF MachineSample
<1>2. Over(reading')
  BY <1>1 DEF Settled
<1>3. PICK q \in Quantities : reading'[q] > limit[q]
  BY <1>2 DEF Over, OverLimit
<1> QED
  BY <1>3, LimitOldOrNew

-----------------------------------------------------------------------------
(* The pump *)

\* What a command of the agriculture product may have left to do.
PumpScript ==
  \/ todo = <<>>
  \/ todo = <<Stmt("inhibit", TRUE), Stmt("switch", FALSE)>>
  \/ \E on \in BOOLEAN : todo = <<Stmt("switch", on)>>
  \/ todo = <<Stmt("inhibit", FALSE)>> \/ todo = <<Stmt("auto", 0)>>
  \/ \E b \in BOOLEAN : todo = <<Stmt("dry", b)>>
  \/ \E on \in BOOLEAN : todo = <<Stmt("pump", on), Stmt("duty", on)>>
  \/ \E on \in BOOLEAN : todo = <<Stmt("duty", on)>>

\* An inhibited pump stands still, or the command at work is about to stop it; a
\* command that has passed the look at the inhibition knows of it.
Inhibited ==
  inhibit =>
       /\ \A on \in BOOLEAN :
            /\ todo = <<Stmt("pump", on), Stmt("duty", on)>> => ~on
            /\ todo = <<Stmt("duty", on)>> => ~on /\ ~pump
       /\ \/ ~pump /\ ~duty
          \/ todo \in {<<Stmt("switch", FALSE)>>, <<Stmt("pump", FALSE), Stmt("duty", FALSE)>>,
                       <<Stmt("duty", FALSE)>>}

PumpInv == IrrigationTypeOK /\ PumpScript /\ Inhibited

LEMMA PumpCommands ==
  ASSUME Take(IrrigationCommands)
  PROVE  /\ todo = <<>>
         /\ \/ todo' = <<Stmt("inhibit", TRUE), Stmt("switch", FALSE)>>
            \/ \E on \in BOOLEAN : todo' = <<Stmt("switch", on)>>
            \/ todo' = <<Stmt("inhibit", FALSE)>> \/ todo' = <<Stmt("auto", 0)>>
            \/ \E b \in BOOLEAN : todo' = <<Stmt("dry", b)>>
BY TwoStatements DEF Take, Idle, IrrigationCommands, Inhibit, Do, Stmt

LEMMA PumpStep ==
  ASSUME PumpInv,
         IrrigationSample \/ IrrigationCommand \/ IrrigationStep \/ UNCHANGED <<irrigation, todo>>
  PROVE  PumpInv'
<1> USE DEF PumpInv, IrrigationTypeOK
<1>1. CASE UNCHANGED <<irrigation, todo>>
  BY <1>1 DEF PumpScript, Inhibited, irrigation
<1>2. CASE IrrigationSample
  BY <1>2 DEF IrrigationSample, Duty, PumpScript, Inhibited
<1>3. CASE IrrigationCommand
  BY <1>3, PumpCommands DEF IrrigationCommand, irrigation, PumpScript, Inhibited, Stmt
<1>4. CASE StoreDry
  <2>1. todo' = <<>>
    BY <1>4 DEF StoreDry, PumpScript, Stmt, Due, Done, Idle
  <2> QED
    BY <1>4, <2>1 DEF StoreDry, PumpScript, Inhibited, Stmt, Due, Idle, Value
<1>5. CASE StoreInhibit
  <2>1. CASE todo = <<Stmt("inhibit", TRUE), Stmt("switch", FALSE)>>
    <3>1. todo' = <<Stmt("switch", FALSE)>> /\ inhibit' = TRUE
      <4>1. Value = TRUE /\ Tail(todo) = <<Stmt("switch", FALSE)>>
        BY <2>1, TwoLeft
      <4>2. todo' = Tail(todo) /\ inhibit' = Value
        BY <1>5 DEF StoreInhibit, Done
      <4> QED
        BY <4>1, <4>2
    <3>2. PumpScript'
      BY <3>1 DEF PumpScript
    <3>3. \A b \in BOOLEAN :
            todo' # <<Stmt("pump", b), Stmt("duty", b)>> /\ todo' # <<Stmt("duty", b)>>
      BY <3>1 DEF Stmt
    <3>4. Inhibited'
      BY <3>1, <3>3 DEF Inhibited
    <3> QED
      BY <1>5, <3>1, <3>2, <3>4 DEF StoreInhibit
  <2>2. CASE todo = <<Stmt("inhibit", FALSE)>>
    <3>1. todo' = <<>> /\ inhibit' = FALSE
      BY <1>5, <2>2, OneLeft DEF StoreInhibit, Done
    <3> QED
      BY <1>5, <3>1 DEF StoreInhibit, PumpScript, Inhibited
  <2> QED
    BY <1>5, <2>1, <2>2 DEF StoreInhibit, PumpScript, Due, Idle, Stmt
<1>6. CASE Switch
  <2> DEFINE Ordered(on) == <<Stmt("pump", on), Stmt("duty", on)>>
  <2>1. PICK on \in BOOLEAN : /\ todo' = Ordered(on)
                              /\ inhibit => on = FALSE
    <3>1. CASE \E b \in BOOLEAN : todo = <<Stmt("switch", b)>>
      <4>1. PICK b \in BOOLEAN : todo = <<Stmt("switch", b)>>
        BY <3>1
      <4> DEFINE on == ~inhibit /\ b
      <4>2. ~Due("auto") /\ Value = b /\ Tail(todo) = <<>>
        BY <4>1, OneLeft
      <4>3. todo' = Do("pump", on) \o Do("duty", on) \o <<>>
        BY <1>6, <4>2 DEF Switch
      <4>4. todo' = Ordered(on)
        BY <4>3, TwoStatements, NothingAfter DEF Do, Stmt
      <4>5. on \in BOOLEAN /\ (inhibit => on = FALSE)
        OBVIOUS
      <4> QED
        BY <4>4, <4>5
    <3>2. CASE todo = <<Stmt("auto", 0)>>
      <4> DEFINE on == ~inhibit /\ dry
      <4>2. Due("auto") /\ Tail(todo) = <<>>
        BY <3>2, OneLeft
      <4>3. todo' = Do("pump", on) \o Do("duty", on) \o <<>>
        BY <1>6, <4>2 DEF Switch
      <4>4. todo' = Ordered(on)
        BY <4>3, TwoStatements, NothingAfter DEF Do, Stmt
      <4>5. on \in BOOLEAN /\ (inhibit => on = FALSE)
        OBVIOUS
      <4> QED
        BY <4>4, <4>5
    <3>3. (\E b \in BOOLEAN : todo = <<Stmt("switch", b)>>) \/ todo = <<Stmt("auto", 0)>>
      <4>1. ~Idle /\ (Due("switch") \/ Due("auto"))
        BY <1>6 DEF Switch, Due
      <4>2. \/ \E b \in BOOLEAN : todo = <<Stmt("switch", b)>>
            \/ todo = <<Stmt("auto", 0)>>
            \/ ~Due("switch") /\ ~Due("auto")
        <5>1. ASSUME NEW op, NEW v, NEW w, NEW b,
                     todo = <<Stmt(op, v)>> \/ todo = <<Stmt(op, v), Stmt(w, b)>>,
                     op # "switch", op # "auto"
              PROVE  ~Due("switch") /\ ~Due("auto")
          BY <5>1, OneLeft, TwoLeft
        <5> QED
          BY <4>1, <5>1 DEF PumpScript, Idle
      <4> QED
        BY <4>1, <4>2
    <3> QED
      BY <3>1, <3>2, <3>3
  <2>2. inhibit' = inhibit /\ pump' = pump /\ duty' = duty /\ dry' = dry
    BY <1>6 DEF Switch, irrigation
  <2>3. PumpScript'
    BY <2>1 DEF PumpScript
  <2>4. ASSUME inhibit PROVE todo' = Ordered(FALSE)
    BY <2>1, <2>4
  <2>5. Inhibited'
    <3> SUFFICES ASSUME inhibit PROVE Inhibited'
      BY <2>2 DEF Inhibited
    <3>1. todo' # <<Stmt("duty", TRUE)>> /\ todo' # <<Stmt("duty", FALSE)>> /\ todo' # Ordered(TRUE)
      BY <2>4 DEF Stmt
    <3> QED
      BY <2>4, <3>1 DEF Inhibited
  <2> QED
    BY <2>2, <2>3, <2>5
<1>7. CASE StorePump
  <2>1. PICK on \in BOOLEAN : todo = <<Stmt("pump", on), Stmt("duty", on)>>
    BY <1>7 DEF StorePump, PumpScript, Due, Idle, Stmt
  <2>2. todo' = <<Stmt("duty", on)>> /\ pump' = on
    BY <1>7, <2>1, TwoLeft DEF StorePump, Done
  <2>3. inhibit' = inhibit /\ duty' = duty /\ dry' = dry
    BY <1>7 DEF StorePump
  <2>4. inhibit => on = FALSE
    BY <2>1 DEF Inhibited
  <2>5. \A b \in BOOLEAN :
          (todo' = <<Stmt("duty", b)>> => b = on) /\ todo' # <<Stmt("pump", b), Stmt("duty", b)>>
    BY <2>2, SameStatement
  <2>6. Inhibited'
    <3> SUFFICES ASSUME inhibit PROVE Inhibited'
      BY <2>3 DEF Inhibited
    <3>1. todo' = <<Stmt("duty", FALSE)>> /\ pump' = FALSE
      BY <2>2, <2>4
    <3> QED
      BY <2>4, <2>5, <3>1 DEF Inhibited
  <2>7. PumpScript' /\ pump' \in BOOLEAN
    BY <2>2 DEF PumpScript
  <2> QED
    BY <2>3, <2>6, <2>7
<1>8. CASE WriteDuty
  <2>1. PICK on \in BOOLEAN : todo = <<Stmt("duty", on)>>
    BY <1>8 DEF WriteDuty, PumpScript, Due, Idle, Stmt
  <2>2. todo' = <<>> /\ duty' = on /\ duty' \in BOOLEAN
    BY <1>8, <2>1, OneLeft DEF WriteDuty, Done
  <2>3. inhibit' = inhibit /\ pump' = pump /\ dry' = dry
    BY <1>8 DEF WriteDuty
  <2>4. inhibit => duty' = FALSE /\ pump = FALSE
    BY <2>1, <2>2 DEF Inhibited
  <2>5. PumpScript' /\ Inhibited'
    BY <2>2, <2>3, <2>4, SameStatement DEF PumpScript, Inhibited
  <2> QED
    BY <2>2, <2>3, <2>5
<1> QED
  BY <1>1, <1>2, <1>3, <1>4, <1>5, <1>6, <1>7, <1>8 DEF IrrigationStep

-----------------------------------------------------------------------------
(* The charge *)

\* What a command of the EV product may have left to do.
ChargeScript ==
  \/ todo = <<>>
  \/ todo = <<Stmt("chg_state", "Charging"), Stmt("session?", 0)>>
  \/ todo = <<Stmt("session?", 0)>>
  \/ todo = <<Stmt("session", 0), Stmt("chg_state", "Idle")>>
  \/ todo = <<Stmt("chg_state", "Idle")>>
  \/ todo = <<Stmt("fault", TRUE), Stmt("chg_state", "Fault")>>
  \/ todo = <<Stmt("chg_state", "Fault")>>
  \/ todo = <<Stmt("fault", FALSE)>>
  \/ \E n \in Nat : todo = <<Stmt("session", n + 1)>>

\* A charge without a session is about to get one, or about to end.
Charged ==
  /\ session \in Nat
  /\ chg_state = "Charging" /\ session = 0 =>
       \/ todo = <<Stmt("session?", 0)>> \/ todo = <<Stmt("chg_state", "Idle")>>
       \/ \E n \in Nat : todo = <<Stmt("session", n + 1)>>

ChargeInv == ChargeScript /\ Charged

LEMMA ChargeCommands ==
  ASSUME Take(ChargerCommands), session \in Nat
  PROVE  todo = <<>> /\ ChargeScript'
<1>1. todo = <<>> /\ todo' \in ChargerCommands
  BY DEF Take, Idle
<1>2. /\ Start = <<Stmt("chg_state", "Charging"), Stmt("session?", 0)>>
      /\ End = <<Stmt("session", 0), Stmt("chg_state", "Idle")>>
      /\ Do("fault", TRUE) \o Do("chg_state", "Fault") =
           <<Stmt("fault", TRUE), Stmt("chg_state", "Fault")>>
  BY TwoStatements DEF Start, End, Do, Stmt
<1>3. /\ Do("chg_state", "Idle") = <<Stmt("chg_state", "Idle")>>
      /\ Do("fault", FALSE) = <<Stmt("fault", FALSE)>>
      /\ Do("session", session + 1) = <<Stmt("session", session + 1)>>
  BY DEF Do, Stmt
<1> QED
  BY <1>1, <1>2, <1>3 DEF ChargerCommands, ChargeScript

LEMMA ChargeStep ==
  ASSUME ChargeInv,
         ChargerSample \/ ChargerCommand \/ ChargerStep \/ UNCHANGED <<charger, todo>>
  PROVE  ChargeInv'
<1> USE DEF ChargeInv
<1>1. CASE UNCHANGED <<charger, todo>>
  BY <1>1 DEF ChargeScript, Charged, charger
<1>2. CASE ChargerSample
  <2>1. todo' = todo /\ chg_state' = chg_state /\ session' = session
    BY <1>2 DEF ChargerSample
  <2> QED
    BY <2>1 DEF ChargeScript, Charged
<1>3. CASE ChargerCommand
  <2>1. todo = <<>> /\ ChargeScript' /\ chg_state' = chg_state /\ session' = session
    BY <1>3, ChargeCommands DEF ChargerCommand, charger, Charged
  <2>2. ~(chg_state = "Charging" /\ session = 0)
    BY <2>1, SameStatement DEF Charged
  <2> QED
    BY <2>1, <2>2 DEF Charged
<1>4. CASE Store("chg_state", chg_state) /\ UNCHANGED <<session, ev_fault>>
  <2>1. todo' = Tail(todo) /\ chg_state' = Value /\ session' = session /\ Due("chg_state")
    BY <1>4 DEF Store, Done
  <2>2. CASE todo = <<Stmt("chg_state", "Charging"), Stmt("session?", 0)>>
    <3>1. todo' = <<Stmt("session?", 0)>>
      BY <2>1, <2>2, TwoLeft
    <3> QED
      BY <2>1, <3>1 DEF ChargeScript, Charged
  <2>3. CASE todo = <<Stmt("chg_state", "Idle")>> \/ todo = <<Stmt("chg_state", "Fault")>>
    <3>1. todo' = <<>> /\ chg_state' \in {"Idle", "Fault"}
      BY <2>1, <2>3, OneLeft
    <3> QED
      BY <2>1, <3>1 DEF ChargeScript, Charged
  <2> QED
    BY <2>1, <2>2, <2>3 DEF ChargeScript, Due, Idle, Stmt
<1>5. CASE Store("session", session) /\ UNCHANGED <<chg_state, ev_fault>>
  <2>1. todo' = Tail(todo) /\ session' = Value /\ chg_state' = chg_state /\ Due("session")
    BY <1>5 DEF Store, Done
  <2>2. CASE todo = <<Stmt("session", 0), Stmt("chg_state", "Idle")>>
    <3>1. todo' = <<Stmt("chg_state", "Idle")>> /\ session' = 0
      BY <2>1, <2>2, TwoLeft
    <3> QED
      BY <3>1 DEF ChargeScript, Charged
  <2>3. CASE \E n \in Nat : todo = <<Stmt("session", n + 1)>>
    <3>1. PICK n \in Nat : todo = <<Stmt("session", n + 1)>>
      BY <2>3
    <3>2. todo' = <<>> /\ session' = n + 1
      BY <2>1, <3>1, OneLeft
    <3> QED
      BY <3>2 DEF ChargeScript, Charged
  <2> QED
    BY <2>1, <2>2, <2>3 DEF ChargeScript, Due, Idle, Stmt
<1>6. CASE Store("fault", ev_fault) /\ UNCHANGED <<chg_state, session>>
  <2>1. todo' = Tail(todo) /\ session' = session /\ chg_state' = chg_state /\ Due("fault")
    BY <1>6 DEF Store, Done
  <2>2. \/ todo = <<Stmt("fault", TRUE), Stmt("chg_state", "Fault")>>
        \/ todo = <<Stmt("fault", FALSE)>>
    BY <2>1 DEF ChargeScript, Due, Idle, Stmt
  <2>3. todo' = <<Stmt("chg_state", "Fault")>> \/ todo' = <<>>
    <3>1. CASE todo = <<Stmt("fault", TRUE), Stmt("chg_state", "Fault")>>
      BY <2>1, <3>1, TwoLeft
    <3>2. CASE todo = <<Stmt("fault", FALSE)>>
      BY <2>1, <3>2, OneLeft
    <3> QED
      BY <2>2, <3>1, <3>2
  <2>4. ~(chg_state = "Charging" /\ session = 0)
    BY <2>2 DEF Charged, Stmt
  <2> QED
    BY <2>1, <2>3, <2>4 DEF ChargeScript, Charged
<1>7. CASE Look("session?", OpenSession) /\ UNCHANGED charger
  <2>1. todo' = OpenSession \o Tail(todo) /\ session' = session /\ chg_state' = chg_state
        /\ Due("session?")
    BY <1>7 DEF Look, charger
  <2>2. Tail(todo) = <<>>
    BY <2>1 DEF ChargeScript, Due, Idle, Stmt
  <2>3. CASE session = 0
    <3>1. OpenSession = <<Stmt("session", 0 + 1)>>
      BY <2>3, 0 + 1 = 1 DEF OpenSession, Do, Stmt
    <3>2. todo' = <<Stmt("session", 0 + 1)>>
      BY <2>1, <2>2, <3>1, NothingAfter
    <3> QED
      BY <2>1, <3>2 DEF ChargeScript, Charged
  <2>4. CASE session # 0
    <3>1. todo' = <<>>
      BY <2>1, <2>2, <2>4, NothingAfter DEF OpenSession
    <3> QED
      BY <2>1, <2>4, <3>1 DEF ChargeScript, Charged
  <2> QED
    BY <2>3, <2>4
<1> QED
  BY <1>1, <1>2, <1>3, <1>4, <1>5, <1>6, <1>7 DEF ChargerStep

-----------------------------------------------------------------------------
(* The valve and the bill *)

\* What is left of a command that moves the valve.
Asks == <<Stmt("sealed?", TRUE), Stmt("valve", TRUE), Stmt("pin", TRUE)>>
Opens == <<Stmt("valve", TRUE), Stmt("pin", TRUE)>>
Lifts == <<Stmt("pin", TRUE)>>
Seals == <<Stmt("tamper", TRUE), Stmt("valve", FALSE), Stmt("pin", FALSE)>>
Shuts == <<Stmt("valve", FALSE), Stmt("pin", FALSE)>>
Drops == <<Stmt("pin", FALSE)>>

Looks == Stmt("burst?", TRUE)

\* What is left of a command that gave the meter a count.
Metering ==
  \/ \E n, f, d : todo = <<Stmt("last", n), Stmt("flow", f), Stmt("bill", d), Looks>>
  \/ \E n, f : todo = <<Stmt("last", n), Stmt("flow", f), Looks>>
  \/ \E f, d : todo = <<Stmt("flow", f), Stmt("bill", d), Looks>>
  \/ \E f : todo = <<Stmt("flow", f), Looks>>
  \/ \E d : todo = <<Stmt("bill", d), Looks>>
  \/ \E d : todo = <<Stmt("billing", d), Looks>>

WaterScript ==
  \/ todo = <<>>
  \/ todo \in {Asks, Opens, Lifts, Seals, Shuts, Drops}
  \/ todo = <<Looks>>
  \/ \E op \in {"freeze", "factor", "meter"} : \E v : todo = <<Stmt(op, v)>>
  \/ Metering /\ fed

\* The valve is where the latch, the register and the last burst say, or the
\* command at work is about to move it, and has not been overtaken.
ValveInv ==
  /\ {valve_open, tamper, pin, driven, shut} \subseteq BOOLEAN
  /\ tamper => todo # Opens /\ todo # Lifts
  /\ tamper /\ valve_open => todo = Shuts
  /\ tamper /\ pin => todo = Shuts \/ todo = Drops
  /\ valve_open /\ driven => pin \/ todo = Lifts
  /\ valve_open => todo # Drops
  /\ shut => ~pin /\ todo # Asks /\ todo # Opens /\ todo # Lifts

Counts == 0 .. CounterMod - 1

\* A bill b is honest, the meter being as far as the counter was at the last sample.
Honest(b, skip, sn, last) == b + skip <= sn /\ last = sn % CounterMod

\* A bill is one round too high at most; and less than that, by what the next sample
\* may count again, when the meter is where a command has put it.
Fits(b, skip, sn, last) ==
  \/ b + skip <= sn + last
  \/ b + skip <= sn + (CounterMod - 1) /\ last = sn % CounterMod

IsHonest == Honest(billing, skipped, seen, last_pulses)
BillFits(b) == Fits(b, skipped, seen, last_pulses)

\* What is left of a command that gave the meter a count adds up.
Adds ==
  \/ \E n, f, d :
       n \in Counts /\ d \in 0 .. n /\ IsHonest
       /\ todo = <<Stmt("last", n), Stmt("flow", f), Stmt("bill", d), Looks>>
  \/ \E n, f : n \in Counts /\ IsHonest /\ todo = <<Stmt("last", n), Stmt("flow", f), Looks>>
  \/ \E f, d :
       d \in Nat /\ BillFits(billing + d) /\ todo = <<Stmt("flow", f), Stmt("bill", d), Looks>>
  \/ \E f : todo = <<Stmt("flow", f), Looks>>
  \/ \E d \in Nat : BillFits(billing + d) /\ todo = <<Stmt("bill", d), Looks>>
  \/ \E b \in Nat : BillFits(b) /\ todo = <<Stmt("billing", b), Looks>>

BillInv ==
  /\ pulses \in Nat /\ seen \in Nat /\ seen <= pulses /\ pulses - seen <= MaxBacklog
  /\ billing \in Nat /\ skipped \in Nat /\ last_pulses \in Counts
  /\ ~fed => IsHonest
  /\ BillFits(billing)
  /\ \A n : todo = <<Stmt("meter", n)>> => ~fed /\ n \in Counts
  /\ Metering => Adds

MeterInv == WaterScript /\ ValveInv /\ BillInv

\* The statement op, and no other, is due.
OnlyDue(op) == \A o : Due(o) <=> o = op

\* The script that is at work follows from the statement that is due.
LEMMA WaterFirst ==
  ASSUME WaterScript
  PROVE  \/ todo = <<>> /\ \A o : ~Due(o)
         \/ todo = Asks /\ OnlyDue("sealed?")
         \/ todo \in {Opens, Shuts} /\ OnlyDue("valve")
         \/ todo \in {Lifts, Drops} /\ OnlyDue("pin")
         \/ todo = Seals /\ OnlyDue("tamper")
         \/ todo = <<Looks>> /\ OnlyDue("burst?")
         \/ \E op \in {"freeze", "factor", "meter"} : \E v : todo = <<Stmt(op, v)>> /\ OnlyDue(op)
         \/ Metering /\ fed
<1>1. CASE todo = <<>>
  BY <1>1, NothingDue
<1>2. CASE todo = Asks
  BY <1>2, ThreeLeft DEF Asks, OnlyDue
<1>3. CASE todo = Opens \/ todo = Shuts
  BY <1>3, TwoLeft DEF Opens, Shuts, OnlyDue
<1>4. CASE todo = Lifts \/ todo = Drops
  BY <1>4, OneLeft DEF Lifts, Drops, OnlyDue
<1>5. CASE todo = Seals
  BY <1>5, ThreeLeft DEF Seals, OnlyDue
<1>6. CASE todo = <<Looks>>
  BY <1>6, OneLeft DEF Looks, OnlyDue
<1>7. CASE \E op \in {"freeze", "factor", "meter"} : \E v : todo = <<Stmt(op, v)>>
  BY <1>7, OneLeft DEF OnlyDue
<1> QED
  BY <1>1, <1>2, <1>3, <1>4, <1>5, <1>6, <1>7 DEF WaterScript

LEMMA MeteringFirst ==
  ASSUME Metering
  PROVE  \/ /\ OnlyDue("last")
            /\ \/ \E n, f, d : todo = <<Stmt("last", n), Stmt("flow", f), Stmt("bill", d), Looks>>
               \/ \E n, f : todo = <<Stmt("last", n), Stmt("flow", f), Looks>>
         \/ /\ OnlyDue("flow")
            /\ \/ \E f, d : todo = <<Stmt("flow", f), Stmt("bill", d), Looks>>
               \/ \E f : todo = <<Stmt("flow", f), Looks>>
         \/ OnlyDue("bill") /\ \E d : todo = <<Stmt("bill", d), Looks>>
         \/ OnlyDue("billing") /\ \E d : todo = <<Stmt("billing", d), Looks>>
<1>1. CASE \E n, f, d : todo = <<Stmt("last", n), Stmt("flow", f), Stmt("bill", d), Looks>>
  BY <1>1, FourLeft DEF OnlyDue
<1>2. CASE \E n, f : todo = <<Stmt("last", n), Stmt("flow", f), Looks>>
  BY <1>2, ThreeLeft DEF OnlyDue
<1>3. CASE \E f, d : todo = <<Stmt("flow", f), Stmt("bill", d), Looks>>
  BY <1>3, ThreeLeft DEF OnlyDue
<1>4. CASE \/ \E f : todo = <<Stmt("flow", f), Looks>>
           \/ \E d : todo = <<Stmt("bill", d), Looks>>
           \/ \E d : todo = <<Stmt("billing", d), Looks>>
  BY <1>4, TwoLeft DEF OnlyDue
<1> QED
  BY <1>1, <1>2, <1>3, <1>4 DEF Metering

LEMMA WaterDue ==
  ASSUME WaterScript
  PROVE  /\ Due("sealed?") => todo = Asks
         /\ Due("valve") => todo = Opens \/ todo = Shuts
         /\ Due("pin") => todo = Lifts \/ todo = Drops
         /\ Due("tamper") => todo = Seals
         /\ Due("burst?") => todo = <<Looks>>
         /\ Due("freeze") \/ Due("factor") \/ Due("meter") =>
              \E op \in {"freeze", "factor", "meter"} : \E v : todo = <<Stmt(op, v)>>
<1>1. Metering =>
        \A o \in {"sealed?", "valve", "pin", "tamper", "burst?", "freeze", "factor", "meter"} : ~Due(o)
  BY MeteringFirst DEF OnlyDue
<1>2. CASE Metering
  BY <1>1, <1>2
<1>3. CASE ~Metering
  BY WaterFirst, <1>3 DEF OnlyDue
<1> QED
  BY <1>2, <1>3

LEMMA MeteringDue ==
  ASSUME WaterScript, Due("last") \/ Due("flow") \/ Due("bill") \/ Due("billing")
  PROVE  Metering /\ fed
BY WaterFirst DEF OnlyDue

LEMMA ValveScripts ==
  /\ Tail(Asks) = Opens /\ Tail(Opens) = Lifts /\ Tail(Lifts) = <<>>
  /\ Tail(Seals) = Shuts /\ Tail(Shuts) = Drops /\ Tail(Drops) = <<>>
<1>1. \A a, b, c : Tail(<<a, b, c>>) = <<b, c>> /\ Tail(<<b, c>>) = <<c>> /\ Tail(<<c>>) = <<>>
  OBVIOUS
<1> QED
  BY ZenonT(60), <1>1 DEF Asks, Opens, Lifts, Seals, Shuts, Drops

LEMMA ValveScriptsDiffer ==
  /\ Asks # Opens /\ Asks # Lifts /\ Asks # Seals /\ Asks # Shuts /\ Asks # Drops
  /\ Opens # Lifts /\ Opens # Seals /\ Opens # Shuts /\ Opens # Drops
  /\ Lifts # Seals /\ Lifts # Shuts /\ Lifts # Drops
  /\ Seals # Shuts /\ Seals # Drops /\ Shuts # Drops
  /\ <<>> \notin {Asks, Opens, Lifts, Seals, Shuts, Drops}
BY DEF Asks, Opens, Lifts, Seals, Shuts, Drops, Stmt

\* No other script moves the valve.
LEMMA OtherScripts ==
  ASSUME NEW s,
         \/ s = <<>> \/ s = <<Looks>>
         \/ \E op \in {"freeze", "factor", "meter"} : \E v : s = <<Stmt(op, v)>>
         \/ \E n, f, d : s = <<Stmt("last", n), Stmt("flow", f), Stmt("bill", d), Looks>>
         \/ \E n, f : s = <<Stmt("last", n), Stmt("flow", f), Looks>>
         \/ \E f, d : s = <<Stmt("flow", f), Stmt("bill", d), Looks>>
         \/ \E f : s = <<Stmt("flow", f), Looks>>
         \/ \E d : s = <<Stmt("bill", d), Looks>>
         \/ \E d : s = <<Stmt("billing", d), Looks>>
  PROVE  s \notin {Asks, Opens, Lifts, Seals, Shuts, Drops}
BY DEF Asks, Opens, Lifts, Seals, Shuts, Drops, Looks, Stmt

LEMMA WaterCommandsAre ==
  ASSUME NEW s \in WaterCommands
  PROVE  /\ Open = Asks
         /\ \/ s \in {Asks, Shuts, Seals, <<Looks>>}
            \/ \E op \in {"freeze", "factor", "meter"} : \E v :
                 s = <<Stmt(op, v)>> /\ (op = "meter" => v \in {0, CounterMod - 1})
<1>1. \A op, v : Do(op, v) = <<Stmt(op, v)>>
  BY DEF Do, Stmt
<1>2. \A b : ApplyValve(b) = <<Stmt("valve", b), Stmt("pin", b)>>
  BY <1>1, TwoStatements DEF ApplyValve
<1>3. Open = Asks /\ ApplyValve(FALSE) = Shuts /\ Tamper = Seals /\ Do("burst?", TRUE) = <<Looks>>
  BY <1>1, <1>2, ThreeStatements DEF Open, Tamper, Asks, Shuts, Seals, Looks
<1>4. \/ s = Open \/ s = ApplyValve(FALSE) \/ s = Tamper \/ s = Do("burst?", TRUE)
      \/ \E op \in {"freeze", "factor", "meter"} : \E v :
           s = Do(op, v) /\ (op = "meter" => v \in {0, CounterMod - 1})
  BY DEF WaterCommands
<1> QED
  BY <1>1, <1>3, <1>4

\* What a count of the wrapping counter adds: no more than the pulses there were.
LEMMA DeltaBounded ==
  ASSUME NEW p \in Nat, NEW q \in Nat, q <= p, p - q < CounterMod
  PROVE  /\ Delta(p % CounterMod, q % CounterMod) \in Nat
         /\ Delta(p % CounterMod, q % CounterMod) <= p - q
<1> DEFINE a == p % CounterMod
           b == q % CounterMod
<1>1. a \in Nat /\ b \in Nat /\ CounterMod > 0
  BY DEF WaterAssumption
<1>2. a >= b => a - b <= p - q
  BY SMTT(60), <1>1
<1> QED
  BY <1>1, <1>2 DEF Delta

\* The sample of p pulses, with sn pulses at the one before, whatever the last count.
LEMMA SampledBillFits ==
  ASSUME NEW b \in Nat, NEW skip \in Nat, NEW sn \in Nat, NEW last \in Counts, NEW p \in Nat,
         sn <= p, p - sn < CounterMod, Fits(b, skip, sn, last)
  PROVE  /\ Delta(p % CounterMod, last) \in Nat
         /\ Fits(b + Delta(p % CounterMod, last), skip, p, p % CounterMod)
         /\ Fits(b, skip, p, p % CounterMod)
         /\ Fits(b, skip + (p - sn), p, p % CounterMod)
<1> DEFINE a == p % CounterMod
           d == Delta(a, last)
<1>1. CounterMod \in Nat /\ CounterMod > 0 /\ a \in Nat /\ a <= CounterMod - 1
  BY WaterAssumption
<1>2. last \in Nat /\ last <= CounterMod - 1
  BY <1>1 DEF Counts
<1>3. d \in Nat /\ (d = 0 \/ d = a - last)
  BY <1>1, <1>2 DEF Delta
<1>4. last = sn % CounterMod => d <= p - sn
  BY DeltaBounded
<1> HIDE DEF a, d
<1>5. b + d + skip <= p + (CounterMod - 1) /\ b + skip + (p - sn) <= p + (CounterMod - 1)
  BY <1>1, <1>2, <1>3, <1>4 DEF Fits
<1> QED
  BY <1>1, <1>3, <1>5 DEF Fits, a, d

\* Nothing but a sample and a command that gives the meter a count changes the bill.
LEMMA BillLeftAlone ==
  ASSUME BillInv, pulses' = pulses, seen' = seen, skipped' = skipped, billing' = billing,
         last_pulses' = last_pulses, fed' = fed, ~Metering', \A n : todo' # <<Stmt("meter", n)>>
  PROVE  BillInv'
BY DEF BillInv, IsHonest, BillFits

\* No other script is of a command that gave the meter a count, or is about to.
LEMMA ScriptsWithoutCount ==
  ASSUME NEW s, \/ s \in {<<>>, <<Looks>>, Asks, Opens, Lifts, Seals, Shuts, Drops}
                \/ \E op \in {"freeze", "factor"} : \E v : s = <<Stmt(op, v)>>
  PROVE  /\ \A n : s # <<Stmt("meter", n)>>
         /\ \A n, f, d : s # <<Stmt("last", n), Stmt("flow", f), Stmt("bill", d), Looks>>
         /\ \A n, f : s # <<Stmt("last", n), Stmt("flow", f), Looks>>
         /\ \A f, d : s # <<Stmt("flow", f), Stmt("bill", d), Looks>>
         /\ \A f : s # <<Stmt("flow", f), Looks>>
         /\ \A d : s # <<Stmt("bill", d), Looks>>
         /\ \A d : s # <<Stmt("billing", d), Looks>>
BY DEF Asks, Opens, Lifts, Seals, Shuts, Drops, Looks, Stmt

LEMMA OneStatementIsNotMetering ==
  ASSUME NEW op, NEW v, todo = <<Stmt(op, v)>>
  PROVE  ~Metering
BY DEF Metering, Stmt

LEMMA WaterSampleStep == ASSUME MeterInv, WaterSample PROVE MeterInv'
<1> DEFINE d == Delta(Count, last_pulses)
<1>1. /\ last_pulses' = Count /\ billing' = (IF frozen THEN billing ELSE billing + d)
      /\ skipped' = (IF frozen THEN skipped + (pulses - seen) ELSE skipped)
      /\ seen' = pulses /\ pulses' = pulses /\ fed' = fed /\ todo' = todo /\ tamper' = tamper
  BY DEF WaterSample
<1>2. WaterScript'
  BY <1>1 DEF MeterInv, WaterScript, Metering
<1>3. ValveInv'
  BY <1>1, ValveScriptsDiffer DEF MeterInv, ValveInv, WaterSample, Idle, Closes
<1>4. BillInv'
  <2>1. /\ pulses \in Nat /\ seen \in Nat /\ seen <= pulses /\ pulses - seen < CounterMod
        /\ billing \in Nat /\ skipped \in Nat /\ last_pulses \in Counts
    <3>1. /\ pulses \in Nat /\ seen \in Nat /\ seen <= pulses /\ pulses - seen <= MaxBacklog
          /\ billing \in Nat /\ skipped \in Nat /\ last_pulses \in Counts
      BY DEF MeterInv, BillInv
    <3>2. MaxBacklog \in Nat /\ CounterMod \in Nat /\ CounterMod > MaxBacklog
      BY WaterAssumption
    <3> QED
      BY <3>1, <3>2
  <2>2. Count \in Counts /\ Count = pulses % CounterMod
    BY <2>1 DEF Count, Counts, WaterAssumption
  <2>3. ASSUME NEW b \in Nat, BillFits(b)
        PROVE  /\ d \in Nat
               /\ Fits(b, skipped', seen', last_pulses')
               /\ ~frozen => Fits(b + d, skipped', seen', last_pulses')
    BY <1>1, <2>1, <2>2, <2>3, SampledBillFits DEF BillFits
  <2>4. d \in Nat
    BY <2>1, <2>3 DEF MeterInv, BillInv
  <2>5. ASSUME IsHonest PROVE IsHonest'
    <3>1. d <= pulses - seen
      BY <2>1, <2>2, <2>5, DeltaBounded DEF IsHonest, Honest
    <3> HIDE DEF d
    <3> QED
      BY <1>1, <2>1, <2>2, <2>4, <2>5, <3>1 DEF IsHonest, Honest
  <2> HIDE DEF d
  <2>6. ASSUME NEW e \in Nat, BillFits(billing + e) PROVE Fits(billing' + e, skipped', seen', last_pulses')
    <3>1. CASE frozen
      BY <1>1, <2>1, <2>3, <2>6, <3>1
    <3>2. CASE ~frozen
      <4>1. Fits((billing + e) + d, skipped', seen', last_pulses')
        BY <2>1, <2>3, <2>6, <3>2
      <4>2. billing' + e = (billing + e) + d
        BY <1>1, <2>1, <2>4, <3>2
      <4> QED
        BY <4>1, <4>2
    <3> QED
      BY <3>1, <3>2
  <2>7. BillFits(billing)'
    <3>1. BillFits(billing + 0)
      <4>1. BillFits(billing)
        BY DEF MeterInv, BillInv
      <4>2. billing + 0 = billing
        BY <2>1
      <4> QED
        BY <4>1, <4>2
    <3>2. Fits(billing' + 0, skipped', seen', last_pulses') /\ billing' \in Nat
      BY <1>1, <2>1, <2>4, <2>6, <3>1
    <3> QED
      BY <3>2 DEF BillFits
  <2>8. ASSUME Adds PROVE Adds'
    <3>1. CASE \E n, f, e :
                 n \in Counts /\ e \in 0 .. n /\ IsHonest
                 /\ todo = <<Stmt("last", n), Stmt("flow", f), Stmt("bill", e), Looks>>
      BY <1>1, <2>5, <3>1 DEF Adds
    <3>2. CASE \E n, f : n \in Counts /\ IsHonest /\ todo = <<Stmt("last", n), Stmt("flow", f), Looks>>
      BY <1>1, <2>5, <3>2 DEF Adds
    <3>3. CASE \E f, e :
                 e \in Nat /\ BillFits(billing + e) /\ todo = <<Stmt("flow", f), Stmt("bill", e), Looks>>
      BY <1>1, <2>6, <3>3 DEF Adds, BillFits
    <3>4. CASE \E f : todo = <<Stmt("flow", f), Looks>>
      BY <1>1, <3>4 DEF Adds
    <3>5. CASE \E e \in Nat : BillFits(billing + e) /\ todo = <<Stmt("bill", e), Looks>>
      BY <1>1, <2>6, <3>5 DEF Adds, BillFits
    <3>6. CASE \E b \in Nat : BillFits(b) /\ todo = <<Stmt("billing", b), Looks>>
      BY <1>1, <2>3, <3>6 DEF Adds, BillFits
    <3> QED
      BY <2>8, <3>1, <3>2, <3>3, <3>4, <3>5, <3>6 DEF Adds
  <2>9. billing' \in Nat /\ skipped' \in Nat /\ seen' = pulses' /\ last_pulses' \in Counts
    BY <1>1, <2>1, <2>2, <2>4
  <2> QED
    BY <1>1, <2>1, <2>5, <2>7, <2>8, <2>9 DEF MeterInv, BillInv, Metering, WaterAssumption
<1> QED
  BY <1>2, <1>3, <1>4 DEF MeterInv

LEMMA PulseStep == ASSUME MeterInv, Pulse PROVE MeterInv'
<1>1. /\ pulses' = pulses + 1 /\ pulses - seen < MaxBacklog /\ todo' = todo /\ fed' = fed
      /\ seen' = seen /\ skipped' = skipped /\ billing' = billing /\ last_pulses' = last_pulses
      /\ valve_open' = valve_open /\ tamper' = tamper /\ pin' = pin /\ driven' = driven
      /\ shut' = shut
  BY DEF Pulse, meter, history
<1>2. WaterScript' /\ ValveInv'
  BY <1>1 DEF MeterInv, WaterScript, Metering, ValveInv
<1>3. BillInv'
  BY <1>1 DEF MeterInv, BillInv, IsHonest, BillFits, Metering, Adds
<1> QED
  BY <1>2, <1>3 DEF MeterInv

\* A command starts with nothing else at work.
LEMMA WaterCommandStep == ASSUME MeterInv, WaterCommand PROVE MeterInv'
<1>1. /\ todo = <<>> /\ todo' \in WaterCommands /\ shut' = (shut /\ todo' # Open) /\ fed' = fed
      /\ todo'[1].op = "meter" => ~fed
      /\ pulses' = pulses /\ seen' = seen /\ skipped' = skipped /\ billing' = billing
      /\ last_pulses' = last_pulses /\ valve_open' = valve_open /\ tamper' = tamper
      /\ pin' = pin /\ driven' = driven
  BY DEF WaterCommand, Take, Idle, meter, history
<1>2. \/ todo' \in {Asks, Shuts, Seals, <<Looks>>}
      \/ \E op \in {"freeze", "factor", "meter"} : \E v :
           todo' = <<Stmt(op, v)>> /\ (op = "meter" => v \in {0, CounterMod - 1})
  BY <1>1, WaterCommandsAre
<1>3. WaterScript'
  BY <1>2 DEF WaterScript
<1>4. todo' # Opens /\ todo' # Lifts /\ todo' # Drops
  BY <1>2, OtherScripts, ValveScriptsDiffer
<1>5. Open = Asks
  BY <1>1, WaterCommandsAre
<1>6. /\ tamper => ~valve_open /\ ~pin
      /\ valve_open /\ driven => pin
      /\ shut => ~pin
  BY <1>1, ValveScriptsDiffer DEF MeterInv, ValveInv
<1>7. ValveInv'
  BY <1>1, <1>4, <1>5, <1>6 DEF MeterInv, ValveInv
<1>8. BillInv'
  <2>1. CASE \E v \in {0, CounterMod - 1} : todo' = <<Stmt("meter", v)>>
    <3>1. PICK v \in {0, CounterMod - 1} : todo' = <<Stmt("meter", v)>>
      BY <2>1
    <3>2. ~fed
      BY <1>1, <3>1 DEF Stmt
    <3>3. v \in Counts
      BY DEF Counts, WaterAssumption
    <3>4. \A n : todo' = <<Stmt("meter", n)>> => n = v
      BY <3>1 DEF Stmt
    <3>5. ~Metering'
      BY <3>1 DEF Metering, Stmt
    <3> QED
      BY <1>1, <3>2, <3>3, <3>4, <3>5 DEF MeterInv, BillInv, IsHonest, BillFits
  <2>2. CASE \/ todo' \in {Asks, Shuts, Seals, <<Looks>>}
             \/ \E op \in {"freeze", "factor"} : \E v : todo' = <<Stmt(op, v)>>
    <3>1. (\A n : todo' # <<Stmt("meter", n)>>) /\ ~Metering'
      BY <2>2, ScriptsWithoutCount DEF Metering
    <3> QED
      BY <1>1, <3>1, BillLeftAlone DEF MeterInv
  <2> QED
    BY <1>2, <2>1, <2>2
<1> QED
  BY <1>3, <1>7, <1>8 DEF MeterInv

LEMMA CheckTamperStep == ASSUME MeterInv, CheckTamper PROVE MeterInv'
<1>1. /\ fed' = fed /\ pulses' = pulses /\ seen' = seen /\ skipped' = skipped
      /\ billing' = billing /\ last_pulses' = last_pulses /\ valve_open' = valve_open
      /\ tamper' = tamper /\ pin' = pin /\ driven' = driven /\ shut' = shut
      /\ Due("sealed?") /\ todo' = (IF tamper THEN <<>> ELSE Tail(todo))
  BY DEF CheckTamper, meter, history
<1>2. todo = Asks /\ todo' = (IF tamper THEN <<>> ELSE Opens)
  BY <1>1, WaterDue, ValveScripts DEF MeterInv
<1>3. WaterScript'
  BY <1>2 DEF WaterScript
<1>4. /\ tamper => ~valve_open /\ ~pin
      /\ valve_open /\ driven => pin
      /\ ~shut
  BY <1>2, ValveScriptsDiffer DEF MeterInv, ValveInv
<1>5. ValveInv'
  BY <1>1, <1>2, <1>4, ValveScriptsDiffer DEF MeterInv, ValveInv
<1>6. BillInv'
  <2>1. (\A n : todo' # <<Stmt("meter", n)>>) /\ ~Metering'
    BY <1>2, ScriptsWithoutCount DEF Metering
  <2> QED
    BY <1>1, <2>1, BillLeftAlone DEF MeterInv
<1> QED
  BY <1>3, <1>5, <1>6 DEF MeterInv

LEMMA SetValveStep == ASSUME MeterInv, SetValve PROVE MeterInv'
<1>1. /\ fed' = fed /\ pulses' = pulses /\ seen' = seen /\ skipped' = skipped
      /\ billing' = billing /\ last_pulses' = last_pulses
      /\ tamper' = tamper /\ pin' = pin /\ driven' = driven /\ shut' = shut
      /\ Due("valve") /\ valve_open' = Value /\ todo' = Tail(todo)
  BY DEF SetValve, Done, meter, history
<1>2. \/ todo = Opens /\ todo' = Lifts /\ valve_open' = TRUE
      \/ todo = Shuts /\ todo' = Drops /\ valve_open' = FALSE
  <2>1. CASE todo = Opens
    <3>1. Value = TRUE
      BY <2>1, TwoLeft DEF Opens
    <3> QED
      BY <1>1, <2>1, <3>1, ValveScripts
  <2>2. CASE todo = Shuts
    <3>1. Value = FALSE
      BY <2>2, TwoLeft DEF Shuts
    <3> QED
      BY <1>1, <2>2, <3>1, ValveScripts
  <2> QED
    BY <1>1, <2>1, <2>2, WaterDue DEF MeterInv
<1>3. WaterScript'
  BY <1>2 DEF WaterScript
<1>4. ValveInv'
  BY <1>1, <1>2, ValveScriptsDiffer DEF MeterInv, ValveInv
<1>5. BillInv'
  <2>1. (\A n : todo' # <<Stmt("meter", n)>>) /\ ~Metering'
    BY <1>2, ScriptsWithoutCount DEF Metering
  <2> QED
    BY <1>1, <2>1, BillLeftAlone DEF MeterInv
<1> QED
  BY <1>3, <1>4, <1>5 DEF MeterInv

LEMMA WritePinStep == ASSUME MeterInv, WritePin PROVE MeterInv'
<1>1. /\ fed' = fed /\ pulses' = pulses /\ seen' = seen /\ skipped' = skipped
      /\ billing' = billing /\ last_pulses' = last_pulses
      /\ tamper' = tamper /\ valve_open' = valve_open /\ shut' = shut
      /\ Due("pin") /\ pin' = Value /\ driven' = TRUE /\ todo' = Tail(todo)
  BY DEF WritePin, Done, meter, history
<1>2. \/ todo = Lifts /\ todo' = <<>> /\ pin' = TRUE
      \/ todo = Drops /\ todo' = <<>> /\ pin' = FALSE
  <2>1. CASE todo = Lifts
    <3>1. Value = TRUE
      BY <2>1, OneLeft DEF Lifts
    <3> QED
      BY <1>1, <2>1, <3>1, ValveScripts
  <2>2. CASE todo = Drops
    <3>1. Value = FALSE
      BY <2>2, OneLeft DEF Drops
    <3> QED
      BY <1>1, <2>2, <3>1, ValveScripts
  <2> QED
    BY <1>1, <2>1, <2>2, WaterDue DEF MeterInv
<1>3. WaterScript'
  BY <1>2 DEF WaterScript
<1>4. ValveInv'
  BY <1>1, <1>2, ValveScriptsDiffer DEF MeterInv, ValveInv
<1>5. BillInv'
  <2>1. (\A n : todo' # <<Stmt("meter", n)>>) /\ ~Metering'
    BY <1>2, ScriptsWithoutCount DEF Metering
  <2> QED
    BY <1>1, <2>1, BillLeftAlone DEF MeterInv
<1> QED
  BY <1>3, <1>4, <1>5 DEF MeterInv

LEMMA SetTamperStep == ASSUME MeterInv, SetTamper PROVE MeterInv'
<1>1. /\ fed' = fed /\ pulses' = pulses /\ seen' = seen /\ skipped' = skipped
      /\ billing' = billing /\ last_pulses' = last_pulses
      /\ tamper' = TRUE /\ valve_open' = valve_open /\ shut' = shut /\ pin' = pin
      /\ driven' = driven /\ Due("tamper") /\ todo' = Tail(todo)
  BY DEF SetTamper, Done, meter, history
<1>2. todo = Seals /\ todo' = Shuts
  BY <1>1, WaterDue, ValveScripts DEF MeterInv
<1>3. WaterScript'
  BY <1>2 DEF WaterScript
<1>4. ValveInv'
  BY <1>1, <1>2, ValveScriptsDiffer DEF MeterInv, ValveInv
<1>5. BillInv'
  <2>1. (\A n : todo' # <<Stmt("meter", n)>>) /\ ~Metering'
    BY <1>2, ScriptsWithoutCount DEF Metering
  <2> QED
    BY <1>1, <2>1, BillLeftAlone DEF MeterInv
<1> QED
  BY <1>3, <1>4, <1>5 DEF MeterInv

LEMMA CheckBurstStep == ASSUME MeterInv, CheckBurst PROVE MeterInv'
<1>1. /\ fed' = fed /\ pulses' = pulses /\ seen' = seen /\ skipped' = skipped
      /\ billing' = billing /\ last_pulses' = last_pulses /\ valve_open' = valve_open
      /\ tamper' = tamper /\ pin' = pin /\ driven' = driven /\ shut' = shut
      /\ Due("burst?")
      /\ todo' = (IF flow = "burst" THEN ApplyValve(FALSE) ELSE <<>>) \o Tail(todo)
  BY DEF CheckBurst, meter, history
<1>2. todo = <<Looks>> /\ Tail(todo) = <<>>
  BY <1>1, WaterDue, OneLeft DEF MeterInv, Looks
<1>3. ApplyValve(FALSE) = Shuts
  <2>1. \A op, v : Do(op, v) = <<Stmt(op, v)>>
    BY DEF Do, Stmt
  <2> QED
    BY <2>1, TwoStatements DEF ApplyValve, Shuts
<1>4. todo' = Shuts \/ todo' = <<>>
  <2>1. Shuts \o <<>> = Shuts /\ <<>> \o <<>> = <<>>
    BY NothingAfter DEF Shuts
  <2> QED
    BY <1>1, <1>2, <1>3, <2>1
<1>5. WaterScript'
  BY <1>4 DEF WaterScript
<1>6. todo \notin {Asks, Opens, Lifts, Seals, Shuts, Drops}
  BY <1>2, OtherScripts
<1>7. ValveInv'
  BY <1>1, <1>4, <1>6, ValveScriptsDiffer DEF MeterInv, ValveInv
<1>8. BillInv'
  <2>1. (\A n : todo' # <<Stmt("meter", n)>>) /\ ~Metering'
    BY <1>4, ScriptsWithoutCount DEF Metering
  <2> QED
    BY <1>1, <2>1, BillLeftAlone DEF MeterInv
<1> QED
  BY <1>5, <1>7, <1>8 DEF MeterInv

\* A step between two scripts that leave the valve alone.
LEMMA ValveLeftAlone ==
  ASSUME ValveInv, todo \notin {Asks, Opens, Lifts, Seals, Shuts, Drops},
         todo' \notin {Asks, Opens, Lifts, Seals, Shuts, Drops},
         valve_open' = valve_open, tamper' = tamper, pin' = pin, driven' = driven, shut' = shut
  PROVE  ValveInv'
BY DEF ValveInv

LEMMA SettingStep == ASSUME MeterInv, Freeze \/ SetFactor PROVE MeterInv'
<1>1. /\ fed' = fed /\ pulses' = pulses /\ seen' = seen /\ skipped' = skipped
      /\ billing' = billing /\ last_pulses' = last_pulses /\ valve_open' = valve_open
      /\ tamper' = tamper /\ pin' = pin /\ driven' = driven /\ shut' = shut
      /\ (Due("freeze") \/ Due("factor")) /\ todo' = Tail(todo)
  BY DEF Freeze, SetFactor, Done, meter, history
<1>2. PICK op \in {"freeze", "factor", "meter"}, v \in {Value} : todo = <<Stmt(op, v)>>
  <2>1. PICK op \in {"freeze", "factor", "meter"} : \E v : todo = <<Stmt(op, v)>>
    BY <1>1, WaterDue DEF MeterInv
  <2>2. PICK v : todo = <<Stmt(op, v)>>
    BY <2>1
  <2>3. Value = v
    BY <2>2, OneLeft
  <2> QED
    BY <2>2, <2>3
<1>3. todo' = <<>>
  BY <1>1, <1>2, OneLeft
<1>4. todo \notin {Asks, Opens, Lifts, Seals, Shuts, Drops}
  BY <1>2, OtherScripts
<1>5. todo' \notin {Asks, Opens, Lifts, Seals, Shuts, Drops}
  BY <1>3, ValveScriptsDiffer
<1>6. WaterScript'
  BY <1>3 DEF WaterScript
<1>7. ValveInv'
  BY <1>1, <1>4, <1>5, ValveLeftAlone DEF MeterInv
<1>8. BillInv'
  <2>1. (\A n : todo' # <<Stmt("meter", n)>>) /\ ~Metering'
    BY <1>3, ScriptsWithoutCount DEF Metering
  <2> QED
    BY <1>1, <2>1, BillLeftAlone DEF MeterInv
<1> QED
  BY <1>6, <1>7, <1>8 DEF MeterInv

\* A command that gives the meter a count: it adds no more to the bill than the count.
LEMMA MeterStep == ASSUME MeterInv, Meter PROVE MeterInv'
<1> DEFINE d == Delta(Value, last_pulses)
           f == FlowOf(d, k_ppl)
           n == Value
<1>1. /\ fed' = TRUE /\ pulses' = pulses /\ seen' = seen /\ valve_open' = valve_open
      /\ tamper' = tamper /\ pin' = pin /\ driven' = driven /\ shut' = shut /\ Due("meter")
      /\ todo' = Do("last", n) \o Do("flow", f)
                   \o (IF frozen THEN <<>> ELSE Do("bill", d)) \o Do("burst?", TRUE) \o Tail(todo)
  BY DEF Meter, history
<1> HIDE DEF d, f, n
<1>2. PICK op \in {"freeze", "factor", "meter"} : \E v : todo = <<Stmt(op, v)>>
  BY <1>1, WaterDue DEF MeterInv
<1>3. Tail(todo) = <<>>
  BY <1>2, OneLeft
<1>4. \A o, v : Do(o, v) = <<Stmt(o, v)>>
  BY DEF Do, Stmt
<1>5. \/ todo' = <<Stmt("last", n), Stmt("flow", f), Looks>>
      \/ todo' = <<Stmt("last", n), Stmt("flow", f), Stmt("bill", d), Looks>>
  <2>1. CASE frozen
    <3>1. todo' = ((<<Stmt("last", n)>> \o <<Stmt("flow", f)>>) \o <<>>) \o <<Looks>> \o <<>>
      BY <1>1, <1>3, <1>4, <2>1 DEF Looks
    <3>2. <<Stmt("last", n)>> \o <<Stmt("flow", f)>> = <<Stmt("last", n), Stmt("flow", f)>>
      BY TwoStatements
    <3>3. <<Stmt("last", n), Stmt("flow", f)>> \o <<>> = <<Stmt("last", n), Stmt("flow", f)>>
      BY NothingAfter
    <3>4. <<Stmt("last", n), Stmt("flow", f)>> \o <<Looks>>
            = <<Stmt("last", n), Stmt("flow", f), Looks>>
      BY ThreeStatements
    <3>5. <<Stmt("last", n), Stmt("flow", f), Looks>> \o <<>>
            = <<Stmt("last", n), Stmt("flow", f), Looks>>
      BY NothingAfter
    <3> QED
      BY <3>1, <3>2, <3>3, <3>4, <3>5
  <2>2. CASE ~frozen
    <3>1. todo' = ((<<Stmt("last", n)>> \o <<Stmt("flow", f)>>) \o <<Stmt("bill", d)>>)
                    \o <<Looks>> \o <<>>
      BY <1>1, <1>3, <1>4, <2>2 DEF Looks
    <3>2. <<Stmt("last", n)>> \o <<Stmt("flow", f)>> = <<Stmt("last", n), Stmt("flow", f)>>
      BY TwoStatements
    <3>3. <<Stmt("last", n), Stmt("flow", f)>> \o <<Stmt("bill", d)>>
            = <<Stmt("last", n), Stmt("flow", f), Stmt("bill", d)>>
      BY ThreeStatements
    <3>4. <<Stmt("last", n), Stmt("flow", f), Stmt("bill", d)>> \o <<Looks>>
            = <<Stmt("last", n), Stmt("flow", f), Stmt("bill", d), Looks>>
      BY FourStatements
    <3>5. <<Stmt("last", n), Stmt("flow", f), Stmt("bill", d), Looks>> \o <<>>
            = <<Stmt("last", n), Stmt("flow", f), Stmt("bill", d), Looks>>
      BY NothingAfter
    <3> QED
      BY <3>1, <3>2, <3>3, <3>4, <3>5
  <2> QED
    BY <2>1, <2>2
<1>6. WaterScript'
  BY <1>1, <1>5 DEF WaterScript, Metering
<1>7. todo \notin {Asks, Opens, Lifts, Seals, Shuts, Drops}
  BY <1>2, OtherScripts
<1>8. todo' \notin {Asks, Opens, Lifts, Seals, Shuts, Drops}
  BY <1>5, OtherScripts
<1>9. ValveInv'
  BY <1>1, <1>7, <1>8, ValveLeftAlone DEF MeterInv
<1>10. BillInv'
  <2>1. ~fed /\ n \in Counts
    <3>1. PICK v : todo = <<Stmt(op, v)>>
      BY <1>2
    <3>2. op = "meter" /\ Value = v
      BY <1>1, <3>1, OneLeft
    <3> QED
      BY <3>1, <3>2 DEF MeterInv, BillInv, n
  <2>2. d \in 0 .. n
    <3>1. last_pulses \in Counts
      BY DEF MeterInv, BillInv
    <3> QED
      BY <2>1, <3>1 DEF d, n, Delta, Counts, WaterAssumption
  <2>3. /\ IsHonest /\ billing' = billing /\ skipped' = skipped /\ last_pulses' = last_pulses
        /\ billing \in Nat /\ skipped \in Nat /\ last_pulses \in Counts
    BY <2>1 DEF MeterInv, BillInv, Meter, meter, history
  <2>4. IsHonest'
    BY <1>1, <2>3 DEF IsHonest
  <2>5. Adds'
    BY <1>5, <2>1, <2>2, <2>4 DEF Adds
  <2>6. \A m : todo' # <<Stmt("meter", m)>>
    BY <1>5 DEF Stmt
  <2> QED
    BY <1>1, <2>3, <2>4, <2>5, <2>6 DEF MeterInv, BillInv, BillFits
<1> QED
  BY <1>6, <1>9, <1>10 DEF MeterInv

\* What is left of the command when a statement of it is due.
LEMMA AddsFirst ==
  ASSUME Adds
  PROVE  \/ /\ OnlyDue("last")
            /\ \/ \E n, f, d :
                    n \in Counts /\ d \in 0 .. n /\ IsHonest
                    /\ todo = <<Stmt("last", n), Stmt("flow", f), Stmt("bill", d), Looks>>
               \/ \E n, f : n \in Counts /\ IsHonest /\ todo = <<Stmt("last", n), Stmt("flow", f), Looks>>
         \/ /\ OnlyDue("flow")
            /\ \/ \E f, d :
                    d \in Nat /\ BillFits(billing + d) /\ todo = <<Stmt("flow", f), Stmt("bill", d), Looks>>
               \/ \E f : todo = <<Stmt("flow", f), Looks>>
         \/ OnlyDue("bill") /\ \E d \in Nat : BillFits(billing + d) /\ todo = <<Stmt("bill", d), Looks>>
         \/ OnlyDue("billing") /\ \E b \in Nat : BillFits(b) /\ todo = <<Stmt("billing", b), Looks>>
<1>1. CASE \E n, f, d :
             n \in Counts /\ d \in 0 .. n /\ IsHonest
             /\ todo = <<Stmt("last", n), Stmt("flow", f), Stmt("bill", d), Looks>>
  BY <1>1, FourLeft DEF OnlyDue
<1>2. CASE \E n, f : n \in Counts /\ IsHonest /\ todo = <<Stmt("last", n), Stmt("flow", f), Looks>>
  BY <1>2, ThreeLeft DEF OnlyDue
<1>3. CASE \E f, d :
             d \in Nat /\ BillFits(billing + d) /\ todo = <<Stmt("flow", f), Stmt("bill", d), Looks>>
  BY <1>3, ThreeLeft DEF OnlyDue
<1>4. CASE \/ \E f : todo = <<Stmt("flow", f), Looks>>
           \/ \E d \in Nat : BillFits(billing + d) /\ todo = <<Stmt("bill", d), Looks>>
           \/ \E b \in Nat : BillFits(b) /\ todo = <<Stmt("billing", b), Looks>>
  BY <1>4, TwoLeft DEF OnlyDue
<1> QED
  BY <1>1, <1>2, <1>3, <1>4 DEF Adds

\* The count is stored, and then the bill that was added up, although samples have
\* been billed since.
LEMMA MeteringBill ==
  ASSUME BillInv, WaterScript, StoreLast \/ StoreFlow \/ ReadBilling \/ StoreBilling
  PROVE  BillInv'
<1>1. /\ fed' = fed /\ pulses' = pulses /\ seen' = seen /\ skipped' = skipped
  BY DEF StoreLast, StoreFlow, ReadBilling, StoreBilling, history
<1>2. Metering /\ fed /\ Adds
  BY MeteringDue DEF BillInv, StoreLast, StoreFlow, ReadBilling, StoreBilling
<1>3. /\ pulses \in Nat /\ seen \in Nat /\ seen <= pulses /\ pulses - seen <= MaxBacklog
      /\ billing \in Nat /\ skipped \in Nat /\ last_pulses \in Counts /\ BillFits(billing)
  BY DEF BillInv
<1>4. \A b \in Nat : b + skipped <= seen + last_pulses => BillFits(b)
  BY DEF BillFits, Fits
<1> SUFFICES /\ billing' \in Nat /\ last_pulses' \in Counts
             /\ Fits(billing', skipped, seen, last_pulses')
             /\ \A n : todo' # <<Stmt("meter", n)>>
             /\ Adds' \/ ~Metering'
  BY <1>1, <1>2, <1>3 DEF BillInv, BillFits
<1>5. CASE StoreLast
  <2>1. Due("last") /\ todo' = Tail(todo) /\ last_pulses' = Value /\ billing' = billing
    BY <1>5 DEF StoreLast, Done
  <2>2. CASE \E n, f, d :
               n \in Counts /\ d \in 0 .. n /\ IsHonest
               /\ todo = <<Stmt("last", n), Stmt("flow", f), Stmt("bill", d), Looks>>
    <3>1. PICK n, f, d :
            n \in Counts /\ d \in 0 .. n /\ IsHonest
            /\ todo = <<Stmt("last", n), Stmt("flow", f), Stmt("bill", d), Looks>>
      BY <2>2
    <3>2. last_pulses' = n /\ todo' = <<Stmt("flow", f), Stmt("bill", d), Looks>>
      BY <2>1, <3>1, FourLeft
    <3>3. n \in Counts /\ n \in Nat /\ d \in Nat /\ d <= n
      BY <3>1 DEF Counts, WaterAssumption
    <3>4. Fits(billing, skipped, seen, n) /\ Fits(billing + d, skipped, seen, n)
      BY <1>3, <3>1, <3>3 DEF IsHonest, Honest, Fits
    <3>5. Adds'
      BY <1>1, <2>1, <3>2, <3>3, <3>4 DEF Adds, BillFits
    <3>6. \A m : todo' # <<Stmt("meter", m)>>
      BY <3>2 DEF Stmt
    <3> QED
      BY <1>3, <2>1, <3>2, <3>3, <3>4, <3>5, <3>6
  <2>3. CASE \E n, f : n \in Counts /\ IsHonest /\ todo = <<Stmt("last", n), Stmt("flow", f), Looks>>
    <3>1. PICK n, f : n \in Counts /\ IsHonest /\ todo = <<Stmt("last", n), Stmt("flow", f), Looks>>
      BY <2>3
    <3>2. last_pulses' = n /\ todo' = <<Stmt("flow", f), Looks>>
      BY <2>1, <3>1, ThreeLeft
    <3>3. n \in Nat
      BY <3>1 DEF Counts, WaterAssumption
    <3>4. Fits(billing, skipped, seen, n)
      BY <1>3, <3>1, <3>3 DEF IsHonest, Honest, Fits
    <3>5. Adds'
      BY <3>2 DEF Adds
    <3>6. \A m : todo' # <<Stmt("meter", m)>>
      BY <3>2 DEF Stmt
    <3> QED
      BY <1>3, <2>1, <3>1, <3>2, <3>4, <3>5, <3>6
  <2> QED
    BY <1>2, <2>1, <2>2, <2>3, AddsFirst DEF OnlyDue
<1>6. CASE StoreFlow
  <2>1. Due("flow") /\ todo' = Tail(todo) /\ last_pulses' = last_pulses /\ billing' = billing
    BY <1>6 DEF StoreFlow, Done
  <2>2. CASE \E f, d :
               d \in Nat /\ BillFits(billing + d) /\ todo = <<Stmt("flow", f), Stmt("bill", d), Looks>>
    <3>1. PICK f, d :
            d \in Nat /\ BillFits(billing + d) /\ todo = <<Stmt("flow", f), Stmt("bill", d), Looks>>
      BY <2>2
    <3>2. todo' = <<Stmt("bill", d), Looks>>
      BY <2>1, <3>1, ThreeLeft
    <3>3. Adds'
      BY <1>1, <2>1, <3>1, <3>2 DEF Adds, BillFits
    <3>4. \A m : todo' # <<Stmt("meter", m)>>
      BY <3>2 DEF Stmt
    <3> QED
      BY <1>3, <2>1, <3>3, <3>4 DEF BillFits
  <2>3. CASE \E f : todo = <<Stmt("flow", f), Looks>>
    <3>1. todo' = <<Looks>>
      BY <2>1, <2>3, TwoLeft
    <3>2. (\A m : todo' # <<Stmt("meter", m)>>) /\ ~Metering'
      BY <3>1, ScriptsWithoutCount DEF Metering
    <3> QED
      BY <1>3, <2>1, <3>2 DEF BillFits
  <2> QED
    BY <1>2, <2>1, <2>2, <2>3, AddsFirst DEF OnlyDue
<1>7. CASE ReadBilling
  <2>1. /\ Due("bill") /\ todo' = Do("billing", billing + Value) \o Tail(todo)
        /\ last_pulses' = last_pulses /\ billing' = billing
    BY <1>7 DEF ReadBilling, meter
  <2>2. PICK d \in Nat : BillFits(billing + d) /\ todo = <<Stmt("bill", d), Looks>>
    BY <1>2, <2>1, AddsFirst DEF OnlyDue
  <2>3. Value = d /\ Tail(todo) = <<Looks>>
    BY <2>2, TwoLeft
  <2>4. todo' = <<Stmt("billing", billing + d), Looks>>
    BY <2>1, <2>3, TwoStatements DEF Do, Stmt
  <2>5. Adds'
    <3>1. billing + d \in Nat
      BY <1>3
    <3>2. Fits(billing + d, skipped', seen', last_pulses')
      BY <1>1, <2>1, <2>2 DEF BillFits
    <3> QED
      BY <2>4, <3>1, <3>2 DEF Adds, BillFits
  <2>6. \A m : todo' # <<Stmt("meter", m)>>
    BY <2>4 DEF Stmt
  <2> QED
    BY <1>3, <2>1, <2>5, <2>6 DEF BillFits
<1>8. CASE StoreBilling
  <2>1. Due("billing") /\ todo' = Tail(todo) /\ last_pulses' = last_pulses /\ billing' = Value
    BY <1>8 DEF StoreBilling, Done
  <2>2. PICK b \in Nat : BillFits(b) /\ todo = <<Stmt("billing", b), Looks>>
    BY <1>2, <2>1, AddsFirst DEF OnlyDue
  <2>3. Value = b /\ todo' = <<Looks>>
    BY <2>1, <2>2, TwoLeft
  <2>4. (\A m : todo' # <<Stmt("meter", m)>>) /\ ~Metering'
    BY <2>3, ScriptsWithoutCount DEF Metering
  <2> QED
    BY <1>3, <2>1, <2>2, <2>3, <2>4 DEF BillFits
<1> QED
  BY <1>5, <1>6, <1>7, <1>8

LEMMA MeteringStep ==
  ASSUME MeterInv, StoreLast \/ StoreFlow \/ ReadBilling \/ StoreBilling
  PROVE  MeterInv'
<1>1. /\ fed' = fed /\ pulses' = pulses /\ seen' = seen /\ valve_open' = valve_open
      /\ tamper' = tamper /\ pin' = pin /\ driven' = driven /\ shut' = shut
  BY DEF StoreLast, StoreFlow, ReadBilling, StoreBilling, meter, history
<1>2. Metering /\ fed
  BY MeteringDue DEF MeterInv, StoreLast, StoreFlow, ReadBilling, StoreBilling
<1>3. Metering' \/ todo' = <<Looks>>
  <2>1. CASE StoreLast
    <3>1. Due("last") /\ todo' = Tail(todo)
      BY <2>1 DEF StoreLast, Done
    <3>2. \/ \E n, f, d : todo = <<Stmt("last", n), Stmt("flow", f), Stmt("bill", d), Looks>>
          \/ \E n, f : todo = <<Stmt("last", n), Stmt("flow", f), Looks>>
      BY <1>2, <3>1, MeteringFirst DEF OnlyDue
    <3>3. \/ \E f, d : todo' = <<Stmt("flow", f), Stmt("bill", d), Looks>>
          \/ \E f : todo' = <<Stmt("flow", f), Looks>>
      BY <3>1, <3>2, ThreeLeft, FourLeft
    <3> QED
      BY <3>3 DEF Metering
  <2>2. CASE StoreFlow
    <3>1. Due("flow") /\ todo' = Tail(todo)
      BY <2>2 DEF StoreFlow, Done
    <3>2. \/ \E f, d : todo = <<Stmt("flow", f), Stmt("bill", d), Looks>>
          \/ \E f : todo = <<Stmt("flow", f), Looks>>
      BY <1>2, <3>1, MeteringFirst DEF OnlyDue
    <3>3. (\E d : todo' = <<Stmt("bill", d), Looks>>) \/ todo' = <<Looks>>
      BY <3>1, <3>2, TwoLeft, ThreeLeft
    <3> QED
      BY <3>3 DEF Metering
  <2>3. CASE ReadBilling
    <3>1. Due("bill") /\ todo' = Do("billing", billing + Value) \o Tail(todo)
      BY <2>3 DEF ReadBilling
    <3>2. \E d : todo = <<Stmt("bill", d), Looks>>
      BY <1>2, <3>1, MeteringFirst DEF OnlyDue
    <3>3. Tail(todo) = <<Looks>>
      BY <3>2, TwoLeft
    <3>4. todo' = <<Stmt("billing", billing + Value), Looks>>
      BY <3>1, <3>3, TwoStatements DEF Do, Stmt
    <3> QED
      BY <3>4 DEF Metering
  <2>4. CASE StoreBilling
    <3>1. Due("billing") /\ todo' = Tail(todo)
      BY <2>4 DEF StoreBilling, Done
    <3>2. \E d : todo = <<Stmt("billing", d), Looks>>
      BY <1>2, <3>1, MeteringFirst DEF OnlyDue
    <3> QED
      BY <3>1, <3>2, TwoLeft
  <2> QED
    BY <2>1, <2>2, <2>3, <2>4
<1>4. WaterScript'
  BY <1>1, <1>2, <1>3 DEF WaterScript
<1>5. todo \notin {Asks, Opens, Lifts, Seals, Shuts, Drops}
  BY <1>2, OtherScripts DEF Metering
<1>6. todo' \notin {Asks, Opens, Lifts, Seals, Shuts, Drops}
  BY <1>3, OtherScripts DEF Metering
<1>7. ValveInv'
  BY <1>1, <1>5, <1>6, ValveLeftAlone DEF MeterInv
<1>8. BillInv'
  BY MeteringBill DEF MeterInv
<1> QED
  BY <1>4, <1>7, <1>8 DEF MeterInv

LEMMA WaterStepKeeps ==
  ASSUME MeterInv,
         WaterSample \/ WaterCommand \/ WaterStep \/ Pulse \/ UNCHANGED <<water, todo>>
  PROVE  MeterInv'
<1>1. CASE UNCHANGED <<water, todo>>
  BY <1>1 DEF water, MeterInv, WaterScript, Metering, ValveInv, BillInv, IsHonest, BillFits, Adds
<1>2. CASE WaterStep
  BY <1>2, CheckTamperStep, SetValveStep, WritePinStep, SetTamperStep, SettingStep, CheckBurstStep,
     MeterStep, MeteringStep DEF WaterStep
<1> QED
  BY <1>1, <1>2, WaterSampleStep, WaterCommandStep, PulseStep

-----------------------------------------------------------------------------
(* Types: what is left of a command is a sequence of the product's statements *)

LEMMA OneStatement ==
  ASSUME NEW S, NEW op, NEW v, Stmt(op, v) \in S
  PROVE  Do(op, v) \in Seq(S) /\ Len(Do(op, v)) = 1
<1>1. Do(op, v) = <<Stmt(op, v)>>
  BY DEF Do, Stmt
<1> HIDE DEF Stmt
<1> QED
  BY <1>1

LEMMA Joined ==
  ASSUME NEW S, NEW s \in Seq(S), NEW t \in Seq(S)
  PROVE  s \o t \in Seq(S) /\ Len(s \o t) = Len(s) + Len(t)
BY ConcatProperties

\* Scripts of two and of three statements.
LEMMA ScriptOfTwo ==
  ASSUME NEW S, NEW o, NEW v, NEW p, NEW w, Stmt(o, v) \in S, Stmt(p, w) \in S
  PROVE  Do(o, v) \o Do(p, w) \in Seq(S) /\ Len(Do(o, v) \o Do(p, w)) = 2
<1> DEFINE a == Do(o, v)
           b == Do(p, w)
<1>1. a \in Seq(S) /\ Len(a) = 1 /\ b \in Seq(S) /\ Len(b) = 1
  BY OneStatement
<1> HIDE DEF a, b
<1>2. a \o b \in Seq(S) /\ Len(a \o b) = Len(a) + Len(b)
  BY <1>1, Joined
<1> QED
  BY <1>1, <1>2 DEF a, b

LEMMA ScriptOfThree ==
  ASSUME NEW S, NEW o, NEW v, NEW p, NEW w, NEW q, NEW x,
         Stmt(o, v) \in S, Stmt(p, w) \in S, Stmt(q, x) \in S
  PROVE  /\ Do(o, v) \o Do(p, w) \o Do(q, x) \in Seq(S)
         /\ Len(Do(o, v) \o Do(p, w) \o Do(q, x)) = 3
<1> DEFINE a == Do(o, v) \o Do(p, w)
           b == Do(q, x)
<1>1. a \in Seq(S) /\ Len(a) = 2 /\ b \in Seq(S) /\ Len(b) = 1
  BY OneStatement, ScriptOfTwo
<1> HIDE DEF a, b
<1>2. a \o b \in Seq(S) /\ Len(a \o b) = Len(a) + Len(b)
  BY <1>1, Joined
<1> QED
  BY <1>1, <1>2 DEF a, b

\* What a look puts in the place of the statement that is due.
AtMostOne(s, S) == s = <<>> \/ \E o, v : s = Do(o, v) /\ Stmt(o, v) \in S

\* What is left of a command are statements of S, n of them at most.
Left(S, n) == todo \in Seq(S) /\ Len(todo) \in 0..n

LEMMA TakesOne ==
  ASSUME NEW S, NEW op, NEW v, todo' = Do(op, v), Stmt(op, v) \in S
  PROVE  Left(S, 2)' /\ Left(S, 3)'
<1> DEFINE s == Do(op, v)
<1>1. s \in Seq(S) /\ Len(s) = 1
  BY OneStatement
<1>2. todo' = s
  OBVIOUS
<1> HIDE DEF s
<1> QED
  BY <1>1, <1>2 DEF Left

LEMMA TakesTwo ==
  ASSUME NEW S, NEW o, NEW v, NEW p, NEW w,
         todo' = Do(o, v) \o Do(p, w), Stmt(o, v) \in S, Stmt(p, w) \in S
  PROVE  Left(S, 2)' /\ Left(S, 3)'
<1> DEFINE s == Do(o, v) \o Do(p, w)
<1>1. s \in Seq(S) /\ Len(s) = 2
  BY ScriptOfTwo
<1>2. todo' = s
  OBVIOUS
<1> HIDE DEF s
<1> QED
  BY <1>1, <1>2 DEF Left

LEMMA TakesThree ==
  ASSUME NEW S, NEW o, NEW v, NEW p, NEW w, NEW q, NEW x,
         todo' = Do(o, v) \o Do(p, w) \o Do(q, x),
         Stmt(o, v) \in S, Stmt(p, w) \in S, Stmt(q, x) \in S
  PROVE  Left(S, 3)'
<1> DEFINE s == Do(o, v) \o Do(p, w) \o Do(q, x)
<1>1. s \in Seq(S) /\ Len(s) = 3
  BY ScriptOfThree
<1>2. todo' = s
  OBVIOUS
<1> HIDE DEF s
<1> QED
  BY <1>1, <1>2 DEF Left

LEMMA NextStatement ==
  ASSUME NEW S, NEW n \in Nat, Left(S, n), NEW op, Due(op)
  PROVE  /\ Head(todo) \in S /\ Head(todo).op = op /\ Value = Head(todo).v
         /\ Done => Left(S, n)'
         /\ \A s : AtMostOne(s, S) /\ todo' = s \o Tail(todo) => Left(S, n)'
<1>1. /\ Head(todo) \in S /\ Head(todo).op = op /\ Value = Head(todo).v
      /\ Tail(todo) \in Seq(S) /\ Len(Tail(todo)) = Len(todo) - 1 /\ Len(todo) \in 1..n
  <2>1. todo # <<>> /\ Head(todo).op = op /\ todo \in Seq(S) /\ Len(todo) \in 0..n
    BY DEF Due, Idle, Left
  <2> QED
    BY <2>1, HeadTailProperties DEF Value
<1>2. Done => Left(S, n)'
  BY <1>1 DEF Done, Left
<1>3. ASSUME NEW s, AtMostOne(s, S), todo' = s \o Tail(todo)
      PROVE  Left(S, n)'
  <2>1. s \in Seq(S) /\ Len(s) \in 0..1
    <3>1. CASE s = <<>>
      BY <3>1
    <3>2. ASSUME NEW o, NEW v, s = Do(o, v), Stmt(o, v) \in S
          PROVE  s \in Seq(S) /\ Len(s) = 1
      BY <3>2, OneStatement
    <3> QED
      BY <1>3, <3>1, <3>2 DEF AtMostOne
  <2>2. s \o Tail(todo) \in Seq(S) /\ Len(s \o Tail(todo)) = Len(s) + Len(Tail(todo))
    BY <1>1, <2>1, Joined
  <2> DEFINE k == Len(s)
             m == Len(todo)
  <2>3. k \in 0..1 /\ m \in 1..n /\ Len(s \o Tail(todo)) = k + (m - 1)
    BY <1>1, <2>1, <2>2
  <2> HIDE DEF k, m
  <2>4. k + (m - 1) \in 0..n
    BY <2>3
  <2> QED
    BY <1>3, <2>2, <2>3, <2>4 DEF Left
<1> HIDE DEF Value
<1> QED
  BY <1>1, <1>2, <1>3

\* The vibration.
Scored == {Scores[i] : i \in DOMAIN Scores}
VibrationStatements ==
  [op : {"rms", "peak", "peak?"}, v : Accelerations] \cup [op : {"below"}, v : 0..2]
    \cup [op : {"health"}, v : Scored]

VibrationTypes == VibrationTypeOK /\ Left(VibrationStatements, 3)

LEMMA VibrationTakes ==
  ASSUME Take(VibrationCommands) PROVE Left(VibrationStatements, 3)'
<1> DEFINE S == VibrationStatements
<1>1. /\ \A r \in Accelerations : Stmt("rms", r) \in S /\ Stmt("peak?", r) \in S
      /\ Stmt("below", 0) \in S /\ Stmt("peak", 0) \in S
  BY DEF Stmt, VibrationStatements, Accelerations
<1>2. todo' \in VibrationCommands
  BY DEF Take
<1> HIDE DEF S
<1>3. ASSUME NEW r \in Accelerations, NEW a \in Accelerations,
             todo' = Do("rms", r) \o Do("peak?", a) \o Do("below", 0)
      PROVE  Left(S, 3)'
  BY <1>1, <1>3, TakesThree
<1>4. ASSUME NEW op \in {"below", "peak"}, todo' = Do(op, 0)
      PROVE  Left(S, 3)'
  BY <1>1, <1>4, TakesOne
<1> QED
  BY <1>2, <1>3, <1>4 DEF VibrationCommands, S

LEMMA VibrationKeeps ==
  ASSUME VibrationTypes,
         VibrationSample \/ VibrationCommand \/ VibrationStep \/ UNCHANGED <<vibration, todo>>
  PROVE  VibrationTypes'
<1> DEFINE S == VibrationStatements
<1>1. rms \in Accelerations /\ peak \in Accelerations /\ health \in Scored \cup {0} /\ Left(S, 3)
  BY DEF VibrationTypes, VibrationTypeOK, Scored
<1>2. \A i \in 1..4 : Scores[i] \in Scored
  BY DEF Scores, Scored
<1> SUFFICES /\ rms' \in Accelerations /\ peak' \in Accelerations /\ health' \in Scored \cup {0}
             /\ Left(S, 3)'
  BY DEF VibrationTypes, VibrationTypeOK, Scored
<1> HIDE DEF S
<1>3. todo' = todo => Left(S, 3)'
  BY <1>1 DEF Left
<1>4. CASE UNCHANGED <<vibration, todo>>
  BY <1>1, <1>3, <1>4 DEF vibration
<1>5. CASE VibrationSample
  <2>1. PICK a \in Accelerations : /\ rms' \in Moved(rms, a)
                                   /\ peak' = IF a > peak THEN a ELSE peak
    BY <1>5 DEF VibrationSample
  <2>2. rms' \in Accelerations /\ peak' \in Accelerations
    BY <1>1, <2>1 DEF Moved, Accelerations
  <2>3. health' = Scores[rms' + 1] /\ todo' = todo
    BY <1>5 DEF VibrationSample, HealthNow
  <2>4. \A r \in Accelerations : r + 1 \in 1..4
    BY DEF Accelerations
  <2> QED
    BY <1>2, <1>3, <2>2, <2>3, <2>4
<1>6. CASE VibrationCommand
  BY <1>1, <1>6, VibrationTakes DEF VibrationCommand, vibration, S
<1>7. CASE VibrationStep
  <2>1. ASSUME NEW op, Due(op)
        PROVE  /\ Head(todo) \in S /\ Head(todo).op = op /\ Value = Head(todo).v
               /\ Done => Left(S, 3)'
               /\ \A s : AtMostOne(s, S) /\ todo' = s \o Tail(todo) => Left(S, 3)'
    BY <1>1, <2>1, NextStatement
  <2>2. CASE Store("rms", rms) /\ UNCHANGED <<peak, health>>
    <3>1. rms' \in Accelerations
      BY <2>1, <2>2 DEF Store, S, VibrationStatements
    <3> QED
      BY <1>1, <2>1, <2>2, <3>1 DEF Store
  <2>3. CASE Store("peak", peak) /\ UNCHANGED <<rms, health>>
    <3>1. peak' \in Accelerations
      BY <2>1, <2>3 DEF Store, S, VibrationStatements
    <3> QED
      BY <1>1, <2>1, <2>3, <3>1 DEF Store
  <2>4. CASE Store("health", health) /\ UNCHANGED <<rms, peak>>
    <3>1. health' \in Scored
      BY <2>1, <2>4 DEF Store, S, VibrationStatements
    <3> QED
      BY <1>1, <2>1, <2>4, <3>1 DEF Store
  <2>5. CASE /\ Due("peak?")
             /\ Look("peak?", IF Value > peak THEN Do("peak", Value) ELSE <<>>)
             /\ UNCHANGED vibration
    <3>1. Stmt("peak", Value) \in S
      BY <2>1, <2>5 DEF S, VibrationStatements, Stmt
    <3>2. AtMostOne(IF Value > peak THEN Do("peak", Value) ELSE <<>>, S)
      BY <3>1 DEF AtMostOne
    <3> QED
      BY <1>1, <2>1, <2>5, <3>2 DEF Look, vibration
  <2>6. CASE /\ Due("below")
             /\ Look("below", Compare(Value))
             /\ UNCHANGED vibration
    <3>1. Value \in 0..2
      BY <2>1, <2>6 DEF S, VibrationStatements
    <3>2. Value + 1 \in 1..4
      BY <3>1
    <3>3. \A i \in 1..4 : Stmt("health", Scores[i]) \in S
      BY <1>2 DEF S, VibrationStatements, Stmt
    <3>4. Value < 2 => Stmt("below", Value + 1) \in S
      BY <3>1 DEF S, VibrationStatements, Stmt
    <3>5. AtMostOne(Compare(Value), S)
      BY <3>2, <3>3, <3>4 DEF Compare, AtMostOne
    <3> QED
      BY <1>1, <2>1, <2>6, <3>5 DEF Look, vibration
  <2> QED
    BY <1>7, <2>2, <2>3, <2>4, <2>5, <2>6 DEF VibrationStep
<1> QED
  BY <1>4, <1>5, <1>6, <1>7

\* The energy monitor.
EnergyStatements ==
  [op : {"exceeds", "evaluate"}, v : SUBSET LimitKinds] \cup [op : {"light?"}, v : {0}]
    \cup [op : {"alarm", "led"}, v : BOOLEAN]

EnergyTypes == EnergyTypeOK /\ Left(EnergyStatements, 3)

LEMMA EnergyTakes ==
  ASSUME Take(EnergyCommands) PROVE Left(EnergyStatements, 3)'
<1> DEFINE S == EnergyStatements
<1>1. /\ \A over \in SUBSET LimitKinds : Stmt("exceeds", over) \in S /\ Stmt("evaluate", over) \in S
      /\ Stmt("evaluate", LimitKinds) \in S /\ Stmt("light?", 0) \in S
  BY DEF Stmt, EnergyStatements
<1>2. todo' \in EnergyCommands
  BY DEF Take
<1> SUFFICES Left(S, 3)'
  OBVIOUS
<1> HIDE DEF S
<1>3. ASSUME NEW over \in SUBSET LimitKinds,
             todo' = Do("exceeds", over) \o Do("evaluate", LimitKinds) \o Do("light?", 0)
      PROVE  Left(S, 3)'
  BY <1>1, <1>3, TakesThree
<1>4. ASSUME NEW op, NEW v, todo' = Do(op, v), Stmt(op, v) \in S
      PROVE  Left(S, 3)'
  BY <1>4, TakesOne
<1>5. CASE todo' \in {Do("evaluate", {kind}) : kind \in LimitKinds}
  <2>1. PICK kind \in LimitKinds : todo' = Do("evaluate", {kind})
    BY <1>5
  <2> QED
    BY <1>1, <1>4, <2>1
<1> QED
  BY <1>1, <1>2, <1>3, <1>4, <1>5 DEF EnergyCommands

LEMMA EnergyKeeps ==
  ASSUME EnergyTypes,
         EnergySample \/ EnergyCommand \/ EnergyStep \/ UNCHANGED <<energy, todo>>
  PROVE  EnergyTypes'
<1> DEFINE S == EnergyStatements
<1>1. exceeds \in SUBSET LimitKinds /\ alarm \in BOOLEAN /\ led \in BOOLEAN /\ Left(S, 3)
  BY DEF EnergyTypes, EnergyTypeOK
<1> SUFFICES exceeds' \in SUBSET LimitKinds /\ alarm' \in BOOLEAN /\ led' \in BOOLEAN /\ Left(S, 3)'
  BY DEF EnergyTypes, EnergyTypeOK
<1> HIDE DEF S
<1>2. todo' = todo => Left(S, 3)'
  BY <1>1 DEF Left
<1>3. CASE UNCHANGED <<energy, todo>>
  BY <1>1, <1>2, <1>3 DEF energy
<1>4. CASE EnergySample
  BY <1>1, <1>2, <1>4 DEF EnergySample, Light
<1>5. CASE EnergyCommand
  BY <1>1, <1>5, EnergyTakes DEF EnergyCommand, energy, S
<1>6. CASE EnergyStep
  <2>1. ASSUME NEW op, Due(op)
        PROVE  /\ Head(todo) \in S /\ Head(todo).op = op /\ Value = Head(todo).v
               /\ Done => Left(S, 3)'
               /\ \A s : AtMostOne(s, S) /\ todo' = s \o Tail(todo) => Left(S, 3)'
    BY <1>1, <2>1, NextStatement
  <2>2. CASE StoreExceeds
    <3>1. exceeds' \in SUBSET LimitKinds
      BY <2>1, <2>2 DEF StoreExceeds, S, EnergyStatements
    <3> QED
      BY <1>1, <2>1, <2>2, <3>1 DEF StoreExceeds
  <2>3. CASE Evaluate
    <3>1. Stmt("alarm", exceeds \cap Value # {}) \in S
      BY DEF S, EnergyStatements, Stmt
    <3> QED
      BY <1>1, <2>1, <2>3, <3>1 DEF Evaluate, AtMostOne, energy
  <2>4. CASE StoreAlarm
    <3>1. alarm' \in BOOLEAN
      BY <2>1, <2>4 DEF StoreAlarm, S, EnergyStatements
    <3> QED
      BY <1>1, <2>1, <2>4, <3>1 DEF StoreAlarm
  <2>5. CASE ReadAlarm
    <3>1. Stmt("led", alarm) \in S
      BY <1>1 DEF S, EnergyStatements, Stmt
    <3> QED
      BY <1>1, <2>1, <2>5, <3>1 DEF ReadAlarm, AtMostOne, energy
  <2>6. CASE WriteLed
    <3>1. led' \in BOOLEAN
      BY <2>1, <2>6 DEF WriteLed, S, EnergyStatements
    <3> QED
      BY <1>1, <2>1, <2>6, <3>1 DEF WriteLed
  <2> QED
    BY <1>6, <2>2, <2>3, <2>4, <2>5, <2>6 DEF EnergyStep
<1> QED
  BY <1>3, <1>4, <1>5, <1>6

\* The identifiers and counts of the vehicle's bus.
CanStatements ==
  [op : {"last_id"}, v : 0..255] \cup [op : {"accepted"}, v : BOOLEAN]
    \cup [op : {"signals"}, v : {"none", "frame", "least"}] \cup [op : {"bus_off"}, v : 0..MaxBusOff]
    \cup [op : {"dtc"}, v : 0..1]

CanTypes == CanTypeOK /\ Left(CanStatements, 2)

LEMMA CanTakes ==
  ASSUME Take(CanCommands), bus_off \in 0..MaxBusOff PROVE Left(CanStatements, 2)'
<1> DEFINE S == CanStatements
<1>1. /\ Stmt("last_id", 0) \in S /\ Stmt("accepted", Accepts(0)) \in S
      /\ Stmt("signals", "least") \in S
      /\ bus_off # MaxBusOff => Stmt("bus_off", bus_off + 1) \in S
      /\ \A code \in 0..1 : Stmt("dtc", code) \in S
  BY CanAssumption DEF Stmt, CanStatements, Accepts
<1>2. todo' \in CanCommands
  BY DEF Take
<1> SUFFICES Left(S, 2)'
  OBVIOUS
<1> HIDE DEF S
<1>3. ASSUME NEW fit, Stmt("accepted", fit) \in S, todo' = Do("last_id", 0) \o Do("accepted", fit)
      PROVE  Left(S, 2)'
  BY <1>1, <1>3, TakesTwo
<1>4. ASSUME NEW op, NEW v, todo' = Do(op, v), Stmt(op, v) \in S
      PROVE  Left(S, 2)'
  BY <1>4, TakesOne
<1>5. CASE todo' \in {Do("bus_off", n + 1) : n \in {bus_off} \ {MaxBusOff}}
  <2>1. todo' = Do("bus_off", bus_off + 1) /\ bus_off # MaxBusOff
    BY <1>5
  <2> QED
    BY <1>1, <1>4, <2>1
<1>6. CASE todo' \in {Do("dtc", code) : code \in 0..1}
  <2>1. PICK code \in 0..1 : todo' = Do("dtc", code)
    BY <1>6
  <2> QED
    BY <1>1, <1>4, <2>1
<1> QED
  BY <1>1, <1>2, <1>3, <1>4, <1>5, <1>6 DEF CanCommands

LEMMA CanKeeps ==
  ASSUME CanTypes, CanSample \/ CanCommand \/ CanStep \/ UNCHANGED <<can, todo>>
  PROVE  CanTypes'
<1> DEFINE S == CanStatements
<1>1. /\ last_id \in 0..255 /\ accepted \in BOOLEAN /\ signals \in {"none", "frame", "least"}
      /\ bus_off \in 0..MaxBusOff /\ dtc \in 0..1 /\ Left(S, 2)
  BY DEF CanTypes, CanTypeOK
<1> SUFFICES /\ last_id' \in 0..255 /\ accepted' \in BOOLEAN /\ signals' \in {"none", "frame", "least"}
             /\ bus_off' \in 0..MaxBusOff /\ dtc' \in 0..1 /\ Left(S, 2)'
  BY DEF CanTypes, CanTypeOK
<1> HIDE DEF S
<1>2. todo' = todo => Left(S, 2)'
  BY <1>1 DEF Left
<1>3. CASE UNCHANGED <<can, todo>>
  BY <1>1, <1>2, <1>3 DEF can
<1>4. CASE CanSample
  BY <1>1, <1>2, <1>4 DEF CanSample, Accepts
<1>5. CASE CanCommand
  BY <1>1, <1>5, CanTakes DEF CanCommand, can, S
<1>6. CASE CanStep
  <2>1. ASSUME NEW op, Due(op), Done
        PROVE  Head(todo) \in S /\ Head(todo).op = op /\ Value = Head(todo).v /\ Left(S, 2)'
    BY <1>1, <2>1, NextStatement
  <2>2. CASE Store("last_id", last_id) /\ UNCHANGED <<accepted, signals, bus_off, dtc>>
    <3>1. last_id' \in 0..255
      BY <2>1, <2>2 DEF Store, S, CanStatements
    <3> QED
      BY <1>1, <2>1, <2>2, <3>1 DEF Store
  <2>3. CASE Store("accepted", accepted) /\ UNCHANGED <<last_id, signals, bus_off, dtc>>
    <3>1. accepted' \in BOOLEAN
      BY <2>1, <2>3 DEF Store, S, CanStatements
    <3> QED
      BY <1>1, <2>1, <2>3, <3>1 DEF Store
  <2>4. CASE Store("signals", signals) /\ UNCHANGED <<last_id, accepted, bus_off, dtc>>
    <3>1. signals' \in {"none", "frame", "least"}
      BY <2>1, <2>4 DEF Store, S, CanStatements
    <3> QED
      BY <1>1, <2>1, <2>4, <3>1 DEF Store
  <2>5. CASE Store("bus_off", bus_off) /\ UNCHANGED <<last_id, accepted, signals, dtc>>
    <3>1. bus_off' \in 0..MaxBusOff
      BY <2>1, <2>5 DEF Store, S, CanStatements
    <3> QED
      BY <1>1, <2>1, <2>5, <3>1 DEF Store
  <2>6. CASE Store("dtc", dtc) /\ UNCHANGED <<last_id, accepted, signals, bus_off>>
    <3>1. dtc' \in 0..1
      BY <2>1, <2>6 DEF Store, S, CanStatements
    <3> QED
      BY <1>1, <2>1, <2>6, <3>1 DEF Store
  <2> QED
    BY <1>6, <2>2, <2>3, <2>4, <2>5, <2>6 DEF CanStep
<1> QED
  BY <1>3, <1>4, <1>5, <1>6

\* The cold chain: a look for an excursion is the only statement of its command.
ColdStatements ==
  [op : {"hot", "door", "acked", "excursion_alarm"}, v : BOOLEAN]
    \cup [op : {"sound", "door?", "silence?"}, v : {0}]
LooksForExcursion == todo = <<Stmt("excursion?", 0)>>

ColdTypes == ColdTypeOK /\ (Left(ColdStatements, 3) \/ LooksForExcursion)

LEMMA ColdTakes ==
  ASSUME Take(ColdCommands) PROVE (Left(ColdStatements, 3) \/ LooksForExcursion)'
<1> DEFINE S == ColdStatements
<1>1. /\ \A b \in BOOLEAN : Stmt("hot", b) \in S /\ Stmt("door", b) \in S
      /\ Stmt("door", FALSE) \in S /\ Stmt("acked", TRUE) \in S
      /\ Stmt("sound", 0) \in S /\ Stmt("door?", 0) \in S /\ Stmt("silence?", 0) \in S
  BY DEF Stmt, ColdStatements
<1>2. todo' \in ColdCommands
  BY DEF Take
<1> SUFFICES Left(S, 3)' \/ LooksForExcursion'
  OBVIOUS
<1> HIDE DEF S
<1>3. ASSUME NEW b \in BOOLEAN, todo' = Do("hot", b) \o Do("sound", 0) PROVE Left(S, 3)'
  BY <1>1, <1>3, TakesTwo
<1>4. CASE todo' = Do("excursion?", 0)
  BY <1>4 DEF Do, Stmt, LooksForExcursion
<1>5. CASE todo' = Do("acked", TRUE) \o Do("silence?", 0)
  BY <1>1, <1>5, TakesTwo
<1>6. ASSUME NEW b \in BOOLEAN, todo' = Do("door", FALSE) \o Do("door", b) \o Do("door?", 0)
      PROVE  Left(S, 3)'
  <2>1. Stmt("door", FALSE) \in S /\ Stmt("door", b) \in S /\ Stmt("door?", 0) \in S
    BY <1>1
  <2> QED
    BY <1>6, <2>1, TakesThree
<1> QED
  BY <1>2, <1>3, <1>4, <1>5, <1>6 DEF ColdCommands

LEMMA ColdKeeps ==
  ASSUME ColdTypes, ColdSample \/ ColdCommand \/ ColdStep \/ UNCHANGED <<cold, todo>>
  PROVE  ColdTypes'
<1> DEFINE S == ColdStatements
<1>1. /\ hot \in BOOLEAN /\ door \in BOOLEAN /\ excursion_alarm \in BOOLEAN /\ acked \in BOOLEAN
      /\ Left(S, 3) \/ LooksForExcursion
  BY DEF ColdTypes, ColdTypeOK
<1> SUFFICES /\ hot' \in BOOLEAN /\ door' \in BOOLEAN /\ excursion_alarm' \in BOOLEAN
             /\ acked' \in BOOLEAN
             /\ Left(S, 3)' \/ LooksForExcursion'
  BY DEF ColdTypes, ColdTypeOK
<1> HIDE DEF S
<1>2. todo' = todo => Left(S, 3)' \/ LooksForExcursion'
  BY <1>1 DEF Left, LooksForExcursion
<1>3. CASE UNCHANGED <<cold, todo>>
  BY <1>1, <1>2, <1>3 DEF cold
<1>4. CASE ColdSample
  BY <1>1, <1>2, <1>4 DEF ColdSample, Acked
<1>5. CASE ColdCommand
  BY <1>1, <1>5, ColdTakes DEF ColdCommand, cold, S
<1>6. CASE ColdStep /\ Left(S, 3)
  <2>1. ASSUME NEW op, Due(op)
        PROVE  /\ Head(todo) \in S /\ Head(todo).op = op /\ Value = Head(todo).v
               /\ Done => Left(S, 3)'
               /\ \A s : AtMostOne(s, S) /\ todo' = s \o Tail(todo) => Left(S, 3)'
    BY <1>6, <2>1, NextStatement
  <2>2. CASE Store("hot", hot) /\ UNCHANGED <<door, excursion_alarm, acked>>
    <3>1. hot' \in BOOLEAN
      BY <2>1, <2>2 DEF Store, S, ColdStatements
    <3> QED
      BY <1>1, <2>1, <2>2, <3>1 DEF Store
  <2>3. CASE Store("door", door) /\ UNCHANGED <<hot, excursion_alarm, acked>>
    <3>1. door' \in BOOLEAN
      BY <2>1, <2>3 DEF Store, S, ColdStatements
    <3> QED
      BY <1>1, <2>1, <2>3, <3>1 DEF Store
  <2>4. CASE Store("acked", acked) /\ UNCHANGED <<hot, door, excursion_alarm>>
    <3>1. acked' \in BOOLEAN
      BY <2>1, <2>4 DEF Store, S, ColdStatements
    <3> QED
      BY <1>1, <2>1, <2>4, <3>1 DEF Store
  <2>5. CASE Store("excursion_alarm", excursion_alarm) /\ UNCHANGED <<hot, door, acked>>
    <3>1. excursion_alarm' \in BOOLEAN
      BY <2>1, <2>5 DEF Store, S, ColdStatements
    <3> QED
      BY <1>1, <2>1, <2>5, <3>1 DEF Store
  <2>6. ASSUME NEW b \in BOOLEAN PROVE Stmt("excursion_alarm", b) \in S
    BY DEF S, ColdStatements, Stmt
  <2>7. CASE Look("sound", Do("excursion_alarm", hot \/ door)) /\ UNCHANGED cold
    <3>1. AtMostOne(Do("excursion_alarm", hot \/ door), S)
      BY <2>6 DEF AtMostOne
    <3> QED
      BY <1>1, <2>1, <2>7, <3>1 DEF Look, cold
  <2>8. ~Due("excursion?")
    BY <2>1 DEF S, ColdStatements
  <2>9. CASE Look("door?", IF door THEN Do("excursion_alarm", TRUE) ELSE <<>>) /\ UNCHANGED cold
    <3>1. AtMostOne(IF door THEN Do("excursion_alarm", TRUE) ELSE <<>>, S)
      BY <2>6 DEF AtMostOne
    <3> QED
      BY <1>1, <2>1, <2>9, <3>1 DEF Look, cold
  <2>10. CASE /\ Look("silence?", IF ~door /\ ~hot THEN Do("excursion_alarm", FALSE) ELSE <<>>)
              /\ UNCHANGED cold
    <3>1. AtMostOne(IF ~door /\ ~hot THEN Do("excursion_alarm", FALSE) ELSE <<>>, S)
      BY <2>6 DEF AtMostOne
    <3> QED
      BY <1>1, <2>1, <2>10, <3>1 DEF Look, cold
  <2> QED
    BY <1>6, <2>2, <2>3, <2>4, <2>5, <2>7, <2>8, <2>9, <2>10 DEF ColdStep, Look
<1>7. CASE ColdStep /\ LooksForExcursion
  <2>1. Tail(todo) = <<>> /\ \A o : Due(o) <=> o = "excursion?"
    BY <1>7, OneLeft DEF LooksForExcursion
  <2>2. /\ todo' = (IF hot THEN Do("excursion_alarm", TRUE) \o Do("acked", FALSE) ELSE <<>>) \o <<>>
        /\ UNCHANGED cold
    BY <1>7, <2>1 DEF ColdStep, Store, Look
  <2>3. Stmt("excursion_alarm", TRUE) \in S /\ Stmt("acked", FALSE) \in S
    BY DEF S, ColdStatements, Stmt
  <2>4. CASE hot
    <3> DEFINE s == Do("excursion_alarm", TRUE) \o Do("acked", FALSE)
    <3>1. s \in Seq(S) /\ Len(s) = 2
      BY <2>3, ScriptOfTwo
    <3>2. todo' = s \o <<>>
      BY <2>2, <2>4
    <3> HIDE DEF s
    <3>3. todo' = s
      BY <3>1, <3>2, ConcatEmptySeq
    <3>4. Left(S, 3)'
      BY <3>1, <3>3 DEF Left
    <3> QED
      BY <1>1, <2>2, <3>4 DEF cold
  <2>5. CASE ~hot
    <3>1. todo' = <<>>
      BY <2>2, <2>5, NothingAfter
    <3>2. Left(S, 3)'
      BY <3>1 DEF Left
    <3> QED
      BY <1>1, <2>2, <3>2 DEF cold
  <2> QED
    BY <2>4, <2>5
<1> QED
  BY <1>1, <1>3, <1>4, <1>5, <1>6, <1>7

\* The tracker.
TrackerStatements ==
  [op : {"rssi"}, v : 0..1] \cup [op : {"moving", "batt_low", "inside"}, v : BOOLEAN]
    \cup [op : {"fence"}, v : 0..2]

TrackerTypes == TrackerTypeOK /\ Left(TrackerStatements, 2)

LEMMA TrackerTakes ==
  ASSUME Take(TrackerCommands) PROVE Left(TrackerStatements, 2)'
<1> DEFINE S == TrackerStatements
<1>1. /\ \A r \in 0..1 : Stmt("rssi", r) \in S
      /\ \A b \in BOOLEAN : Stmt("batt_low", b) \in S /\ Stmt("moving", b) \in S
      /\ Stmt("moving", FALSE) \in S /\ Stmt("moving", TRUE) \in S
      /\ \A r \in 0..2 : Stmt("fence", r) \in S
  BY DEF Stmt, TrackerStatements
<1>2. todo' \in TrackerCommands
  BY DEF Take
<1> SUFFICES Left(S, 2)'
  OBVIOUS
<1> HIDE DEF S
<1>3. ASSUME NEW op, NEW v, todo' = Do(op, v), Stmt(op, v) \in S
      PROVE  Left(S, 2)'
  BY <1>3, TakesOne
<1>4. ASSUME NEW b \in BOOLEAN, todo' = Do("moving", TRUE) \o Do("moving", b) PROVE Left(S, 2)'
  BY <1>1, <1>4, TakesTwo
<1>5. \/ \E r \in 0..1 : todo' = Do("rssi", r)
      \/ \E b \in BOOLEAN : todo' = Do("batt_low", b)
      \/ todo' = Do("moving", FALSE)
      \/ \E b \in BOOLEAN : todo' = Do("moving", TRUE) \o Do("moving", b)
      \/ \E r \in 0..2 : todo' = Do("fence", r)
  BY <1>2 DEF TrackerCommands
<1> QED
  BY <1>1, <1>3, <1>4, <1>5

LEMMA TrackerKeeps ==
  ASSUME TrackerTypes,
         TrackerSample \/ TrackerCommand \/ TrackerStep \/ UNCHANGED <<tracker, todo>>
  PROVE  TrackerTypes'
<1> DEFINE S == TrackerStatements
<1>1. /\ rssi \in 0..1 /\ moving \in BOOLEAN /\ batt_low \in BOOLEAN /\ geo_inside \in BOOLEAN
      /\ Left(S, 2)
  BY DEF TrackerTypes, TrackerTypeOK
<1> SUFFICES /\ rssi' \in 0..1 /\ moving' \in BOOLEAN /\ batt_low' \in BOOLEAN
             /\ geo_inside' \in BOOLEAN /\ Left(S, 2)'
  BY DEF TrackerTypes, TrackerTypeOK
<1> HIDE DEF S
<1>2. todo' = todo => Left(S, 2)'
  BY <1>1 DEF Left
<1>3. CASE UNCHANGED <<tracker, todo>>
  BY <1>1, <1>2, <1>3 DEF tracker
<1>4. CASE TrackerSample
  <2>1. rssi' = 1 /\ moving' = FALSE /\ batt_low' = FALSE /\ geo_inside' = geo_inside
    BY <1>4 DEF TrackerSample
  <2>2. Left(S, 2)'
    BY <1>2, <1>4 DEF TrackerSample
  <2>3. rssi' \in 0..1
    BY <2>1
  <2> QED
    BY <1>1, <2>1, <2>2, <2>3
<1>5. CASE TrackerCommand
  BY <1>1, <1>5, TrackerTakes DEF TrackerCommand, tracker, S
<1>6. CASE TrackerStep
  <2>1. ASSUME NEW op, Due(op)
        PROVE  /\ Head(todo) \in S /\ Head(todo).op = op /\ Value = Head(todo).v
               /\ Done => Left(S, 2)'
               /\ \A s : AtMostOne(s, S) /\ todo' = s \o Tail(todo) => Left(S, 2)'
    BY <1>1, <2>1, NextStatement
  <2>2. CASE Store("rssi", rssi) /\ UNCHANGED <<moving, batt_low, geo_inside>>
    <3>1. rssi' \in 0..1
      BY <2>1, <2>2 DEF Store, S, TrackerStatements
    <3> QED
      BY <1>1, <2>1, <2>2, <3>1 DEF Store
  <2>3. CASE Store("moving", moving) /\ UNCHANGED <<rssi, batt_low, geo_inside>>
    <3>1. moving' \in BOOLEAN
      BY <2>1, <2>3 DEF Store, S, TrackerStatements
    <3> QED
      BY <1>1, <2>1, <2>3, <3>1 DEF Store
  <2>4. CASE Store("batt_low", batt_low) /\ UNCHANGED <<rssi, moving, geo_inside>>
    <3>1. batt_low' \in BOOLEAN
      BY <2>1, <2>4 DEF Store, S, TrackerStatements
    <3> QED
      BY <1>1, <2>1, <2>4, <3>1 DEF Store
  <2>5. CASE Store("inside", geo_inside) /\ UNCHANGED <<rssi, moving, batt_low>>
    <3>1. geo_inside' \in BOOLEAN
      BY <2>1, <2>5 DEF Store, S, TrackerStatements
    <3> QED
      BY <1>1, <2>1, <2>5, <3>1 DEF Store
  <2>6. CASE Due("fence") /\ Look("fence", Do("inside", rssi >= Value)) /\ UNCHANGED tracker
    <3>1. Stmt("inside", rssi >= Value) \in S
      BY DEF S, TrackerStatements, Stmt
    <3> QED
      BY <1>1, <2>1, <2>6, <3>1 DEF Look, AtMostOne, tracker
  <2> QED
    BY <1>6, <2>2, <2>3, <2>4, <2>5, <2>6 DEF TrackerStep
<1> QED
  BY <1>3, <1>4, <1>5, <1>6

\* The robot.
RobotStatements ==
  [op : {"heard", "estop", "flat"}, v : BOOLEAN] \cup [op : {"heard?", "silent?", "grow"}, v : {0}]
    \cup [op : {"age"}, v : 0..(AgeMod - 1)]

RobotTypes == RobotTypeOK /\ Left(RobotStatements, 2)

LEMMA RobotTakes ==
  ASSUME Take(RobotCommands) PROVE Left(RobotStatements, 2)'
<1> DEFINE S == RobotStatements
<1>1. /\ \A b \in BOOLEAN : Stmt("estop", b) \in S /\ Stmt("flat", b) \in S
      /\ Stmt("heard", FALSE) \in S /\ Stmt("heard?", 0) \in S /\ Stmt("silent?", 0) \in S
  BY DEF Stmt, RobotStatements
<1>2. todo' \in RobotCommands
  BY DEF Take
<1> SUFFICES Left(S, 2)'
  OBVIOUS
<1> HIDE DEF S
<1>3. ASSUME NEW op, NEW v, todo' = Do(op, v), Stmt(op, v) \in S
      PROVE  Left(S, 2)'
  BY <1>3, TakesOne
<1>4. CASE todo' = Do("heard", FALSE) \o Do("heard?", 0)
  BY <1>1, <1>4, TakesTwo
<1>5. \/ todo' = Do("heard", FALSE) \o Do("heard?", 0) \/ todo' = Do("silent?", 0)
      \/ \E b \in BOOLEAN : todo' = Do("estop", b)
      \/ \E b \in BOOLEAN : todo' = Do("flat", b)
  BY <1>2 DEF RobotCommands
<1> QED
  BY <1>1, <1>3, <1>4, <1>5

LEMMA RobotKeeps ==
  ASSUME RobotTypes, RobotSample \/ RobotCommand \/ RobotStep \/ UNCHANGED <<robot, todo>>
  PROVE  RobotTypes'
<1> DEFINE S == RobotStatements
<1>1. /\ hb_age \in 0..(AgeMod - 1) /\ heard \in BOOLEAN /\ estop \in BOOLEAN /\ flat \in BOOLEAN
      /\ Left(S, 2)
  BY DEF RobotTypes, RobotTypeOK
<1>2. 0 \in 0..(AgeMod - 1) /\ Older(hb_age) \in 0..(AgeMod - 1)
  BY <1>1, RobotAssumption DEF Older
<1> SUFFICES /\ hb_age' \in 0..(AgeMod - 1) /\ heard' \in BOOLEAN /\ estop' \in BOOLEAN
             /\ flat' \in BOOLEAN /\ Left(S, 2)'
  BY DEF RobotTypes, RobotTypeOK
<1> HIDE DEF S
<1>3. todo' = todo => Left(S, 2)'
  BY <1>1 DEF Left
<1>4. CASE UNCHANGED <<robot, todo>>
  BY <1>1, <1>3, <1>4 DEF robot
<1>5. CASE RobotSample
  BY <1>1, <1>2, <1>3, <1>5 DEF RobotSample
<1>6. CASE RobotCommand
  BY <1>1, <1>6, RobotTakes DEF RobotCommand, robot, S
<1>7. CASE RobotStep
  <2>1. ASSUME NEW op, Due(op)
        PROVE  /\ Head(todo) \in S /\ Head(todo).op = op /\ Value = Head(todo).v
               /\ Done => Left(S, 2)'
               /\ \A s : AtMostOne(s, S) /\ todo' = s \o Tail(todo) => Left(S, 2)'
    BY <1>1, <2>1, NextStatement
  <2>2. CASE Store("heard", heard) /\ UNCHANGED <<hb_age, estop, flat>>
    <3>1. heard' \in BOOLEAN
      BY <2>1, <2>2 DEF Store, S, RobotStatements
    <3> QED
      BY <1>1, <2>1, <2>2, <3>1 DEF Store
  <2>3. CASE Store("age", hb_age) /\ UNCHANGED <<heard, estop, flat>>
    <3>1. hb_age' \in 0..(AgeMod - 1)
      BY <2>1, <2>3 DEF Store, S, RobotStatements
    <3> QED
      BY <1>1, <2>1, <2>3, <3>1 DEF Store
  <2>4. CASE Store("estop", estop) /\ UNCHANGED <<heard, hb_age, flat>>
    <3>1. estop' \in BOOLEAN
      BY <2>1, <2>4 DEF Store, S, RobotStatements
    <3> QED
      BY <1>1, <2>1, <2>4, <3>1 DEF Store
  <2>5. CASE Store("flat", flat) /\ UNCHANGED <<heard, hb_age, estop>>
    <3>1. flat' \in BOOLEAN
      BY <2>1, <2>5 DEF Store, S, RobotStatements
    <3> QED
      BY <1>1, <2>1, <2>5, <3>1 DEF Store
  <2>6. /\ Stmt("age", 0) \in S /\ Stmt("age", Older(hb_age)) \in S /\ Stmt("grow", 0) \in S
    BY <1>2 DEF S, RobotStatements, Stmt
  <2>7. /\ AtMostOne(IF heard THEN Do("age", 0) ELSE <<>>, S)
        /\ AtMostOne(IF heard THEN <<>> ELSE Do("grow", 0), S)
        /\ AtMostOne(Do("age", Older(hb_age)), S)
    BY <2>6 DEF AtMostOne
  <2>8. CASE Look("heard?", IF heard THEN Do("age", 0) ELSE <<>>) /\ UNCHANGED robot
    BY <1>1, <2>1, <2>7, <2>8 DEF Look, robot
  <2>9. CASE Look("silent?", IF heard THEN <<>> ELSE Do("grow", 0)) /\ UNCHANGED robot
    BY <1>1, <2>1, <2>7, <2>9 DEF Look, robot
  <2>10. CASE Look("grow", Do("age", Older(hb_age))) /\ UNCHANGED robot
    BY <1>1, <2>1, <2>7, <2>10 DEF Look, robot
  <2> QED
    BY <1>7, <2>2, <2>3, <2>4, <2>5, <2>8, <2>9, <2>10 DEF RobotStep
<1> QED
  BY <1>4, <1>5, <1>6, <1>7

\* The charger.
ChargerStatements ==
  [op : {"chg_state"}, v : {"Idle", "Charging", "Fault"}] \cup [op : {"session?"}, v : {0}]
    \cup [op : {"session"}, v : 0..MaxSession] \cup [op : {"fault"}, v : BOOLEAN]

ChargerTypes == ChargerTypeOK /\ Left(ChargerStatements, 2)

LEMMA ChargerTakes ==
  ASSUME Take(ChargerCommands), session \in 0..MaxSession PROVE Left(ChargerStatements, 2)'
<1> DEFINE S == ChargerStatements
<1>1. /\ \A s \in {"Idle", "Charging", "Fault"} : Stmt("chg_state", s) \in S
      /\ Stmt("session?", 0) \in S /\ Stmt("session", 0) \in S
      /\ session # MaxSession => Stmt("session", session + 1) \in S
      /\ Stmt("fault", TRUE) \in S /\ Stmt("fault", FALSE) \in S
  BY ChargerAssumption DEF Stmt, ChargerStatements
<1>2. todo' \in ChargerCommands
  BY DEF Take
<1> SUFFICES Left(S, 2)'
  OBVIOUS
<1> HIDE DEF S
<1>3. ASSUME NEW op, NEW v, todo' = Do(op, v), Stmt(op, v) \in S
      PROVE  Left(S, 2)'
  BY <1>3, TakesOne
<1>4. ASSUME NEW o, NEW v, NEW p, NEW w, todo' = Do(o, v) \o Do(p, w),
             Stmt(o, v) \in S, Stmt(p, w) \in S
      PROVE  Left(S, 2)'
  BY <1>4, TakesTwo
<1>5. \/ todo' = Do("chg_state", "Charging") \o Do("session?", 0)
      \/ todo' = Do("session", 0) \o Do("chg_state", "Idle")
      \/ todo' = Do("chg_state", "Idle") \/ todo' = Do("fault", FALSE)
      \/ todo' = Do("fault", TRUE) \o Do("chg_state", "Fault")
      \/ todo' = Do("session", session + 1) /\ session # MaxSession
  BY <1>2 DEF ChargerCommands, Start, End
<1> QED
  BY <1>1, <1>3, <1>4, <1>5

LEMMA ChargerKeeps ==
  ASSUME ChargerTypes,
         ChargerSample \/ ChargerCommand \/ ChargerStep \/ UNCHANGED <<charger, todo>>
  PROVE  ChargerTypes'
<1> DEFINE S == ChargerStatements
<1>1. /\ chg_state \in {"Idle", "Charging", "Fault"} /\ session \in 0..MaxSession
      /\ ev_fault \in BOOLEAN /\ Left(S, 2)
  BY DEF ChargerTypes, ChargerTypeOK
<1> SUFFICES /\ chg_state' \in {"Idle", "Charging", "Fault"} /\ session' \in 0..MaxSession
             /\ ev_fault' \in BOOLEAN /\ Left(S, 2)'
  BY DEF ChargerTypes, ChargerTypeOK
<1> HIDE DEF S
<1>2. todo' = todo => Left(S, 2)'
  BY <1>1 DEF Left
<1>3. CASE UNCHANGED <<charger, todo>>
  BY <1>1, <1>2, <1>3 DEF charger
<1>4. CASE ChargerSample
  BY <1>1, <1>2, <1>4 DEF ChargerSample, TooHot
<1>5. CASE ChargerCommand
  BY <1>1, <1>5, ChargerTakes DEF ChargerCommand, charger, S
<1>6. CASE ChargerStep
  <2>1. ASSUME NEW op, Due(op)
        PROVE  /\ Head(todo) \in S /\ Head(todo).op = op /\ Value = Head(todo).v
               /\ Done => Left(S, 2)'
               /\ \A s : AtMostOne(s, S) /\ todo' = s \o Tail(todo) => Left(S, 2)'
    BY <1>1, <2>1, NextStatement
  <2>2. CASE Store("chg_state", chg_state) /\ UNCHANGED <<session, ev_fault>>
    <3>1. chg_state' \in {"Idle", "Charging", "Fault"}
      BY <2>1, <2>2 DEF Store, S, ChargerStatements
    <3> QED
      BY <1>1, <2>1, <2>2, <3>1 DEF Store
  <2>3. CASE Store("session", session) /\ UNCHANGED <<chg_state, ev_fault>>
    <3>1. session' \in 0..MaxSession
      BY <2>1, <2>3 DEF Store, S, ChargerStatements
    <3> QED
      BY <1>1, <2>1, <2>3, <3>1 DEF Store
  <2>4. CASE Store("fault", ev_fault) /\ UNCHANGED <<chg_state, session>>
    <3>1. ev_fault' \in BOOLEAN
      BY <2>1, <2>4 DEF Store, S, ChargerStatements
    <3> QED
      BY <1>1, <2>1, <2>4, <3>1 DEF Store
  <2>5. CASE Look("session?", OpenSession) /\ UNCHANGED charger
    <3>1. Stmt("session", 1) \in S
      BY ChargerAssumption DEF S, ChargerStatements, Stmt
    <3>2. AtMostOne(OpenSession, S)
      BY <3>1 DEF AtMostOne, OpenSession
    <3> QED
      BY <1>1, <2>1, <2>5, <3>2 DEF Look, charger
  <2> QED
    BY <1>6, <2>2, <2>3, <2>4, <2>5 DEF ChargerStep
<1> QED
  BY <1>3, <1>4, <1>5, <1>6

\* No command of the other products is longer than its statements either.
LEMMA ScriptLengths ==
  /\ MachineScript => Len(todo) <= 5
  /\ PumpScript => Len(todo) <= 5
  /\ WaterScript => Len(todo) \in 0..4
<1>1. /\ Len(<<>>) \in 0..4
      /\ \A a : Len(<<a>>) \in 0..4
      /\ \A a, b : Len(<<a, b>>) \in 0..4
      /\ \A a, b, c : Len(<<a, b, c>>) \in 0..4
      /\ \A a, b, c, d : Len(<<a, b, c, d>>) \in 0..4
  OBVIOUS
<1>2. MachineScript => Len(todo) \in 0..4
  BY <1>1, Zenon DEF MachineScript
<1>3. PumpScript => Len(todo) \in 0..4
  BY <1>1, Zenon DEF PumpScript
<1>4. WaterScript => Len(todo) \in 0..4
  BY <1>1, Zenon DEF WaterScript, Metering, Asks, Opens, Lifts, Seals, Shuts, Drops
<1> DEFINE n == Len(todo)
<1>5. n \in 0..4 => n <= 5
  <2> HIDE DEF n
  <2> QED OBVIOUS
<1> QED
  BY <1>2, <1>3, <1>4, <1>5

\* The water meter.
WaterStatements ==
  [op : {"sealed?", "burst?", "tamper", "valve", "pin", "freeze"}, v : BOOLEAN]
    \cup [op : {"factor"}, v : Factors] \cup [op : {"meter", "last"}, v : 0..(CounterMod - 1)]
    \cup [op : {"flow"}, v : Flows] \cup [op : {"bill", "billing"}, v : Nat]

WaterTypes == WaterTypeOK /\ skipped <= seen /\ todo \in Seq(WaterStatements)

LEMMA WaterValues ==
  ASSUME NEW s \in WaterStatements
  PROVE  /\ s.op \in {"tamper", "valve", "pin", "freeze"} => s.v \in BOOLEAN
         /\ s.op = "factor" => s.v \in Factors
         /\ s.op \in {"meter", "last"} => s.v \in 0..(CounterMod - 1)
         /\ s.op = "flow" => s.v \in Flows
         /\ s.op \in {"bill", "billing"} => s.v \in Nat
BY DEF WaterStatements

LEMMA FlowIsKnown == \A d, k : FlowOf(d, k) \in Flows
BY DEF FlowOf, Flows

LEMMA ApplyValveScript ==
  ASSUME NEW b \in BOOLEAN PROVE ApplyValve(b) \in Seq(WaterStatements)
<1>1. Stmt("valve", b) \in WaterStatements /\ Stmt("pin", b) \in WaterStatements
  BY DEF WaterStatements, Stmt
<1> QED
  BY <1>1, ScriptOfTwo DEF ApplyValve

LEMMA WaterTakes ==
  ASSUME NEW s \in WaterCommands PROVE s \in Seq(WaterStatements)
<1> DEFINE S == WaterStatements
<1>1. /\ Stmt("sealed?", TRUE) \in S /\ Stmt("tamper", TRUE) \in S /\ Stmt("burst?", TRUE) \in S
      /\ \A b \in BOOLEAN : Stmt("freeze", b) \in S
      /\ \A k \in Factors : Stmt("factor", k) \in S
      /\ \A n \in {0, CounterMod - 1} : Stmt("meter", n) \in S
  <2>1. {0, CounterMod - 1} \subseteq 0..(CounterMod - 1)
    BY WaterAssumption
  <2>2. \A n \in 0..(CounterMod - 1) : Stmt("meter", n) \in S
    BY DEF Stmt, WaterStatements
  <2>3. \A k \in Factors : Stmt("factor", k) \in S
    BY DEF Stmt, WaterStatements
  <2>4. \A b \in BOOLEAN : /\ Stmt("sealed?", b) \in S /\ Stmt("tamper", b) \in S
                           /\ Stmt("burst?", b) \in S /\ Stmt("freeze", b) \in S
    BY DEF Stmt, WaterStatements
  <2> HIDE DEF S
  <2> QED
    BY <2>1, <2>2, <2>3, <2>4
<1>2. ApplyValve(TRUE) \in Seq(S) /\ ApplyValve(FALSE) \in Seq(S)
  BY ApplyValveScript
<1> SUFFICES s \in Seq(S)
  OBVIOUS
<1> HIDE DEF S
<1>3. Open \in Seq(S) /\ Tamper \in Seq(S)
  <2> DEFINE a == Do("sealed?", TRUE)
             b == Do("tamper", TRUE)
  <2>1. a \in Seq(S) /\ b \in Seq(S)
    BY <1>1, OneStatement
  <2> HIDE DEF a, b
  <2>2. a \o ApplyValve(TRUE) \in Seq(S) /\ b \o ApplyValve(FALSE) \in Seq(S)
    BY <1>2, <2>1, Joined
  <2> QED
    BY <2>2 DEF Open, Tamper, a, b
<1>4. ASSUME NEW op, NEW v, s = Do(op, v), Stmt(op, v) \in S PROVE s \in Seq(S)
  BY <1>4, OneStatement
<1>5. \/ s = Open \/ s = ApplyValve(FALSE) \/ s = Tamper \/ s = Do("burst?", TRUE)
      \/ \E b \in BOOLEAN : s = Do("freeze", b)
      \/ \E k \in Factors : s = Do("factor", k)
      \/ \E n \in {0, CounterMod - 1} : s = Do("meter", n)
  BY DEF WaterCommands
<1> QED
  BY <1>1, <1>2, <1>3, <1>4, <1>5

\* What a command and the samples leave to do stays a sequence of statements.
LEMMA WaterScripts ==
  ASSUME WaterTypes, WaterScript, WaterCommand \/ WaterStep
  PROVE  todo' \in Seq(WaterStatements)
<1> DEFINE S == WaterStatements
<1>1. Left(S, 4)
  BY ScriptLengths DEF WaterTypes, Left
<1>2. /\ billing \in Nat /\ last_pulses \in 0..(CounterMod - 1) /\ frozen \in BOOLEAN
  BY DEF WaterTypes, WaterTypeOK
<1> SUFFICES todo' \in Seq(S)
  OBVIOUS
<1> HIDE DEF S
<1>3. CASE WaterCommand
  <2>1. todo' \in WaterCommands
    BY <1>3 DEF WaterCommand, Take
  <2> QED
    BY <2>1, WaterTakes DEF S
<1>4. ASSUME NEW op, Due(op)
      PROVE  /\ Head(todo) \in S /\ Head(todo).op = op /\ Value = Head(todo).v
             /\ Tail(todo) \in Seq(S)
             /\ Done => todo' \in Seq(S)
             /\ \A s : AtMostOne(s, S) /\ todo' = s \o Tail(todo) => todo' \in Seq(S)
  <2>1. /\ Head(todo) \in S /\ Head(todo).op = op /\ Value = Head(todo).v
        /\ Done => Left(S, 4)'
        /\ \A s : AtMostOne(s, S) /\ todo' = s \o Tail(todo) => Left(S, 4)'
    BY <1>1, <1>4, NextStatement
  <2>2. todo # <<>> /\ todo \in Seq(S)
    BY <1>1, <1>4 DEF Due, Idle, Left
  <2>3. Tail(todo) \in Seq(S)
    BY <2>2, HeadTailProperties
  <2> QED
    BY <2>1, <2>3 DEF Left
<1>5. CASE SetValve \/ WritePin \/ SetTamper \/ Freeze \/ SetFactor \/ StoreLast
             \/ StoreFlow \/ StoreBilling
  BY <1>4, <1>5
  DEF SetValve, WritePin, SetTamper, Freeze, SetFactor, StoreLast, StoreFlow, StoreBilling
<1>6. CASE CheckTamper
  <2>1. Tail(todo) \in Seq(S) /\ <<>> \in Seq(S)
    BY <1>4, <1>6 DEF CheckTamper
  <2> QED
    BY <1>6, <2>1 DEF CheckTamper
<1>7. CASE CheckBurst
  <2> DEFINE s == IF flow = "burst" THEN ApplyValve(FALSE) ELSE <<>>
  <2>1. s \in Seq(S)
    <3>1. ApplyValve(FALSE) \in Seq(S) /\ <<>> \in Seq(S)
      <4>1. ApplyValve(FALSE) \in Seq(S)
        BY ApplyValveScript DEF S
      <4>2. <<>> \in Seq(S)
        OBVIOUS
      <4> QED
        BY <4>1, <4>2
    <3> QED
      BY <3>1
  <2>2. Tail(todo) \in Seq(S) /\ todo' = s \o Tail(todo)
    BY <1>4, <1>7 DEF CheckBurst
  <2> HIDE DEF s
  <2> QED
    BY <2>1, <2>2, Joined
<1>8. CASE ReadBilling
  <2>1. Due("bill") /\ todo' = Do("billing", billing + Value) \o Tail(todo)
    BY <1>8 DEF ReadBilling
  <2>2. Value \in Nat
    BY <1>4, <2>1, WaterValues DEF S
  <2>3. billing + Value \in Nat
    BY <1>2, <2>2
  <2>4. Stmt("billing", billing + Value) \in S
    BY <2>3 DEF S, WaterStatements, Stmt
  <2>5. AtMostOne(Do("billing", billing + Value), S)
    BY <2>4 DEF AtMostOne
  <2> QED
    BY <1>4, <2>1, <2>5
<1>9. CASE Meter
  <2> DEFINE d == Delta(Value, last_pulses)
             f == FlowOf(d, k_ppl)
             a == Do("last", Value) \o Do("flow", f)
             b == IF frozen THEN <<>> ELSE Do("bill", d)
             c == Do("burst?", TRUE)
  <2>1. Due("meter") /\ todo' = a \o b \o c \o Tail(todo)
    BY <1>9 DEF Meter
  <2>2. Value \in 0..(CounterMod - 1) /\ Tail(todo) \in Seq(S)
    BY <1>4, <2>1, WaterValues DEF S
  <2>3. d \in Nat
    BY <1>2, <2>2 DEF Delta, WaterAssumption
  <2>4. f \in Flows
    BY FlowIsKnown
  <2> HIDE DEF d, f
  <2>5. /\ Stmt("last", Value) \in S /\ Stmt("flow", f) \in S /\ Stmt("bill", d) \in S
        /\ Stmt("burst?", TRUE) \in S
    BY <2>2, <2>3, <2>4 DEF S, WaterStatements, Stmt
  <2>6. a \in Seq(S) /\ c \in Seq(S)
    BY <2>5, ScriptOfTwo, OneStatement
  <2>7. b \in Seq(S)
    <3>1. Do("bill", d) \in Seq(S) /\ <<>> \in Seq(S)
      BY <2>5, OneStatement
    <3> QED
      BY <3>1
  <2> HIDE DEF a, b, c
  <2>8. a \o b \in Seq(S)
    BY <2>6, <2>7, Joined
  <2>9. (a \o b) \o c \in Seq(S)
    BY <2>6, <2>8, Joined
  <2>10. ((a \o b) \o c) \o Tail(todo) \in Seq(S)
    BY <2>2, <2>9, Joined
  <2> QED
    BY <2>1, <2>10
<1> QED
  BY <1>3, <1>5, <1>6, <1>7, <1>8, <1>9 DEF WaterStep

LEMMA WaterKeeps ==
  ASSUME WaterTypes, WaterScript,
         WaterSample \/ WaterCommand \/ WaterStep \/ Pulse \/ UNCHANGED <<water, todo>>
  PROVE  WaterTypes'
<1> DEFINE S == WaterStatements
           Numbers == /\ pulses \in 0..MaxPulses /\ seen \in 0..pulses /\ skipped \in 0..seen
                      /\ last_pulses \in 0..(CounterMod - 1) /\ flow \in Flows
                      /\ k_ppl \in Factors \cup {2} /\ billing \in Nat
           Flags == /\ valve_open \in BOOLEAN /\ tamper \in BOOLEAN /\ frozen \in BOOLEAN
                    /\ pin \in BOOLEAN /\ fed \in BOOLEAN /\ driven \in BOOLEAN /\ shut \in BOOLEAN
<1>1. Numbers /\ Flags /\ todo \in Seq(S)
  BY WaterAssumption DEF WaterTypes, WaterTypeOK
<1> SUFFICES Numbers' /\ Flags' /\ todo' \in Seq(S)
  BY WaterAssumption DEF WaterTypes, WaterTypeOK
<1> HIDE DEF S
<1>2. todo' \in Seq(S)
  <2>1. CASE WaterSample \/ Pulse \/ UNCHANGED <<water, todo>>
    BY <1>1, <2>1 DEF WaterSample, Pulse
  <2> QED
    BY <2>1, WaterScripts DEF S
<1>3. ASSUME NEW op, Due(op) PROVE Head(todo) \in S /\ Head(todo).op = op /\ Value = Head(todo).v
  <2>1. Left(S, 4)
    BY <1>1, ScriptLengths DEF Left
  <2> QED
    BY <1>3, <2>1, NextStatement
<1>4. Numbers'
  <2>1. CASE WaterSample
    <3> DEFINE d == Delta(Count, last_pulses)
    <3>1. Count \in 0..(CounterMod - 1)
      BY <1>1, WaterAssumption DEF Count
    <3>2. d \in Nat
      BY <1>1, <3>1, WaterAssumption DEF Delta
    <3>3. /\ pulses' = pulses /\ last_pulses' = Count /\ flow' = FlowOf(d, k_ppl) /\ k_ppl' = k_ppl
          /\ billing' = (IF frozen THEN billing ELSE billing + d)
          /\ skipped' = (IF frozen THEN skipped + (pulses - seen) ELSE skipped)
          /\ seen' = pulses
      BY <2>1 DEF WaterSample
    <3> HIDE DEF d
    <3>4. flow' \in Flows
      BY <3>3, FlowIsKnown
    <3>5. billing' \in Nat
      BY <1>1, <3>2, <3>3
    <3>6. seen' \in 0..pulses /\ skipped' \in 0..seen'
      BY <1>1, <3>3, WaterAssumption
    <3> QED
      BY <1>1, <3>1, <3>3, <3>4, <3>5, <3>6
  <2>2. CASE Pulse
    <3>1. /\ pulses < MaxPulses /\ pulses' = pulses + 1 /\ k_ppl' = k_ppl
          /\ last_pulses' = last_pulses /\ flow' = flow /\ billing' = billing
          /\ seen' = seen /\ skipped' = skipped
      BY <2>2 DEF Pulse, meter, history
    <3>2. pulses' \in 0..MaxPulses /\ seen \in 0..pulses'
      BY <1>1, <3>1, WaterAssumption
    <3> QED
      BY <1>1, <3>1, <3>2
  <2>3. CASE SetFactor
    <3>1. k_ppl' \in Factors
      BY <1>3, <2>3, WaterValues DEF SetFactor, S
    <3> QED
      BY <1>1, <2>3, <3>1 DEF SetFactor, meter, history
  <2>4. CASE StoreLast
    <3>1. last_pulses' \in 0..(CounterMod - 1)
      BY <1>3, <2>4, WaterValues DEF StoreLast, S
    <3> QED
      BY <1>1, <2>4, <3>1 DEF StoreLast, history
  <2>5. CASE StoreFlow
    <3>1. flow' \in Flows
      BY <1>3, <2>5, WaterValues DEF StoreFlow, S
    <3> QED
      BY <1>1, <2>5, <3>1 DEF StoreFlow, history
  <2>6. CASE StoreBilling
    <3>1. billing' \in Nat
      BY <1>3, <2>6, WaterValues DEF StoreBilling, S
    <3> QED
      BY <1>1, <2>6, <3>1 DEF StoreBilling, history
  <2>7. CASE UNCHANGED <<pulses, meter, k_ppl, history>>
    BY <1>1, <2>7 DEF meter, history
  <2>8. CASE UNCHANGED <<water, todo>>
    BY <1>1, <2>8 DEF water
  <2>9. WaterCommand \/ CheckTamper \/ SetValve \/ WritePin \/ SetTamper \/ Freeze \/ CheckBurst
          \/ Meter \/ ReadBilling => UNCHANGED <<pulses, meter, k_ppl, history>>
    BY DEF WaterCommand, CheckTamper, SetValve, WritePin, SetTamper, Freeze, CheckBurst, Meter,
       ReadBilling
  <2> QED
    BY <2>1, <2>2, <2>3, <2>4, <2>5, <2>6, <2>7, <2>8, <2>9 DEF WaterStep
<1>5. Flags'
  <2> DEFINE Others == UNCHANGED <<valve_open, tamper, frozen, pin, fed, driven, shut>>
  <2>1. CASE WaterSample
    BY <1>1, <2>1 DEF WaterSample
  <2>2. CASE WaterCommand
    BY <1>1, <2>2 DEF WaterCommand
  <2>3. CASE SetValve
    <3>1. valve_open' \in BOOLEAN
      BY <1>3, <2>3, WaterValues DEF SetValve, S
    <3> QED
      BY <1>1, <2>3, <3>1 DEF SetValve
  <2>4. CASE WritePin
    <3>1. pin' \in BOOLEAN
      BY <1>3, <2>4, WaterValues DEF WritePin, S
    <3> QED
      BY <1>1, <2>4, <3>1 DEF WritePin
  <2>5. CASE SetTamper
    BY <1>1, <2>5 DEF SetTamper
  <2>6. CASE Freeze
    <3>1. frozen' \in BOOLEAN
      BY <1>3, <2>6, WaterValues DEF Freeze, S
    <3> QED
      BY <1>1, <2>6, <3>1 DEF Freeze
  <2>7. CASE Meter
    BY <1>1, <2>7 DEF Meter
  <2>8. CASE Others
    BY <1>1, <2>8
  <2>9. Pulse \/ CheckTamper \/ SetFactor \/ CheckBurst \/ StoreLast \/ StoreFlow \/ ReadBilling
          \/ StoreBilling \/ UNCHANGED <<water, todo>> => Others
    BY DEF Pulse, CheckTamper, SetFactor, CheckBurst, StoreLast, StoreFlow, ReadBilling,
       StoreBilling, water
  <2> QED
    BY <2>1, <2>2, <2>3, <2>4, <2>5, <2>6, <2>7, <2>8, <2>9 DEF WaterStep
<1> QED
  BY <1>2, <1>4, <1>5

\* At boot every variable has its type, and no command is at work.
LEMMA TypesAtBoot ==
  /\ VibrationInit => VibrationTypeOK
  /\ EnergyInit => EnergyTypeOK
  /\ ColdInit => ColdTypeOK
  /\ CanInit => CanTypeOK
  /\ TrackerInit => TrackerTypeOK
  /\ RobotInit => RobotTypeOK
  /\ ChargerInit => ChargerTypeOK
  /\ WaterInit => WaterTypeOK /\ skipped <= seen
  /\ IrrigationInit => IrrigationTypeOK
  /\ MachineInit => MachineTypeOK
<1>1. VibrationInit => VibrationTypeOK
  BY DEF VibrationInit, VibrationTypeOK, Accelerations
<1>2. EnergyInit => EnergyTypeOK
  BY DEF EnergyInit, EnergyTypeOK
<1>3. ColdInit => ColdTypeOK
  BY DEF ColdInit, ColdTypeOK
<1>4. CanInit => CanTypeOK
  <2>1. CanInit => last_id \in 0..255 /\ bus_off \in 0..MaxBusOff /\ dtc \in 0..1
    BY CanAssumption DEF CanInit
  <2>2. CanInit => accepted \in BOOLEAN /\ signals \in {"none", "frame", "least"}
    BY DEF CanInit
  <2> QED
    BY <2>1, <2>2 DEF CanTypeOK
<1>5. TrackerInit => TrackerTypeOK
  <2>1. TrackerInit => rssi \in 0..1
    BY DEF TrackerInit
  <2>2. TrackerInit => {moving, batt_low, geo_inside} \subseteq BOOLEAN
    BY DEF TrackerInit
  <2> QED
    BY <2>1, <2>2 DEF TrackerTypeOK
<1>6. RobotInit => RobotTypeOK
  <2>1. RobotInit => hb_age \in 0..(AgeMod - 1)
    BY RobotAssumption DEF RobotInit
  <2>2. RobotInit => {heard, estop, flat} \subseteq BOOLEAN
    BY DEF RobotInit
  <2> QED
    BY <2>1, <2>2 DEF RobotTypeOK
<1>7. ChargerInit => ChargerTypeOK
  <2>1. ChargerInit => session \in 0..MaxSession
    BY ChargerAssumption DEF ChargerInit
  <2>2. ChargerInit => chg_state \in {"Idle", "Charging", "Fault"} /\ ev_fault \in BOOLEAN
    BY DEF ChargerInit
  <2> QED
    BY <2>1, <2>2 DEF ChargerTypeOK
<1>8. WaterInit => WaterTypeOK /\ skipped <= seen
  <2> SUFFICES ASSUME WaterInit PROVE WaterTypeOK /\ skipped <= seen
    OBVIOUS
  <2>1. /\ pulses \in 0..MaxPulses /\ seen \in 0..pulses /\ skipped \in 0..pulses /\ skipped <= seen
        /\ last_pulses \in 0..(CounterMod - 1) /\ billing \in Nat
    BY WaterAssumption DEF WaterInit
  <2>2. flow \in Flows /\ k_ppl \in Factors \cup {2}
    BY DEF WaterInit, Flows
  <2>3. {valve_open, tamper, frozen, pin, fed, driven, shut} \subseteq BOOLEAN
    BY DEF WaterInit
  <2> QED
    BY <2>1, <2>2, <2>3 DEF WaterTypeOK
<1>9. IrrigationInit => IrrigationTypeOK
  BY DEF IrrigationInit, IrrigationTypeOK
<1>10. MachineInit => MachineTypeOK
  <2> SUFFICES ASSUME MachineInit PROVE MachineTypeOK
    OBVIOUS
  <2>1. reading \in [Quantities -> Levels] /\ limit \in [Quantities -> 0..1] /\ old_limit = limit
    BY DEF MachineInit, Levels
  <2>2. vib \in BOOLEAN
    BY DEF MachineInit
  <2>3. st \in {"IDLE", "RUN", "WARN", "FAULT"} /\ ack_needed \in 0..1
    BY DEF MachineInit
  <2>4. {limit, old_limit} \subseteq [Quantities -> 0..1]
    BY <2>1
  <2> QED
    BY <2>1, <2>2, <2>3, <2>4 DEF MachineTypeOK
<1> QED
  BY <1>1, <1>2, <1>3, <1>4, <1>5, <1>6, <1>7, <1>8, <1>9, <1>10

-----------------------------------------------------------------------------
(* The device, whichever product it was built for *)

\* The invariant of the product; what belongs to another one is as at boot.
ProductInv ==
  /\ IF profile = "water" THEN MeterInv ELSE WaterInit
  /\ IF profile = "agriculture" THEN PumpInv ELSE IrrigationInit
  /\ IF profile = "ev" THEN ChargeInv ELSE ChargerInit
  /\ IF profile = "industrial" THEN MachineInv ELSE MachineInit

LEMMA ProductStarts == Init => ProductInv
<1> SUFFICES ASSUME Init PROVE ProductInv
  OBVIOUS
<1>1. WaterInit /\ IrrigationInit /\ ChargerInit /\ MachineInit /\ todo = <<>>
  BY DEF Init
<1>2. MeterInv
  <2>1. WaterScript
    BY <1>1 DEF WaterScript
  <2>2. ValveInv
    BY <1>1, ValveScriptsDiffer DEF WaterInit, ValveInv
  <2>3. 0 % CounterMod = 0
    BY DEF WaterAssumption
  <2>4. BillInv
    <3>1. ~Metering /\ \A n : todo # <<Stmt("meter", n)>>
      BY <1>1, ScriptsWithoutCount DEF Metering
    <3> QED
      BY <1>1, <2>3, <3>1
         DEF WaterInit, BillInv, IsHonest, Honest, BillFits, Fits, Counts, WaterAssumption
  <2> QED
    BY <2>1, <2>2, <2>4 DEF MeterInv
<1>3. PumpInv
  BY <1>1 DEF PumpInv, IrrigationInit, IrrigationTypeOK, PumpScript, Inhibited
<1>4. ChargeInv
  BY <1>1 DEF ChargeInv, ChargerInit, ChargeScript, Charged
<1>5. MachineInv
  <2>1. MachineTypeOK
    BY <1>1, TypesAtBoot
  <2>2. MachineScript
    BY <1>1 DEF MachineScript
  <2> QED
    BY <2>1, <2>2 DEF MachineInv
<1> QED
  BY <1>1, <1>2, <1>3, <1>4, <1>5 DEF ProductInv

LEMMA ProductStep == ProductInv /\ [Next]_vars => ProductInv'
<1> SUFFICES ASSUME ProductInv, [Next]_vars PROVE ProductInv'
  OBVIOUS
<1>1. profile' = profile
  BY WaterSteps
<1>2. IF profile = "water" THEN MeterInv' ELSE WaterInit'
  <2>1. CASE profile = "water"
    BY <2>1, WaterSteps, WaterStepKeeps DEF ProductInv
  <2>2. CASE profile # "water"
    BY <2>2, WaterSteps DEF ProductInv, WaterInit, water
  <2> QED
    BY <2>1, <2>2
<1>3. IF profile = "agriculture" THEN PumpInv' ELSE IrrigationInit'
  <2>1. CASE profile = "agriculture"
    BY <2>1, IrrigationSteps, PumpStep DEF ProductInv
  <2>2. CASE profile # "agriculture"
    BY <2>2, IrrigationSteps DEF ProductInv, IrrigationInit, irrigation
  <2> QED
    BY <2>1, <2>2
<1>4. IF profile = "ev" THEN ChargeInv' ELSE ChargerInit'
  <2>1. CASE profile = "ev"
    BY <2>1, ChargerSteps, ChargeStep DEF ProductInv
  <2>2. CASE profile # "ev"
    BY <2>2, ChargerSteps DEF ProductInv, ChargerInit, charger
  <2> QED
    BY <2>1, <2>2
<1>5. IF profile = "industrial" THEN MachineInv' ELSE MachineInit'
  <2>1. CASE profile = "industrial"
    BY <2>1, MachineSteps, MachineStepKeeps DEF ProductInv
  <2>2. CASE profile # "industrial"
    BY <2>2, MachineSteps DEF ProductInv, MachineInit, machine
  <2> QED
    BY <2>1, <2>2
<1> QED
  BY <1>1, <1>2, <1>3, <1>4, <1>5 DEF ProductInv

LEMMA ValveWhenIdle ==
  ProductInv => TamperSealsValve /\ OpenMeansOpen /\ BurstHolds /\ NeverOverbilled
<1> SUFFICES ASSUME ProductInv
             PROVE  TamperSealsValve /\ OpenMeansOpen /\ BurstHolds /\ NeverOverbilled
  OBVIOUS
<1>1. CASE profile = "water"
  <2>1. ValveInv /\ BillInv
    BY <1>1 DEF ProductInv, MeterInv
  <2>2. Idle => todo \notin {Asks, Opens, Lifts, Seals, Shuts, Drops}
    BY ValveScriptsDiffer DEF Idle
  <2>3. NeverOverbilled
    <3>1. /\ seen \in Nat /\ billing \in Nat /\ skipped \in Nat /\ last_pulses \in Counts
          /\ Fits(billing, skipped, seen, last_pulses)
      BY <2>1 DEF BillInv, BillFits
    <3>2. ~fed => billing + skipped <= seen
      BY <2>1 DEF BillInv, IsHonest, Honest
    <3>3. billing + skipped <= seen + (CounterMod - 1)
      <4>1. CounterMod \in Nat /\ last_pulses \in Nat /\ last_pulses <= CounterMod - 1
        BY <3>1, WaterAssumption DEF Counts
      <4> QED
        BY <3>1, <4>1 DEF Fits
    <3> QED
      BY <3>1, <3>2, <3>3 DEF NeverOverbilled
  <2> QED
    BY <2>1, <2>2, <2>3 DEF ValveInv, TamperSealsValve, OpenMeansOpen, BurstHolds
<1>2. CASE profile # "water"
  BY <1>2 DEF ProductInv, WaterInit, TamperSealsValve, OpenMeansOpen, BurstHolds, NeverOverbilled
<1> QED
  BY <1>1, <1>2

LEMMA PumpWhenIdle == ProductInv => InhibitStopsPump
<1> SUFFICES ASSUME ProductInv PROVE InhibitStopsPump
  OBVIOUS
<1>1. Idle => todo \notin {<<Stmt("switch", FALSE)>>, <<Stmt("pump", FALSE), Stmt("duty", FALSE)>>,
                           <<Stmt("duty", FALSE)>>}
  BY SameStatement DEF Idle
<1>2. CASE profile = "agriculture"
  BY <1>1, <1>2 DEF ProductInv, PumpInv, Inhibited, InhibitStopsPump
<1>3. CASE profile # "agriculture"
  BY <1>3 DEF ProductInv, IrrigationInit, InhibitStopsPump
<1> QED
  BY <1>2, <1>3

LEMMA ChargeWhenIdle == ProductInv => ChargingHasSession
<1> SUFFICES ASSUME ProductInv PROVE ChargingHasSession
  OBVIOUS
<1>1. Idle => /\ todo # <<Stmt("session?", 0)>> /\ todo # <<Stmt("chg_state", "Idle")>>
              /\ \A n \in Nat : todo # <<Stmt("session", n + 1)>>
  BY SameStatement DEF Idle
<1>2. CASE profile = "ev"
  BY <1>1, <1>2 DEF ProductInv, ChargeInv, Charged, ChargingHasSession
<1>3. CASE profile # "ev"
  BY <1>3 DEF ProductInv, ChargerInit, ChargingHasSession
<1> QED
  BY <1>2, <1>3

\* The device: what each step is for the products not looked at so far.
LEMMA OtherSteps ==
  ASSUME [Next]_vars
  PROVE  /\ profile = "predictive" =>
              VibrationSample \/ VibrationCommand \/ VibrationStep \/ UNCHANGED <<vibration, todo>>
         /\ profile # "predictive" => UNCHANGED vibration
         /\ profile = "energy" =>
              EnergySample \/ EnergyCommand \/ EnergyStep \/ UNCHANGED <<energy, todo>>
         /\ profile # "energy" => UNCHANGED energy
         /\ profile = "coldchain" =>
              ColdSample \/ ColdCommand \/ ColdStep \/ UNCHANGED <<cold, todo>>
         /\ profile # "coldchain" => UNCHANGED cold
         /\ profile = "automotive" =>
              CanSample \/ CanCommand \/ CanStep \/ UNCHANGED <<can, todo>>
         /\ profile # "automotive" => UNCHANGED can
         /\ profile = "tracker" =>
              TrackerSample \/ TrackerCommand \/ TrackerStep \/ UNCHANGED <<tracker, todo>>
         /\ profile # "tracker" => UNCHANGED tracker
         /\ profile = "robotics" =>
              RobotSample \/ RobotCommand \/ RobotStep \/ UNCHANGED <<robot, todo>>
         /\ profile # "robotics" => UNCHANGED robot
<1>1. CASE UNCHANGED vars
  BY <1>1 DEF vars
<1>2. CASE Sample
  BY <1>2 DEF Sample, SensorHook, Only
<1>3. CASE Command
  BY <1>3 DEF Command, CmdHook, Only
<1>4. CASE CommandStep
  BY <1>4 DEF CommandStep, UseCase, Only
<1>5. CASE Interrupt
  BY <1>5 DEF Interrupt, Only
<1> QED
  BY <1>1, <1>2, <1>3, <1>4, <1>5 DEF Next

Products ==
  {"industrial", "predictive", "agriculture", "energy", "coldchain", "water", "ev", "automotive",
   "tracker", "robotics"}

\* A device that was built for none of them has nothing to do.
LEMMA NoProduct == ASSUME [Next]_vars, profile \notin Products PROVE todo' = todo
<1>1. CASE UNCHANGED vars
  BY <1>1 DEF vars
<1>2. CASE Sample
  BY <1>2 DEF Sample, SensorHook, Only, Products
<1>3. CASE Command
  BY <1>3 DEF Command, CmdHook, Only, Products
<1>4. CASE CommandStep
  BY <1>4 DEF CommandStep, UseCase, Only, Products
<1>5. CASE Interrupt
  BY <1>5 DEF Interrupt, Only, Products
<1> QED
  BY <1>1, <1>2, <1>3, <1>4, <1>5 DEF Next

\* The types of the product at work, and what is left of its command.
ProductTypesInv ==
  /\ IF profile = "predictive" THEN VibrationTypes ELSE VibrationInit
  /\ IF profile = "energy" THEN EnergyTypes ELSE EnergyInit
  /\ IF profile = "coldchain" THEN ColdTypes ELSE ColdInit
  /\ IF profile = "automotive" THEN CanTypes ELSE CanInit
  /\ IF profile = "tracker" THEN TrackerTypes ELSE TrackerInit
  /\ IF profile = "robotics" THEN RobotTypes ELSE RobotInit
  /\ IF profile = "ev" THEN ChargerTypes ELSE ChargerInit
  /\ IF profile = "water" THEN WaterTypes ELSE WaterInit
  /\ profile \notin Products => todo = <<>>

LEMMA TypesStart == Init => ProductTypesInv
<1> SUFFICES ASSUME Init PROVE ProductTypesInv
  OBVIOUS
<1>1. /\ todo = <<>> /\ VibrationInit /\ EnergyInit /\ ColdInit /\ CanInit /\ TrackerInit /\ RobotInit
      /\ ChargerInit /\ WaterInit
  BY DEF Init
<1>2. ASSUME NEW S PROVE <<>> \in Seq(S) /\ Len(<<>>) \in 0..2 /\ Len(<<>>) \in 0..3
  OBVIOUS
<1>3. ASSUME NEW S PROVE todo \in Seq(S) /\ Left(S, 2) /\ Left(S, 3)
  BY <1>1, <1>2, Zenon DEF Left
<1> QED
  BY <1>1, <1>3, TypesAtBoot
  DEF ProductTypesInv, VibrationTypes, EnergyTypes, ColdTypes, CanTypes, TrackerTypes, RobotTypes,
      ChargerTypes, WaterTypes

LEMMA TypesStep == ProductInv /\ ProductTypesInv /\ [Next]_vars => ProductTypesInv'
<1> SUFFICES ASSUME ProductInv, ProductTypesInv, [Next]_vars PROVE ProductTypesInv'
  OBVIOUS
<1>1. profile' = profile
  BY WaterSteps
<1>2. IF profile = "predictive" THEN VibrationTypes' ELSE VibrationInit'
  <2>1. CASE profile = "predictive"
    BY <2>1, OtherSteps, VibrationKeeps DEF ProductTypesInv
  <2>2. CASE profile # "predictive"
    BY <2>2, OtherSteps DEF ProductTypesInv, VibrationInit, vibration
  <2> QED
    BY <2>1, <2>2
<1>3. IF profile = "energy" THEN EnergyTypes' ELSE EnergyInit'
  <2>1. CASE profile = "energy"
    BY <2>1, OtherSteps, EnergyKeeps DEF ProductTypesInv
  <2>2. CASE profile # "energy"
    BY <2>2, OtherSteps DEF ProductTypesInv, EnergyInit, energy
  <2> QED
    BY <2>1, <2>2
<1>4. IF profile = "coldchain" THEN ColdTypes' ELSE ColdInit'
  <2>1. CASE profile = "coldchain"
    BY <2>1, OtherSteps, ColdKeeps DEF ProductTypesInv
  <2>2. CASE profile # "coldchain"
    BY <2>2, OtherSteps DEF ProductTypesInv, ColdInit, cold
  <2> QED
    BY <2>1, <2>2
<1>5. IF profile = "automotive" THEN CanTypes' ELSE CanInit'
  <2>1. CASE profile = "automotive"
    BY <2>1, OtherSteps, CanKeeps DEF ProductTypesInv
  <2>2. CASE profile # "automotive"
    BY <2>2, OtherSteps DEF ProductTypesInv, CanInit, can
  <2> QED
    BY <2>1, <2>2
<1>6. IF profile = "tracker" THEN TrackerTypes' ELSE TrackerInit'
  <2>1. CASE profile = "tracker"
    BY <2>1, OtherSteps, TrackerKeeps DEF ProductTypesInv
  <2>2. CASE profile # "tracker"
    BY <2>2, OtherSteps DEF ProductTypesInv, TrackerInit, tracker
  <2> QED
    BY <2>1, <2>2
<1>7. IF profile = "robotics" THEN RobotTypes' ELSE RobotInit'
  <2>1. CASE profile = "robotics"
    BY <2>1, OtherSteps, RobotKeeps DEF ProductTypesInv
  <2>2. CASE profile # "robotics"
    BY <2>2, OtherSteps DEF ProductTypesInv, RobotInit, robot
  <2> QED
    BY <2>1, <2>2
<1>8. IF profile = "ev" THEN ChargerTypes' ELSE ChargerInit'
  <2>1. CASE profile = "ev"
    BY <2>1, ChargerSteps, ChargerKeeps DEF ProductTypesInv
  <2>2. CASE profile # "ev"
    BY <2>2, ChargerSteps DEF ProductTypesInv, ChargerInit, charger
  <2> QED
    BY <2>1, <2>2
<1>9. IF profile = "water" THEN WaterTypes' ELSE WaterInit'
  <2>1. CASE profile = "water"
    BY <2>1, WaterSteps, WaterKeeps DEF ProductTypesInv, ProductInv, MeterInv
  <2>2. CASE profile # "water"
    BY <2>2, WaterSteps DEF ProductTypesInv, WaterInit, water
  <2> QED
    BY <2>1, <2>2
<1>10. profile \notin Products => todo' = <<>>
  BY NoProduct DEF ProductTypesInv
<1> QED
  BY <1>1, <1>2, <1>3, <1>4, <1>5, <1>6, <1>7, <1>8, <1>9, <1>10 DEF ProductTypesInv

LEMMA TypesAreOK == ProductInv /\ ProductTypesInv => TypeOK
<1> SUFFICES ASSUME ProductInv, ProductTypesInv PROVE TypeOK
  OBVIOUS
<1>1. MachineTypeOK /\ IrrigationTypeOK
  BY TypesAtBoot DEF ProductInv, MachineInv, PumpInv
<1>2. VibrationTypeOK /\ EnergyTypeOK /\ ColdTypeOK /\ CanTypeOK
  BY TypesAtBoot DEF ProductTypesInv, VibrationTypes, EnergyTypes, ColdTypes, CanTypes
<1>3. TrackerTypeOK /\ RobotTypeOK /\ ChargerTypeOK /\ WaterTypeOK
  BY TypesAtBoot DEF ProductTypesInv, TrackerTypes, RobotTypes, ChargerTypes, WaterTypes
<1>4. Len(todo) <= 5
  <2> DEFINE n == Len(todo)
  <2>1. n \in 0..4 => n <= 5
    <3> HIDE DEF n
    <3> QED OBVIOUS
  <2>2. ASSUME NEW S, Left(S, 2) \/ Left(S, 3) PROVE Len(todo) \in 0..4
    BY <2>2 DEF Left
  <2>3. CASE profile \in {"predictive", "energy", "automotive", "tracker", "robotics", "ev"}
    BY <2>1, <2>2, <2>3
    DEF ProductTypesInv, VibrationTypes, EnergyTypes, CanTypes, TrackerTypes, RobotTypes, ChargerTypes
  <2>4. CASE profile = "coldchain"
    <3>1. LooksForExcursion => Len(todo) \in 0..4
      BY DEF LooksForExcursion
    <3> QED
      BY <2>1, <2>2, <2>4, <3>1 DEF ProductTypesInv, ColdTypes
  <2>5. CASE profile \in {"industrial", "agriculture", "water"}
    BY <2>1, <2>5, ScriptLengths DEF ProductInv, MachineInv, PumpInv, MeterInv
  <2>6. CASE profile \notin Products
    <3>1. todo = <<>>
      BY <2>6 DEF ProductTypesInv
    <3> QED
      BY <3>1
  <2> QED
    BY <2>3, <2>4, <2>5, <2>6 DEF Products
<1> QED
  BY <1>1, <1>2, <1>3, <1>4 DEF TypeOK

-----------------------------------------------------------------------------
\* The invariant of the product holds in every state, whichever product it is
\* (iot_uc_water.c, iot_uc_field.c and iot_uc_ev_auto.c, on the tasks of iot_app.c).
THEOREM ProductInvariant == Spec => []ProductInv
  BY ProductStarts, ProductStep, PTL DEF Spec

\* A latched tamper keeps the valve shut, in the register and at the pin, between
\* commands (iot_uc_water_tamper, iot_uc_water_valve_open, iot_uc_water_burst).
THEOREM TamperSeals == Spec => []TamperSealsValve
  BY ProductInvariant, ValveWhenIdle, PTL

\* The register of the valve never says open of a pin that was written shut
\* (apply_valve on the command task, and on the sensor task in between).
THEOREM RegisterIsTrue == Spec => []OpenMeansOpen
  BY ProductInvariant, ValveWhenIdle, PTL

\* After a burst was sampled the pin is shut until a command to open comes
\* (iot_uc_water_burst, apply_valve).
THEOREM BurstStaysShut == Spec => []BurstHolds
  BY ProductInvariant, ValveWhenIdle, PTL

\* No pulse is billed twice, nor one sampled while the register was frozen, at any
\* width of the counter, until a command gives the meter a count; and that costs at
\* most one round of the counter (iot_uc_water_meter, iot_exti_count).
THEOREM BillIsFair == Spec => []NeverOverbilled
  BY ProductInvariant, ValveWhenIdle, PTL

\* Between commands an inhibited pump stands still (iot_uc_agri_inhibit, pump_hw,
\* iot_uc_agri_pump_auto).
THEOREM InhibitionHolds == Spec => []InhibitStopsPump
  BY ProductInvariant, PumpWhenIdle, PTL

\* Between commands a charge that is shown has a session (iot_uc_ev_start,
\* iot_uc_ev_stop, iot_uc_ev_session).
THEOREM ChargeIsAccounted == Spec => []ChargingHasSession
  BY ProductInvariant, ChargeWhenIdle, PTL

\* A sample between two of the limits that set_limits stores raises no fault that
\* neither the limits before it nor those after it call for (iot_uc_ind_set_limits,
\* iot_uc_ind_on_sample).
THEOREM NoFaultIsSpurious == Spec => NoSpuriousFault
<1>1. ProductInv /\ [Next]_vars =>
        [MachineSample /\ st # "FAULT" /\ st' = "FAULT" =>
           \E q \in Quantities : reading'[q] > old_limit[q] \/ reading'[q] > LimitToBe(q)]_machine
  BY MachineSteps, FaultNotSpurious DEF ProductInv
<1> QED
  BY <1>1, ProductInvariant, PTL DEF Spec, NoSpuriousFault

\* Whatever product the device is, every variable of its use cases stays in range and no
\* command is longer than its statements (iot_usecases, a sample between any two of them).
THEOREM ProductTypes == Spec => []TypeOK
<1>1. Spec => []ProductTypesInv
  BY TypesStart, TypesStep, ProductInvariant, PTL DEF Spec
<1> QED
  BY <1>1, ProductInvariant, TypesAreOK, PTL
=============================================================================
