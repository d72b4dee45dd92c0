------------------------ MODULE SharedObjectsProofs ------------------------
(***************************************************************************)
(* Proofs about SharedObjects: a driver's mutex does what BusLock says,    *)
(* for any number of tasks; the event group of the Win32 host port         *)
(* implements EventFlags, for any number of tasks, flags and looks; and    *)
(* the specification that TLC runs uses the queue, the event group and the *)
(* bus as HostQueue, HostEvent and BusLock specify them, so that what is   *)
(* proved of those holds of it.                                            *)
(***************************************************************************)
EXTENDS SharedObjects, HostQueueProofs, TLAPS

-----------------------------------------------------------------------------
(* The bus *)

\* What makes BusOwned and BusReleased inductive: the mutex is held on the
\* bus only, the line is driven between drive and release only, and bytes are
\* left behind only when a wait ran out.
BusInv ==
  /\ BusTypeOK /\ BusOwned
  /\ \A t \in Users : guard = t => place[t] \in OnBus
  /\ de => \E t \in Users : place[t] \in {"send", "flush", "release"}
  /\ ~ranout => \A t \in Users :
       /\ place[t] \in {"send", "flush", "release"} => de
       /\ t \in wire => place[t] = "flush"

LEMMA BusInitInv == BusInit => BusInv
  BY BusAssumption DEF BusInit, BusInv, BusTypeOK, BusOwned, Places, OnBus

LEMMA InvReleases == BusInv => BusReleased
  BY BusAssumption DEF BusInv, BusTypeOK, BusReleased, OnBus

LEMMA BusStepType == BusInv /\ [BusNext]_busVars => BusTypeOK'
<1> SUFFICES ASSUME BusTypeOK, [BusNext]_busVars PROVE BusTypeOK'
  BY DEF BusInv
<1> USE DEF BusTypeOK, Moves, Places, OnBus, Aboard
<1>1. CASE UNCHANGED busVars
  BY <1>1 DEF busVars
<1>2. CASE Reboot
  BY <1>2 DEF Reboot
<1>3. ASSUME NEW t \in Users,
             BusCall(t) \/ Acquire(t) \/ AcquireTimeout(t) \/ UseBus(t) \/ Drive(t)
      PROVE  BusTypeOK'
  BY <1>3 DEF BusCall, Acquire, AcquireTimeout, UseBus, Drive
<1>4. ASSUME NEW t \in Users,
             SendBytes(t) \/ BytesLeave(t) \/ Flush(t) \/ FlushTimeout(t) \/ Release(t)
      PROVE  BusTypeOK'
  BY <1>4 DEF SendBytes, BytesLeave, Flush, FlushTimeout, Release
<1>5. ASSUME NEW t \in Users, Unguard(t) \/ GiveBack(t)
      PROVE  BusTypeOK'
  BY <1>5 DEF Unguard, GiveBack
<1> QED
  BY <1>1, <1>2, <1>3, <1>4, <1>5 DEF BusNext, UserStep

LEMMA BusStepInv == BusInv /\ [BusNext]_busVars => BusInv'
<1> SUFFICES ASSUME BusInv, [BusNext]_busVars PROVE BusInv'
  OBVIOUS
<1>0. BusTypeOK'
  BY BusStepType
<1> USE BusAssumption DEF BusInv, BusTypeOK, BusOwned, OnBus
<1>1. CASE UNCHANGED busVars
  BY <1>1 DEF busVars
<1>2. CASE Reboot
  BY <1>0, <1>2 DEF Reboot
<1>3. ASSUME NEW t \in Users, BusCall(t) PROVE BusInv'
  BY <1>0, <1>3 DEF BusCall, Moves, Quiet
<1>4. ASSUME NEW t \in Users, Acquire(t) PROVE BusInv'
  BY <1>0, <1>4 DEF Acquire, Moves, Aboard
<1>5. ASSUME NEW t \in Users, AcquireTimeout(t) PROVE BusInv'
  BY <1>0, <1>5 DEF AcquireTimeout, Moves, Aboard
<1>6. ASSUME NEW t \in Users, UseBus(t) PROVE BusInv'
  BY <1>0, <1>6 DEF UseBus, Moves
<1>7. ASSUME NEW t \in Users, Drive(t) PROVE BusInv'
  BY <1>0, <1>7 DEF Drive, Moves
<1>8. ASSUME NEW t \in Users, SendBytes(t) PROVE BusInv'
  BY <1>0, <1>8 DEF SendBytes, Moves
<1>9. ASSUME NEW t \in Users, BytesLeave(t) PROVE BusInv'
  BY <1>0, <1>9 DEF BytesLeave
<1>10. ASSUME NEW t \in Users, Flush(t) PROVE BusInv'
  BY <1>0, <1>10 DEF Flush, Moves
<1>11. ASSUME NEW t \in Users, FlushTimeout(t) PROVE BusInv'
  BY <1>0, <1>11 DEF FlushTimeout, Moves
<1>12. ASSUME NEW t \in Users, Release(t) PROVE BusInv'
  BY <1>0, <1>12 DEF Release, Moves
<1>13. ASSUME NEW t \in Users, Unguard(t) PROVE BusInv'
  BY <1>0, <1>13 DEF Unguard, Moves
<1>14. ASSUME NEW t \in Users, GiveBack(t) PROVE BusInv'
  BY <1>0, <1>14 DEF GiveBack, Moves
<1> QED
  BY <1>1, <1>2, <1>3, <1>4, <1>5, <1>6, <1>7, <1>8, <1>9, <1>10, <1>11, <1>12, <1>13, <1>14
     DEF BusNext, UserStep

\* BusInv holds in every state of a driver's calls: it is inductive.
THEOREM BusInvariant == BusSpec => []BusInv
  BY BusInitInv, BusStepInv, PTL DEF BusSpec

\* Until a wait runs out, a driver's bus belongs to the task that holds its
\* mutex (iot_uart_write and the calls of the other drivers).
THEOREM BusStaysOwned == BusSpec => []BusOwned
<1>1. BusInv => BusOwned
  BY DEF BusInv
<1> QED
  BY <1>1, BusInvariant, PTL

\* However calls overlap, the last one leaves the mutex free and the RS485
\* transceiver listening.
THEOREM BusAlwaysReleased == BusSpec => []BusReleased
  BY InvReleases, BusInvariant, PTL

-----------------------------------------------------------------------------
(* The event group: EventInv is inductive.                                 *)

LEMMA RequestShape ==
  /\ \A r \in EventRequest : r.op \in {"set", "clear", "wait"} /\ r.mask \subseteq Flags
  /\ \A r \in EventRequest : r.op = "wait" => r \in WaitRequest /\ r.clear \in BOOLEAN
  /\ \A r \in EventRequest : r \in Group!Requests
<1>1. ASSUME NEW r \in ModifyRequest
      PROVE  /\ r.op \in {"set", "clear"} /\ r.mask \subseteq Flags
             /\ r \in [op : {"set", "clear"}, mask : SUBSET Flags]
  BY DEF ModifyRequest, Masks
<1>2. ASSUME NEW r \in WaitRequest
      PROVE  /\ r.op = "wait" /\ r.mask \subseteq Flags /\ r.clear \in BOOLEAN
             /\ r \in [op : {"wait"}, mask : SUBSET Flags, clear : BOOLEAN, all : BOOLEAN]
  BY DEF WaitRequest, Masks
<1> QED
  BY <1>1, <1>2 DEF EventRequest, Group!Requests

LEMMA EventInitInv == EventInit => EventInv
  BY HostEventAssumption DEF EventInit, EventInv, EventTypeOK, WordGuarded

LEMMA EventStepType ==
  ASSUME EventInv, NEW c \in Callers,
         \/ \E r \in WaitRequest : \E n \in 1 .. MaxPolls : Enter(c, r, n)
         \/ \E r \in ModifyRequest : Enter(c, r, 1)
         \/ TakeMutex(c) \/ Load(c) \/ Store(c) \/ DropMutex(c) \/ Leave(c)
  PROVE  EventTypeOK'
<1> USE DEF EventInv, EventTypeOK, At, To
<1>1. ASSUME NEW r \in EventRequest, NEW n \in 1 .. MaxPolls, Enter(c, r, n)
      PROVE  EventTypeOK'
  BY <1>1, HostEventAssumption DEF Enter
<1>2. CASE TakeMutex(c)
  BY <1>2 DEF TakeMutex
<1>3. CASE Load(c)
  BY <1>3, HostEventAssumption DEF Load, WordGuarded
<1>4. CASE Store(c)
  BY <1>4, RequestShape, HostEventAssumption DEF Store, WordGuarded
<1>5. CASE DropMutex(c)
  BY <1>5 DEF DropMutex
<1>6. CASE Leave(c)
  BY <1>6 DEF Leave
<1> QED
  BY <1>1, <1>2, <1>3, <1>4, <1>5, <1>6, HostEventAssumption DEF EventRequest

LEMMA EventStepGuarded ==
  ASSUME EventInv, EventTypeOK', NEW c \in Callers,
         \/ \E r \in WaitRequest : \E n \in 1 .. MaxPolls : Enter(c, r, n)
         \/ \E r \in ModifyRequest : Enter(c, r, 1)
         \/ TakeMutex(c) \/ Load(c) \/ Store(c) \/ DropMutex(c) \/ Leave(c)
  PROVE  WordGuarded'
<1> SUFFICES ASSUME NEW d \in Callers
             PROVE  /\ (step[d] \in {"load", "store", "drop"} <=> owner = d)'
                    /\ (step[d] = "away" <=> req[d] = NoRequest)'
                    /\ (step[d] = "away" => got[d] = {})'
                    /\ (step[d] \in {"take", "load"} => polls[d] > 0)'
                    /\ (step[d] \in {"away", "store", "leave"} => polls[d] = 0)'
                    /\ (step[d] = "store" => cur[d] = flags)'
                    /\ (got[d] # {} => polls[d] = 0 /\ req[d].op = "wait")'
                    /\ (step[d] = "store" /\ req[d].op = "wait" =>
                          got[d] = flags /\ req[d].clear /\ Ok(flags, req[d]))'
  BY DEF WordGuarded
<1> USE DEF EventInv, EventTypeOK, WordGuarded, At, To
<1>1. ASSUME NEW r \in EventRequest, NEW n \in 1 .. MaxPolls, Enter(c, r, n)
      PROVE  WordGuarded'
  BY <1>1, HostEventAssumption DEF Enter
<1>2. CASE TakeMutex(c)
  BY <1>2, HostEventAssumption DEF TakeMutex
<1>3. CASE Load(c)
  BY <1>3, HostEventAssumption, RequestShape DEF Load
<1>4. CASE Store(c)
  BY <1>4, HostEventAssumption DEF Store
<1>5. CASE DropMutex(c)
  BY <1>5, HostEventAssumption DEF DropMutex
<1>6. CASE Leave(c)
  BY <1>6, HostEventAssumption DEF Leave
<1> QED
  BY <1>1, <1>2, <1>3, <1>4, <1>5, <1>6, HostEventAssumption DEF EventRequest

LEMMA EventStepInv == EventInv /\ [EventNext]_eventVars => EventInv'
<1> SUFFICES ASSUME EventInv, [EventNext]_eventVars PROVE EventInv'
  OBVIOUS
<1>1. CASE UNCHANGED eventVars
  BY <1>1 DEF EventInv, EventTypeOK, WordGuarded, eventVars
<1>2. CASE EventNext
  BY <1>2, EventStepType, EventStepGuarded DEF EventNext, EventInv
<1> QED
  BY <1>1, <1>2

-----------------------------------------------------------------------------
(* The refinement.                                                         *)

LEMMA OkIsMet ==
  ASSUME NEW w \in SUBSET Flags, NEW r \in WaitRequest
  PROVE  Ok(w, r) <=> Group!Met(w, r)
<1>1. r.mask \subseteq Flags
  BY DEF WaitRequest, Masks
<1>2. w \cap r.mask = r.mask <=> r.mask \subseteq w
  BY <1>1
<1>3. w \cap r.mask = r.mask \cap w
  OBVIOUS
<1> QED
  BY <1>2, <1>3 DEF Ok, Group!Met

\* What the step of one task does to the calls as their callers see them.
LEMMA StepSeen ==
  ASSUME EventTypeOK, EventTypeOK', NEW c \in Callers,
         \A d \in Callers \ {c} :
           step'[d] = step[d] /\ req'[d] = req[d] /\ polls'[d] = polls[d] /\ got'[d] = got[d]
  PROVE  /\ Pending' = [Pending EXCEPT ![c] = Pending'[c]]
         /\ Answers' = [Answers EXCEPT ![c] = Answers'[c]]
  BY ZenonT(40) DEF Pending, Answers, TookEffect, EventTypeOK

LEMMA EventInitRefines == EventInit => Group!Init
  BY DEF EventInit, Group!Init, Pending, Answers, TookEffect

LEMMA EventStepRefines ==
  ASSUME EventInv, EventInv', NEW c \in Callers,
         \/ \E r \in WaitRequest : \E n \in 1 .. MaxPolls : Enter(c, r, n)
         \/ \E r \in ModifyRequest : Enter(c, r, 1)
         \/ TakeMutex(c) \/ Load(c) \/ Store(c) \/ DropMutex(c) \/ Leave(c)
  PROVE  [Group!Next]_(Group!vars)
<1> USE HostEventAssumption
<1> DEFINE P == Pending[c]  A == Answers[c]
<1>0. /\ EventTypeOK /\ EventTypeOK' /\ WordGuarded /\ WordGuarded'
      /\ P = IF TookEffect(c) THEN NoRequest ELSE req[c]
      /\ A = IF TookEffect(c) THEN got[c] ELSE {}
      /\ P' = IF TookEffect(c)' THEN NoRequest ELSE req'[c]
      /\ A' = IF TookEffect(c)' THEN got'[c] ELSE {}
  BY DEF EventInv, Pending, Answers
<1>1. /\ Pending' = [Pending EXCEPT ![c] = P']
      /\ Answers' = [Answers EXCEPT ![c] = A']
      /\ \A x : P' = x => Pending' = [Pending EXCEPT ![c] = x]
      /\ P' = P => Pending' = Pending
      /\ A' = A => Answers' = Answers
  <2>1. \A d \in Callers \ {c} :
          step'[d] = step[d] /\ req'[d] = req[d] /\ polls'[d] = polls[d] /\ got'[d] = got[d]
    BY <1>0 DEF EventTypeOK, Enter, TakeMutex, Load, Store, DropMutex, Leave, To
  <2>2. /\ Pending' = [Pending EXCEPT ![c] = P']
        /\ Answers' = [Answers EXCEPT ![c] = A']
    BY <2>1, <1>0, StepSeen
  <2>3. /\ [Pending EXCEPT ![c] = Pending[c]] = Pending
        /\ [Answers EXCEPT ![c] = Answers[c]] = Answers
    BY DEF Pending, Answers
  <2> QED
    BY <2>2, <2>3
<1>2. ASSUME P' = P, A' = A, flags' = flags
      PROVE  UNCHANGED Group!vars
  BY <1>1, <1>2 DEF Group!vars
<1>3. ASSUME NEW r \in EventRequest, NEW n \in 1 .. MaxPolls, Enter(c, r, n)
      PROVE  Group!Next
  <2>1. P = NoRequest /\ A = {} /\ P' = r /\ A' = {} /\ flags' = flags
    BY <1>0, <1>3 DEF Enter, At, To, TookEffect, WordGuarded, EventTypeOK
  <2>2. Group!Ask(c, r)
    BY <1>1, <2>1 DEF Group!Ask
  <2> QED
    BY <2>2, RequestShape DEF Group!Next
<1>4. CASE TakeMutex(c)
  BY <1>0, <1>2, <1>4 DEF TakeMutex, At, To, TookEffect, EventTypeOK
<1>5. CASE Load(c)
  <2>1. step[c] = "load" /\ P = req[c] /\ A = {} /\ flags' = flags
    BY <1>0, <1>5 DEF Load, At, TookEffect
  <2>2. req[c] \in EventRequest
    BY <2>1, <1>0 DEF WordGuarded, EventTypeOK
  <2>3. CASE req[c].op # "wait"
    BY <1>0, <1>2, <1>5, <2>1, <2>3 DEF Load, To, TookEffect, EventTypeOK, WordGuarded
  <2>4. CASE req[c].op = "wait"
    <3>1. req[c] \in WaitRequest /\ (Ok(flags, req[c]) <=> Group!Met(flags, P))
      BY <2>1, <2>2, <2>4, <1>0, OkIsMet, RequestShape DEF EventTypeOK
    <3>2. Group!InCall(c, "wait")
      BY <2>1, <2>2, <2>4 DEF Group!InCall
    <3>3. got[c] = {}
      BY <1>0, <2>1 DEF WordGuarded
    <3>4. CASE ~Ok(flags, req[c]) /\ polls[c] # 1
      <4>1. step'[c] = "drop" /\ polls'[c] > 0 /\ req'[c] = req[c]
        BY <1>0, <1>5, <2>4, <3>4, <2>1 DEF Load, To, EventTypeOK, WordGuarded
      <4> QED
        BY <4>1, <1>0, <1>2, <2>1 DEF TookEffect
    <3>5. CASE ~Ok(flags, req[c]) /\ polls[c] = 1
      <4>1. step'[c] = "drop" /\ polls'[c] = 0 /\ got'[c] = {}
        BY <1>0, <1>5, <2>4, <3>5, <3>3 DEF Load, To, EventTypeOK
      <4>2. P' = NoRequest /\ A' = {}
        BY <4>1, <1>0 DEF TookEffect
      <4>3. Group!GiveUpWait(c)
        <5>1. Group!Done(c, flags, {})
          BY <4>2, <1>1, <2>1 DEF Group!Done
        <5> QED
          BY <5>1, <2>1, <3>1, <3>2, <3>5 DEF Group!GiveUpWait
      <4> QED
        BY <4>3 DEF Group!Next
    <3>6. CASE Ok(flags, req[c]) /\ ~req[c].clear
      <4>1. step'[c] = "drop" /\ polls'[c] = 0 /\ got'[c] = flags
        BY <1>0, <1>5, <2>4, <3>6 DEF Load, To, EventTypeOK
      <4>2. P' = NoRequest /\ A' = flags
        BY <4>1, <1>0 DEF TookEffect
      <4>3. Group!Meet(c)
        BY <4>2, <1>1, <2>1, <3>1, <3>2, <3>6 DEF Group!Meet, Group!Done
      <4> QED
        BY <4>3 DEF Group!Next
    <3>7. CASE Ok(flags, req[c]) /\ req[c].clear
      BY <1>0, <1>2, <1>5, <2>1, <2>4, <3>7 DEF Load, To, TookEffect, EventTypeOK
    <3> QED
      BY <3>4, <3>5, <3>6, <3>7
  <2> QED
    BY <2>3, <2>4
<1>6. CASE Store(c)
  <2>1. /\ step[c] = "store" /\ P = req[c] /\ A = {} /\ P' = NoRequest /\ A' = got[c]
        /\ req[c] \in EventRequest /\ cur[c] = flags
    BY <1>0, <1>6 DEF Store, At, To, TookEffect, EventTypeOK, WordGuarded
  <2>2. Group!InCall(c, req[c].op)
    BY <2>1 DEF Group!InCall
  <2>3. CASE req[c].op = "wait"
    <3>1. got[c] = flags /\ req[c].clear /\ Group!Met(flags, P)
      BY <1>0, <2>1, <2>3, OkIsMet, RequestShape DEF WordGuarded, EventTypeOK
    <3>2. flags' = flags \ req[c].mask
      BY <1>6, <2>1, <2>3 DEF Store
    <3>3. Group!Meet(c)
      BY <1>1, <2>1, <2>2, <2>3, <3>1, <3>2 DEF Group!Meet, Group!Done
    <3> QED
      BY <3>3 DEF Group!Next
  <2>4. CASE req[c].op # "wait"
    <3>1. got[c] = {} /\ req[c].op \in {"set", "clear"}
      BY <1>0, <2>1, <2>4, RequestShape DEF WordGuarded
    <3>2. CASE req[c].op = "set"
      <4>1. /\ flags' = (flags \cup P.mask) \ UNION {}
            /\ Pending' = [d \in Callers |-> IF d \in {} \cup {c} THEN NoRequest ELSE Pending[d]]
            /\ Answers' = [d \in Callers |-> IF d \in {} THEN flags \cup P.mask ELSE Answers[d]]
        <5>1. flags' = flags \cup P.mask /\ P' = NoRequest /\ A' = A
          BY <1>6, <2>1, <3>1, <3>2 DEF Store
        <5>2. Pending' = [Pending EXCEPT ![c] = NoRequest] /\ Answers' = Answers
          BY <1>1, <5>1
        <5>3. /\ Pending = [d \in Callers |-> Pending[d]]
              /\ Answers = [d \in Callers |-> Answers[d]]
          BY DEF Pending, Answers
        <5> HIDE DEF P, A
        <5> QED
          BY <5>1, <5>2, <5>3
      <4>2. {Pending[d].mask : d \in {e \in {} : Pending[e].clear}} = {}
        OBVIOUS
      <4>3. Group!SetBits(c)
        BY <2>2, <3>2, <4>1, <4>2 DEF Group!SetBits
      <4> QED
        BY <4>3 DEF Group!Next
    <3>3. CASE req[c].op = "clear"
      <4>1. Group!ClearBits(c)
        BY <1>1, <1>6, <2>1, <2>2, <3>1, <3>3 DEF Store, Group!ClearBits, Group!Done
      <4> QED
        BY <4>1 DEF Group!Next
    <3> QED
      BY <3>1, <3>2, <3>3
  <2> QED
    BY <2>3, <2>4
<1>7. CASE DropMutex(c)
  BY <1>0, <1>2, <1>7 DEF DropMutex, At, To, TookEffect, EventTypeOK
<1>8. CASE Leave(c)
  <2>1. P = NoRequest /\ P' = NoRequest /\ A' = {} /\ flags' = flags
    BY <1>0, <1>8 DEF Leave, At, To, TookEffect, EventTypeOK
  <2>2. Group!Return(c)
    BY <1>1, <2>1 DEF Group!Return
  <2> QED
    BY <2>2 DEF Group!Next
<1> QED
  BY <1>3, <1>4, <1>5, <1>6, <1>7, <1>8 DEF EventRequest

\* The polled word of the Win32 port and its mutex are an event group with
\* atomic calls (iot_rtos.c, iot_event_set, iot_event_clear, iot_event_wait):
\* no flag is lost between concurrent calls, a wait that is met clears its flags
\* at the moment they met it, and a wait ends without what it asked for only if
\* that was not there.  EventFlags leaves open where the ports differ: what such
\* a wait returns, and whether one set may meet several waits.
THEOREM HostEventIsEventGroup == EventSpec => ImplementsEvents
<1>1. EventInv /\ EventInv' /\ [EventNext]_eventVars => [Group!Next]_(Group!vars)
  <2> SUFFICES ASSUME EventInv, EventInv', [EventNext]_eventVars
               PROVE  [Group!Next]_(Group!vars)
    OBVIOUS
  <2>1. CASE UNCHANGED eventVars
    BY <2>1 DEF eventVars, Group!vars, Pending, Answers, TookEffect
  <2>2. CASE EventNext
    BY <2>2, EventStepRefines DEF EventNext
  <2> QED
    BY <2>1, <2>2
<1>2. EventInit => Group!Init
  BY EventInitRefines
<1> QED
  BY <1>1, <1>2, EventInitInv, EventStepInv, PTL
     DEF EventSpec, ImplementsEvents, Group!Spec

-----------------------------------------------------------------------------
(* The three objects *)

\* Whatever object is used, the calls are those of HostQueue, HostEvent and
\* BusLock (no function of iot_rtos.c or of a driver touches two of them).
THEOREM SharedObjectsAreTheirs == SharedSpec => Spec /\ EventSpec /\ BusSpec
<1>1. SharedInit => Init /\ EventInit /\ BusInit
  BY DEF SharedInit
<1>2. [SharedNext]_sharedVars =>
        [Next]_vars /\ [EventNext]_eventVars /\ [BusNext]_busVars
  BY DEF SharedNext, sharedVars
<1> QED
  BY <1>1, <1>2, PTL DEF SharedSpec, Spec, EventSpec, BusSpec

\* Everything proved of the three objects holds of the specification in which a task
\* uses any of them (iot_rtos.c, iot_uart.c, iot_i2c.c, iot_spi.c).
THEOREM SharedObjectsKeepTheirPromises ==
  SharedSpec =>
    /\ []ClaimsConserved /\ []RingIntact /\ ImplementsFifo
    /\ ImplementsEvents
    /\ []BusOwned /\ []BusReleased
BY SharedObjectsAreTheirs, ClaimsNeverLost, RingStaysIntact, QueueImplementsFifo,
   HostEventIsEventGroup, BusStaysOwned, BusAlwaysReleased, PTL
=============================================================================
