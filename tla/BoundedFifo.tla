---------------------------- MODULE BoundedFifo ----------------------------
(***************************************************************************)
(* What iot_queue_send and iot_queue_recv promise to the tasks that call   *)
(* them (components/iot_rtos/include/iot_rtos.h), whatever the port: a     *)
(* first-in first-out buffer of Capacity items shared by sending and       *)
(* receiving tasks.  A call is open from the moment it is made, takes      *)
(* effect in one atomic step, and then returns.  A send may be refused     *)
(* (IOT_ERR_QUEUE_FULL) and a receive may give up (IOT_ERR_TIMEOUT), but   *)
(* only when the calls of other tasks that are still in progress account   *)
(* for every slot, respectively every item, the caller did not get.        *)
(***************************************************************************)
EXTENDS Naturals, Sequences, FiniteSets

CONSTANTS
  Capacity,   \* number of slots of the queue
  Items,      \* what can be sent
  Senders,    \* tasks and interrupt handlers that send
  Receivers,  \* tasks that receive
  NoItem      \* the content of an empty hand

VARIABLES
  fifo,   \* the items in the queue, oldest first
  call,   \* what each task's call has come to
  hand    \* the item a sender passed, or the one a receiver was given

vars == <<fifo, call, hand>>

Tasks == Senders \cup Receivers

Init ==
  /\ fifo = <<>>
  /\ call = [p \in Tasks |-> "idle"]
  /\ hand = [p \in Tasks |-> NoItem]

(***************************************************************************)
(* The calls of other tasks that may hold a slot or an item back: a sender *)
(* that has claimed a slot it has not filled, a receiver that has not      *)
(* given its slot back, a receiver that has claimed an item, a sender that *)
(* has not announced its item.                                             *)
(***************************************************************************)
Others(S, p, c) == {o \in S \ {p} : call[o] = c}

SlotsHeldBack(p) ==
  Cardinality(Others(Senders, p, "open")) + Cardinality(Others(Receivers, p, "done"))

ItemsHeldBack(p) ==
  Cardinality(Others(Receivers, p, "open")) + Cardinality(Others(Senders, p, "done"))

Send(p, m) ==
  /\ call[p] = "idle"
  /\ call' = [call EXCEPT ![p] = "open"]
  /\ hand' = [hand EXCEPT ![p] = m]
  /\ UNCHANGED fifo

Enqueue(p) ==
  /\ call[p] = "open"
  /\ Len(fifo) < Capacity
  /\ fifo' = Append(fifo, hand[p])
  /\ call' = [call EXCEPT ![p] = "done"]
  /\ UNCHANGED hand

RefuseSend(p) ==
  /\ call[p] = "open"
  /\ Len(fifo) + SlotsHeldBack(p) >= Capacity
  /\ call' = [call EXCEPT ![p] = "refused"]
  /\ UNCHANGED <<fifo, hand>>

Recv(p) ==
  /\ call[p] = "idle"
  /\ call' = [call EXCEPT ![p] = "open"]
  /\ UNCHANGED <<fifo, hand>>

Dequeue(p) ==
  /\ call[p] = "open"
  /\ fifo # <<>>
  /\ hand' = [hand EXCEPT ![p] = Head(fifo)]
  /\ fifo' = Tail(fifo)
  /\ call' = [call EXCEPT ![p] = "done"]

RefuseRecv(p) ==
  /\ call[p] = "open"
  /\ Len(fifo) <= ItemsHeldBack(p)
  /\ call' = [call EXCEPT ![p] = "refused"]
  /\ UNCHANGED <<fifo, hand>>

Return(p) ==
  /\ call[p] \in {"done", "refused"}
  /\ call' = [call EXCEPT ![p] = "idle"]
  /\ hand' = [hand EXCEPT ![p] = NoItem]
  /\ UNCHANGED fifo

Next ==
  \/ \E p \in Senders :
       \/ \E m \in Items : Send(p, m)
       \/ Enqueue(p)
       \/ RefuseSend(p)
  \/ \E p \in Receivers : Recv(p) \/ Dequeue(p) \/ RefuseRecv(p)
  \/ \E p \in Tasks : Return(p)

Spec == Init /\ [][Next]_vars
=============================================================================
