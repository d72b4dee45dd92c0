----------------------------- MODULE HostQueue -----------------------------
(***************************************************************************)
(* The queue of the Win32 host port (components/iot_rtos/src/iot_rtos.c,   *)
(* iot_host_queue_t): a ring buffer guarded by a mutex, with one counting  *)
(* semaphore for its free slots and one for its items.  Every statement    *)
(* that another thread can observe is a step of its own.                   *)
(*                                                                         *)
(* The step a thread is at (at[p]) is the statement it executes next:      *)
(*   wait    WaitForSingleObject(space or items, timeout_ms)               *)
(*   lock    WaitForSingleObject(mtx, INFINITE)                            *)
(*   copy    memcpy to or from the slot                                    *)
(*   advance head or tail, and count                                       *)
(*   unlock  ReleaseMutex                                                  *)
(*   post    ReleaseSemaphore(items or space)                              *)
(*   ok      return IOT_OK                                                 *)
(*   fail    return IOT_ERR_QUEUE_FULL or IOT_ERR_TIMEOUT                  *)
(***************************************************************************)
EXTENDS Naturals, Sequences, FiniteSets

CONSTANTS
  Length,     \* q->length
  Items,      \* what can be sent
  Senders, Receivers,
  NoItem, Nobody

ASSUME HostQueueAssumption ==
  /\ Length \in Nat \ {0}
  /\ IsFiniteSet(Senders) /\ IsFiniteSet(Receivers)
  /\ Senders \cap Receivers = {}
  /\ NoItem \notin Items
  /\ Nobody \notin Senders \cup Receivers

VARIABLES
  buf, head, tail, count,   \* the ring of iot_host_queue_t
  space, items,             \* counts of its two semaphores
  mtx,                      \* the thread that holds its mutex
  at,                       \* per thread, the statement it executes next
  hand                      \* per thread, the item it sends or has copied out

ring == <<buf, head, tail, count>>
vars == <<buf, head, tail, count, space, items, mtx, at, hand>>

Threads == Senders \cup Receivers
Slots == 0 .. Length - 1
Steps == {"idle", "wait", "lock", "copy", "advance", "unlock", "post", "ok", "fail"}

\* iot_queue_create: all slots free, no items.
Init ==
  /\ buf = [i \in Slots |-> NoItem]
  /\ head = 0 /\ tail = 0 /\ count = 0
  /\ space = Length /\ items = 0
  /\ mtx = Nobody
  /\ at = [p \in Threads |-> "idle"]
  /\ hand = [p \in Threads |-> NoItem]

Goto(p, s) == at' = [at EXCEPT ![p] = s]

\* ReleaseSemaphore(s, 1, NULL) fails, unchecked, at the semaphore's maximum.
Posted(s) == IF s < Length THEN s + 1 ELSE s

CallSend(p, m) ==
  /\ at[p] = "idle"
  /\ Goto(p, "wait")
  /\ hand' = [hand EXCEPT ![p] = m]
  /\ UNCHANGED <<ring, space, items, mtx>>

CallRecv(p) ==
  /\ at[p] = "idle"
  /\ Goto(p, "wait")
  /\ UNCHANGED <<ring, space, items, mtx, hand>>

TakeSpace(p) ==
  /\ at[p] = "wait"
  /\ space > 0
  /\ space' = space - 1
  /\ Goto(p, "lock")
  /\ UNCHANGED <<ring, items, mtx, hand>>

TakeItem(p) ==
  /\ at[p] = "wait"
  /\ items > 0
  /\ items' = items - 1
  /\ Goto(p, "lock")
  /\ UNCHANGED <<ring, space, mtx, hand>>

GiveUpEarly(p, sem) ==   \* mutant: may time out although it could go on
  /\ at[p] = "wait"
  /\ Goto(p, "fail")
  /\ UNCHANGED <<ring, space, items, mtx, hand>>

\* The wait ends with timeout_ms elapsed, at once when it is 0 (an ISR).
GiveUp(p, sem) ==
  /\ at[p] = "wait"
  /\ sem = 0
  /\ Goto(p, "fail")
  /\ UNCHANGED <<ring, space, items, mtx, hand>>

SendTimeout(p) == GiveUp(p, space)
RecvTimeout(p) == GiveUp(p, items)

LockTaken(p) ==   \* mutant: the wait for the mutex is not checked
  /\ at[p] = "lock"
  /\ mtx' = p
  /\ Goto(p, "copy")
  /\ UNCHANGED <<ring, space, items, hand>>

Lock(p) ==
  /\ at[p] = "lock"
  /\ mtx = Nobody
  /\ mtx' = p
  /\ Goto(p, "copy")
  /\ UNCHANGED <<ring, space, items, hand>>

CopyIn(p) ==
  /\ at[p] = "copy"
  /\ buf' = [buf EXCEPT ![head] = hand[p]]
  /\ Goto(p, "advance")
  /\ UNCHANGED <<head, tail, count, space, items, mtx, hand>>

CopyOut(p) ==
  /\ at[p] = "copy"
  /\ hand' = [hand EXCEPT ![p] = buf[tail]]
  /\ Goto(p, "advance")
  /\ UNCHANGED <<ring, space, items, mtx>>

AdvanceHead(p) ==
  /\ at[p] = "advance"
  /\ head' = (head + 1) % Length
  /\ count' = count + 1
  /\ Goto(p, "unlock")
  /\ UNCHANGED <<buf, tail, space, items, mtx, hand>>

AdvanceTail(p) ==
  /\ at[p] = "advance"
  /\ tail' = (tail + 1) % Length
  /\ count' = count - 1
  /\ Goto(p, "unlock")
  /\ UNCHANGED <<buf, head, space, items, mtx, hand>>

UnlockUnlessEmpty(p) ==   \* mutant: returns early, with the mutex, from a drained ring
  /\ at[p] = "unlock"
  /\ mtx' = IF count = 0 THEN mtx ELSE Nobody
  /\ Goto(p, "post")
  /\ UNCHANGED <<ring, space, items, hand>>

Unlock(p) ==
  /\ at[p] = "unlock"
  /\ mtx' = Nobody
  /\ Goto(p, "post")
  /\ UNCHANGED <<ring, space, items, hand>>

PostItem(p) ==
  /\ at[p] = "post"
  /\ items' = Posted(items)
  /\ Goto(p, "ok")
  /\ UNCHANGED <<ring, space, mtx, hand>>

PostNoSpace(p) ==   \* mutant: the slot is not given back
  /\ at[p] = "post"
  /\ Goto(p, "ok")
  /\ UNCHANGED <<ring, space, items, mtx, hand>>

PostSpace(p) ==
  /\ at[p] = "post"
  /\ space' = Posted(space)
  /\ Goto(p, "ok")
  /\ UNCHANGED <<ring, items, mtx, hand>>

Return(p) ==
  /\ at[p] \in {"ok", "fail"}
  /\ Goto(p, "idle")
  /\ hand' = [hand EXCEPT ![p] = NoItem]
  /\ UNCHANGED <<ring, space, items, mtx>>

SenderStep(p) ==
  \/ TakeSpace(p) \/ SendTimeout(p) \/ Lock(p) \/ CopyIn(p)
  \/ AdvanceHead(p) \/ Unlock(p) \/ PostItem(p) \/ Return(p)

ReceiverStep(p) ==
  \/ TakeItem(p) \/ RecvTimeout(p) \/ Lock(p) \/ CopyOut(p)
  \/ AdvanceTail(p) \/ Unlock(p) \/ PostSpace(p) \/ Return(p)

Next ==
  \/ \E p \in Senders : SenderStep(p) \/ \E m \in Items : CallSend(p, m)
  \/ \E p \in Receivers : ReceiverStep(p) \/ CallRecv(p)

Spec == Init /\ [][Next]_vars

(***************************************************************************)
(* The scheduler runs every thread that can run, the kernel hands a mutex  *)
(* and a semaphore to its waiters in the order they came (hence strong     *)
(* fairness of the waits that have no timeout), and a receiving task       *)
(* (proc_task, cmd_task, mqtt_pump) calls iot_queue_recv in an endless     *)
(* loop.  No sender is obliged to send.                                    *)
(***************************************************************************)
Fairness ==
  /\ \A p \in Senders : WF_vars(SenderStep(p))
  /\ \A p \in Receivers : WF_vars(ReceiverStep(p) \/ CallRecv(p))
  /\ \A p \in Threads : SF_vars(Lock(p))

FairSpec == Spec /\ Fairness
-----------------------------------------------------------------------------
TypeOK ==
  /\ buf \in [Slots -> Items \cup {NoItem}]
  /\ head \in Slots /\ tail \in Slots
  /\ count \in 0 .. Length
  /\ space \in 0 .. Length /\ items \in 0 .. Length
  /\ mtx \in Threads \cup {Nobody}
  /\ at \in [Threads -> Steps]
  /\ hand \in [Threads -> Items \cup {NoItem}]

\* The threads of S that are at a step of A.
Who(S, A) == {p \in S : at[p] \in A}

\* The threads of S that have taken their semaphore and not yet moved the
\* ring, and those that have moved it and not yet posted the other one.
Claiming(S) == Who(S, {"lock", "copy", "advance"})
Settling(S) == Who(S, {"unlock", "post"})

\* Every slot is in the semaphore, in the ring, or with one call in progress.
SlotsConserved ==
  space + count + Cardinality(Claiming(Senders)) + Cardinality(Settling(Receivers)) = Length

\* What the items semaphore counts is what the ring holds, less what receivers
\* have claimed and senders have not announced.
ItemsConserved ==
  items + Cardinality(Claiming(Receivers)) + Cardinality(Settling(Senders)) = count

\* A slot is claimed by one wait and settled by another thread's post, several
\* statements later: no schedule of sends, receives and timeouts loses a slot
\* or an item, or makes one twice, and ReleaseSemaphore never meets its maximum.
ClaimsConserved == SlotsConserved /\ ItemsConserved

\* Between lock and unlock a thread is alone, head stays count slots past
\* tail, what a sender copied in is still in its slot when head moves past
\* it, and what a receiver copied out is the oldest item when tail moves.
\* A receiver holds nothing before it has copied.
RingIntact ==
  /\ \A p \in Threads : at[p] \in {"copy", "advance", "unlock"} <=> mtx = p
  /\ head = (tail + count) % Length
  /\ \A p \in Senders : at[p] = "advance" => buf[head] = hand[p]
  /\ \A p \in Receivers :
       /\ at[p] = "advance" => hand[p] = buf[tail]
       /\ at[p] \in {"idle", "wait", "lock", "copy", "fail"} => hand[p] = NoItem

\* The inductive invariant of the queue.
QueueInv == TypeOK /\ SlotsConserved /\ ItemsConserved /\ RingIntact

\* The queue the calls see: count items from tail on.
Contents == [i \in 1 .. count |-> buf[(tail + i - 1) % Length]]

\* What a call has come to, for the caller, when its thread is at step s.
Outcome(s) ==
  CASE s = "idle" -> "idle"
    [] s = "fail" -> "refused"
    [] s \in {"wait", "lock", "copy", "advance"} -> "open"
    [] s \in {"unlock", "post", "ok"} -> "done"

Calls == [p \in Threads |-> Outcome(at[p])]

\* A receiver owns what it has copied out once tail has moved.
Hands == [p \in Threads |-> IF p \in Receivers /\ at[p] = "advance" THEN NoItem ELSE hand[p]]

Fifo == INSTANCE BoundedFifo WITH
  Capacity <- Length, fifo <- Contents, call <- Calls, hand <- Hands

\* The ring, its mutex and its semaphores implement the bounded FIFO the
\* tasks rely on: items come out in the order in which they went in, none is
\* lost or delivered twice, and a call is refused only when the calls in
\* progress account for what it lacked.
ImplementsFifo == Fifo!Spec

\* Every item in the ring is taken out, so no wake-up is lost between the two
\* semaphores; and a sender that got its slot gets through, although it waits
\* for the mutex with INFINITE while it holds a claim.
ItemsGetOut == count > 0 ~> \E p \in Receivers : at[p] = "unlock"
SendersGetThrough == \A p \in Senders : at[p] = "lock" ~> at[p] = "ok"
CallsProgress == ItemsGetOut /\ SendersGetThrough
=============================================================================
