-------------------------- MODULE HostQueueProofs --------------------------
(***************************************************************************)
(* Proofs about HostQueue, for every length of the ring and every finite   *)
(* set of senders and receivers: QueueInv is inductive, and the ring with  *)
(* its mutex and two semaphores implements BoundedFifo.                    *)
(***************************************************************************)
EXTENDS HostQueue, Integers, SequenceTheorems, FiniteSetTheorems, TLAPS

USE HostQueueAssumption

-----------------------------------------------------------------------------
(* Indices of the ring. *)

\* The slot an offset of less than two turns falls in.
LEMMA Wrap ==
  ASSUME NEW x \in Nat, x < 2 * Length
  PROVE  /\ x % Length = IF x < Length THEN x ELSE x - Length
         /\ x % Length \in Slots
  BY SMT DEF Slots

\* Two offsets less than one turn apart fall in different slots.
LEMMA SlotsDiffer ==
  ASSUME NEW t \in Slots, NEW i \in Nat, NEW j \in Nat, i < j, j < Length
  PROVE  (t + i) % Length # (t + j) % Length
  BY Wrap, t + i < 2 * Length, t + j < 2 * Length, SMT DEF Slots

-----------------------------------------------------------------------------
(* How one thread's step changes the number of threads at given steps.     *)

\* The numbers of threads are naturals.
LEMMA CountsAreNat ==
  ASSUME NEW S, IsFiniteSet(S), NEW A
  PROVE  /\ IsFiniteSet(Who(S, A)) /\ Cardinality(Who(S, A)) \in Nat
         /\ Cardinality(Who(S, A))' \in Nat
  BY FS_Subset, FS_CardinalityType DEF Who

\* A thread of S that moves into A, or out of A, is one more or one less there.
LEMMA CountOfMove ==
  ASSUME TypeOK, NEW S, S \subseteq Threads, IsFiniteSet(S), NEW p \in S,
         NEW s \in Steps, Goto(p, s), NEW A
  PROVE  Cardinality(Who(S, A))' = Cardinality(Who(S, A))
           + (IF s \in A THEN 1 ELSE 0) - (IF at[p] \in A THEN 1 ELSE 0)
<1>0. /\ at \in [Threads -> Steps] /\ p \in Threads
      /\ at' = [at EXCEPT ![p] = s]
      /\ IsFiniteSet(Who(S, A)) /\ Cardinality(Who(S, A)) \in Nat
  BY CountsAreNat DEF TypeOK, Goto
<1>1. CASE at[p] \notin A /\ s \in A
  <2>1. Who(S, A)' = Who(S, A) \cup {p} /\ p \notin Who(S, A)
    BY <1>0, <1>1 DEF Who
  <2>2. Cardinality(Who(S, A) \cup {p}) = Cardinality(Who(S, A)) + 1
    BY <1>0, <2>1, FS_AddElement
  <2> QED BY <1>0, <1>1, <2>1, <2>2
<1>2. CASE at[p] \in A /\ s \notin A
  <2>1. Who(S, A)' = Who(S, A) \ {p} /\ p \in Who(S, A)
    BY <1>0, <1>2 DEF Who
  <2>2. Cardinality(Who(S, A) \ {p}) = Cardinality(Who(S, A)) - 1
    BY <1>0, <2>1, FS_RemoveElement
  <2> QED BY <1>0, <1>2, <2>1, <2>2
<1>3. CASE at[p] \in A /\ s \in A
  <2>1. Who(S, A)' = Who(S, A)
    BY <1>0, <1>3 DEF Who
  <2> QED BY <1>0, <1>3, <2>1
<1>4. CASE at[p] \notin A /\ s \notin A
  <2>1. Who(S, A)' = Who(S, A)
    BY <1>0, <1>4 DEF Who
  <2> QED BY <1>0, <1>4, <2>1
<1> QED
  BY <1>1, <1>2, <1>3, <1>4

\* What a thread of S that goes from at[p] to s does to the number of threads
\* of S with a claim, and to the number of threads of S that settle.
LEMMA CountsOfMove ==
  ASSUME TypeOK, NEW S, S \in {Senders, Receivers}, NEW p \in S,
         NEW s \in Steps, Goto(p, s)
  PROVE  /\ Cardinality(Claiming(S))' = Cardinality(Claiming(S))
               + (IF s \in {"lock", "copy", "advance"} THEN 1 ELSE 0)
               - (IF at[p] \in {"lock", "copy", "advance"} THEN 1 ELSE 0)
         /\ Cardinality(Settling(S))' = Cardinality(Settling(S))
               + (IF s \in {"unlock", "post"} THEN 1 ELSE 0)
               - (IF at[p] \in {"unlock", "post"} THEN 1 ELSE 0)
  BY CountOfMove DEF Threads, Claiming, Settling

\* A thread that is not of S leaves the threads of S where they are.
LEMMA CountsOfOthers ==
  ASSUME TypeOK, NEW S, S \subseteq Threads, NEW p \in Threads \ S,
         NEW s \in Steps, Goto(p, s)
  PROVE  Claiming(S)' = Claiming(S) /\ Settling(S)' = Settling(S)
  BY DEF TypeOK, Goto, Who, Claiming, Settling

\* The four numbers the conservation invariants add up, over one step of p.
LEMMA SenderCounts ==
  ASSUME TypeOK, NEW p \in Senders, NEW s \in Steps, Goto(p, s)
  PROVE  /\ Cardinality(Claiming(Senders))' = Cardinality(Claiming(Senders))
               + (IF s \in {"lock", "copy", "advance"} THEN 1 ELSE 0)
               - (IF at[p] \in {"lock", "copy", "advance"} THEN 1 ELSE 0)
         /\ Cardinality(Settling(Senders))' = Cardinality(Settling(Senders))
               + (IF s \in {"unlock", "post"} THEN 1 ELSE 0)
               - (IF at[p] \in {"unlock", "post"} THEN 1 ELSE 0)
         /\ Cardinality(Claiming(Receivers))' = Cardinality(Claiming(Receivers))
         /\ Cardinality(Settling(Receivers))' = Cardinality(Settling(Receivers))
<1>1. p \in Threads \ Receivers /\ Receivers \subseteq Threads
  BY DEF Threads
<1> QED
  BY <1>1, CountsOfMove, CountsOfOthers

LEMMA ReceiverCounts ==
  ASSUME TypeOK, NEW p \in Receivers, NEW s \in Steps, Goto(p, s)
  PROVE  /\ Cardinality(Claiming(Receivers))' = Cardinality(Claiming(Receivers))
               + (IF s \in {"lock", "copy", "advance"} THEN 1 ELSE 0)
               - (IF at[p] \in {"lock", "copy", "advance"} THEN 1 ELSE 0)
         /\ Cardinality(Settling(Receivers))' = Cardinality(Settling(Receivers))
               + (IF s \in {"unlock", "post"} THEN 1 ELSE 0)
               - (IF at[p] \in {"unlock", "post"} THEN 1 ELSE 0)
         /\ Cardinality(Claiming(Senders))' = Cardinality(Claiming(Senders))
         /\ Cardinality(Settling(Senders))' = Cardinality(Settling(Senders))
<1>1. p \in Threads \ Senders /\ Senders \subseteq Threads
  BY DEF Threads
<1> QED
  BY <1>1, CountsOfMove, CountsOfOthers

LEMMA CountsBound ==
  /\ Cardinality(Claiming(Senders)) \in Nat /\ Cardinality(Settling(Senders)) \in Nat
  /\ Cardinality(Claiming(Receivers)) \in Nat /\ Cardinality(Settling(Receivers)) \in Nat
  /\ Cardinality(Claiming(Senders))' \in Nat /\ Cardinality(Settling(Senders))' \in Nat
  /\ Cardinality(Claiming(Receivers))' \in Nat /\ Cardinality(Settling(Receivers))' \in Nat
  BY CountsAreNat DEF Claiming, Settling

\* A thread that is in a set is counted in it.
LEMMA Counted ==
  ASSUME NEW S, IsFiniteSet(S), NEW A, NEW p \in S, at[p] \in A
  PROVE  Cardinality(Who(S, A)) > 0
<1>1. p \in Who(S, A) /\ IsFiniteSet(Who(S, A)) /\ Cardinality(Who(S, A)) \in Nat
  BY CountsAreNat DEF Who
<1>2. Cardinality(Who(S, A)) # 0
  BY <1>1, FS_EmptySet
<1> QED
  BY <1>1, <1>2

\* A sum of naturals bounds its terms.
LEMMA SumBounds ==
  /\ \A a, b, c, d \in Nat : a + b + c + d = Length => a \in 0 .. Length /\ b \in 0 .. Length
  /\ \A a, b, c, n \in Nat : a + b + c = n /\ n \in 0 .. Length => a \in 0 .. Length
  OBVIOUS

\* The semaphores, the ring and the calls in progress keep adding up: one step
\* of a sender, one of a receiver.
LEMMA SenderConserves ==
  ASSUME QueueInv, NEW p \in Senders,
         SenderStep(p) \/ \E m \in Items : CallSend(p, m)
  PROVE  /\ SlotsConserved' /\ ItemsConserved'
         /\ space' \in 0 .. Length /\ items' \in 0 .. Length /\ count' \in 0 .. Length
<1> DEFINE cs == Cardinality(Claiming(Senders))
           ds == Cardinality(Settling(Senders))
           cr == Cardinality(Claiming(Receivers))
           dr == Cardinality(Settling(Receivers))
           Adds == /\ space' + count' + cs' + dr' = Length
                   /\ items' + cr' + ds' = count'
                   /\ space' \in Nat /\ items' \in Nat /\ count' \in Nat
                   /\ cr' = cr /\ dr' = dr
<1>0. /\ TypeOK
      /\ space \in 0 .. Length /\ items \in 0 .. Length /\ count \in 0 .. Length
      /\ cs \in Nat /\ ds \in Nat /\ cr \in Nat /\ dr \in Nat
      /\ cs' \in Nat /\ ds' \in Nat
      /\ space + count + cs + dr = Length
      /\ items + cr + ds = count
  BY CountsBound DEF QueueInv, TypeOK, SlotsConserved, ItemsConserved
<1>2. ASSUME NEW s \in Steps, Goto(p, s)
      PROVE  /\ cs' = cs + (IF s \in {"lock", "copy", "advance"} THEN 1 ELSE 0)
                         - (IF at[p] \in {"lock", "copy", "advance"} THEN 1 ELSE 0)
             /\ ds' = ds + (IF s \in {"unlock", "post"} THEN 1 ELSE 0)
                         - (IF at[p] \in {"unlock", "post"} THEN 1 ELSE 0)
             /\ cr' = cr /\ dr' = dr
  BY <1>0, <1>2, SenderCounts
<1> HIDE DEF cs, ds, cr, dr
<1>3. ASSUME \E m \in Items : CallSend(p, m) PROVE Adds
  <2>1. /\ Goto(p, "wait") /\ at[p] = "idle" /\ "wait" \in Steps
        /\ space' = space /\ items' = items /\ count' = count
    BY <1>3 DEF CallSend, ring, Steps
  <2>2. cs' = cs /\ ds' = ds /\ cr' = cr /\ dr' = dr
    BY <1>0, <1>2, <2>1
  <2> QED BY <1>0, <2>1, <2>2
<1>4. ASSUME TakeSpace(p) PROVE Adds
  <2>1. /\ Goto(p, "lock") /\ at[p] = "wait" /\ "lock" \in Steps
        /\ space' = space - 1 /\ space > 0 /\ items' = items /\ count' = count
    BY <1>4 DEF TakeSpace, ring, Steps
  <2>2. cs' = cs + 1 /\ ds' = ds /\ cr' = cr /\ dr' = dr
    BY <1>0, <1>2, <2>1
  <2> QED BY <1>0, <2>1, <2>2
<1>5. ASSUME SendTimeout(p) PROVE Adds
  <2>1. /\ Goto(p, "fail") /\ at[p] = "wait" /\ "fail" \in Steps
        /\ space' = space /\ items' = items /\ count' = count
    BY <1>5 DEF SendTimeout, GiveUp, ring, Steps
  <2>2. cs' = cs /\ ds' = ds /\ cr' = cr /\ dr' = dr
    BY <1>0, <1>2, <2>1
  <2> QED BY <1>0, <2>1, <2>2
<1>6. ASSUME Lock(p) PROVE Adds
  <2>1. /\ Goto(p, "copy") /\ at[p] = "lock" /\ "copy" \in Steps
        /\ space' = space /\ items' = items /\ count' = count
    BY <1>6 DEF Lock, ring, Steps
  <2>2. cs' = cs /\ ds' = ds /\ cr' = cr /\ dr' = dr
    BY <1>0, <1>2, <2>1
  <2> QED BY <1>0, <2>1, <2>2
<1>7. ASSUME CopyIn(p) PROVE Adds
  <2>1. /\ Goto(p, "advance") /\ at[p] = "copy" /\ "advance" \in Steps
        /\ space' = space /\ items' = items /\ count' = count
    BY <1>7 DEF CopyIn, ring, Steps
  <2>2. cs' = cs /\ ds' = ds /\ cr' = cr /\ dr' = dr
    BY <1>0, <1>2, <2>1
  <2> QED BY <1>0, <2>1, <2>2
<1>8. ASSUME AdvanceHead(p) PROVE Adds
  <2>1. /\ Goto(p, "unlock") /\ at[p] = "advance" /\ "unlock" \in Steps
        /\ count' = count + 1 /\ space' = space /\ items' = items
    BY <1>8 DEF AdvanceHead, ring, Steps
  <2>2. cs' = cs - 1 /\ ds' = ds + 1 /\ cr' = cr /\ dr' = dr
    BY <1>0, <1>2, <2>1
  <2> QED BY <1>0, <2>1, <2>2
<1>9. ASSUME Unlock(p) PROVE Adds
  <2>1. /\ Goto(p, "post") /\ at[p] = "unlock" /\ "post" \in Steps
        /\ space' = space /\ items' = items /\ count' = count
    BY <1>9 DEF Unlock, ring, Steps
  <2>2. cs' = cs /\ ds' = ds /\ cr' = cr /\ dr' = dr
    BY <1>0, <1>2, <2>1
  <2> QED BY <1>0, <2>1, <2>2
<1>10. ASSUME PostItem(p) PROVE Adds
  <2>1. /\ Goto(p, "ok") /\ at[p] = "post" /\ "ok" \in Steps
        /\ items' = (IF items < Length THEN items + 1 ELSE items) /\ space' = space /\ count' = count
    BY <1>10 DEF PostItem, Posted, ring, Steps
  <2>2. cs' = cs /\ ds' = ds - 1 /\ cr' = cr /\ dr' = dr
    BY <1>0, <1>2, <2>1
  <2> QED BY <1>0, <2>1, <2>2
<1>11. ASSUME Return(p) PROVE Adds
  <2>1. /\ Goto(p, "idle") /\ at[p] \in {"ok", "fail"} /\ "idle" \in Steps
        /\ space' = space /\ items' = items /\ count' = count
    BY <1>11 DEF Return, ring, Steps
  <2>2. cs' = cs /\ ds' = ds /\ cr' = cr /\ dr' = dr
    BY <1>0, <1>2, <2>1
  <2> QED BY <1>0, <2>1, <2>2
<1>12. Adds
  BY <1>3, <1>4, <1>5, <1>6, <1>7, <1>8, <1>9, <1>10, <1>11 DEF SenderStep
<1>13. cs' \in Nat /\ ds' \in Nat /\ cr' \in Nat /\ dr' \in Nat
  BY <1>0, <1>12
<1>14. space' \in 0 .. Length /\ items' \in 0 .. Length /\ count' \in 0 .. Length
  BY <1>12, <1>13, SumBounds
<1> QED
  BY <1>12, <1>14 DEF SlotsConserved, ItemsConserved, cs, ds, cr, dr

LEMMA ReceiverConserves ==
  ASSUME QueueInv, NEW p \in Receivers,
         ReceiverStep(p) \/ CallRecv(p)
  PROVE  /\ SlotsConserved' /\ ItemsConserved'
         /\ space' \in 0 .. Length /\ items' \in 0 .. Length /\ count' \in 0 .. Length
<1> DEFINE cs == Cardinality(Claiming(Senders))
           ds == Cardinality(Settling(Senders))
           cr == Cardinality(Claiming(Receivers))
           dr == Cardinality(Settling(Receivers))
           Adds == /\ space' + count' + cs' + dr' = Length
                   /\ items' + cr' + ds' = count'
                   /\ space' \in Nat /\ items' \in Nat /\ count' \in Nat
                   /\ cs' = cs /\ ds' = ds
<1>0. /\ TypeOK
      /\ space \in 0 .. Length /\ items \in 0 .. Length /\ count \in 0 .. Length
      /\ cs \in Nat /\ ds \in Nat /\ cr \in Nat /\ dr \in Nat
      /\ cr' \in Nat /\ dr' \in Nat
      /\ space + count + cs + dr = Length
      /\ items + cr + ds = count
  BY CountsBound DEF QueueInv, TypeOK, SlotsConserved, ItemsConserved
<1>2. ASSUME NEW s \in Steps, Goto(p, s)
      PROVE  /\ cr' = cr + (IF s \in {"lock", "copy", "advance"} THEN 1 ELSE 0)
                         - (IF at[p] \in {"lock", "copy", "advance"} THEN 1 ELSE 0)
             /\ dr' = dr + (IF s \in {"unlock", "post"} THEN 1 ELSE 0)
                         - (IF at[p] \in {"unlock", "post"} THEN 1 ELSE 0)
             /\ cs' = cs /\ ds' = ds
  BY <1>0, <1>2, ReceiverCounts
<1> HIDE DEF cs, ds, cr, dr
<1>3. ASSUME CallRecv(p) PROVE Adds
  <2>1. /\ Goto(p, "wait") /\ at[p] = "idle" /\ "wait" \in Steps
        /\ space' = space /\ items' = items /\ count' = count
    BY <1>3 DEF CallRecv, ring, Steps
  <2>2. cr' = cr /\ dr' = dr /\ cs' = cs /\ ds' = ds
    BY <1>0, <1>2, <2>1
  <2> QED BY <1>0, <2>1, <2>2
<1>4. ASSUME TakeItem(p) PROVE Adds
  <2>1. /\ Goto(p, "lock") /\ at[p] = "wait" /\ "lock" \in Steps
        /\ items' = items - 1 /\ items > 0 /\ space' = space /\ count' = count
    BY <1>4 DEF TakeItem, ring, Steps
  <2>2. cr' = cr + 1 /\ dr' = dr /\ cs' = cs /\ ds' = ds
    BY <1>0, <1>2, <2>1
  <2> QED BY <1>0, <2>1, <2>2
<1>5. ASSUME RecvTimeout(p) PROVE Adds
  <2>1. /\ Goto(p, "fail") /\ at[p] = "wait" /\ "fail" \in Steps
        /\ space' = space /\ items' = items /\ count' = count
    BY <1>5 DEF RecvTimeout, GiveUp, ring, Steps
  <2>2. cr' = cr /\ dr' = dr /\ cs' = cs /\ ds' = ds
    BY <1>0, <1>2, <2>1
  <2> QED BY <1>0, <2>1, <2>2
<1>6. ASSUME Lock(p) PROVE Adds
  <2>1. /\ Goto(p, "copy") /\ at[p] = "lock" /\ "copy" \in Steps
        /\ space' = space /\ items' = items /\ count' = count
    BY <1>6 DEF Lock, ring, Steps
  <2>2. cr' = cr /\ dr' = dr /\ cs' = cs /\ ds' = ds
    BY <1>0, <1>2, <2>1
  <2> QED BY <1>0, <2>1, <2>2
<1>7. ASSUME CopyOut(p) PROVE Adds
  <2>1. /\ Goto(p, "advance") /\ at[p] = "copy" /\ "advance" \in Steps
        /\ space' = space /\ items' = items /\ count' = count
    BY <1>7 DEF CopyOut, ring, Steps
  <2>2. cr' = cr /\ dr' = dr /\ cs' = cs /\ ds' = ds
    BY <1>0, <1>2, <2>1
  <2> QED BY <1>0, <2>1, <2>2
<1>8. ASSUME AdvanceTail(p) PROVE Adds
  <2>1. /\ Goto(p, "unlock") /\ at[p] = "advance" /\ "unlock" \in Steps
        /\ count' = count - 1 /\ space' = space /\ items' = items
    BY <1>8 DEF AdvanceTail, ring, Steps
  <2>2. cr' = cr - 1 /\ dr' = dr + 1 /\ cs' = cs /\ ds' = ds
    BY <1>0, <1>2, <2>1
  <2> QED BY <1>0, <2>1, <2>2
<1>9. ASSUME Unlock(p) PROVE Adds
  <2>1. /\ Goto(p, "post") /\ at[p] = "unlock" /\ "post" \in Steps
        /\ space' = space /\ items' = items /\ count' = count
    BY <1>9 DEF Unlock, ring, Steps
  <2>2. cr' = cr /\ dr' = dr /\ cs' = cs /\ ds' = ds
    BY <1>0, <1>2, <2>1
  <2> QED BY <1>0, <2>1, <2>2
<1>10. ASSUME PostSpace(p) PROVE Adds
  <2>1. /\ Goto(p, "ok") /\ at[p] = "post" /\ "ok" \in Steps
        /\ space' = (IF space < Length THEN space + 1 ELSE space) /\ items' = items /\ count' = count
    BY <1>10 DEF PostSpace, Posted, ring, Steps
  <2>2. cr' = cr /\ dr' = dr - 1 /\ cs' = cs /\ ds' = ds
    BY <1>0, <1>2, <2>1
  <2> QED BY <1>0, <2>1, <2>2
<1>11. ASSUME Return(p) PROVE Adds
  <2>1. /\ Goto(p, "idle") /\ at[p] \in {"ok", "fail"} /\ "idle" \in Steps
        /\ space' = space /\ items' = items /\ count' = count
    BY <1>11 DEF Return, ring, Steps
  <2>2. cr' = cr /\ dr' = dr /\ cs' = cs /\ ds' = ds
    BY <1>0, <1>2, <2>1
  <2> QED BY <1>0, <2>1, <2>2
<1>12. Adds
  BY <1>3, <1>4, <1>5, <1>6, <1>7, <1>8, <1>9, <1>10, <1>11 DEF ReceiverStep
<1>13. cs' \in Nat /\ ds' \in Nat /\ cr' \in Nat /\ dr' \in Nat
  BY <1>0, <1>12
<1>14. space' \in 0 .. Length /\ items' \in 0 .. Length /\ count' \in 0 .. Length
  BY <1>12, <1>13, SumBounds
<1> QED
  BY <1>12, <1>14 DEF SlotsConserved, ItemsConserved, cs, ds, cr, dr

-----------------------------------------------------------------------------
(* The invariant.                                                          *)

\* The slot after a slot.
LEMMA NextSlot ==
  ASSUME NEW i \in Slots
  PROVE  (i + 1) % Length \in Slots
  BY Wrap, i + 1 < 2 * Length, i + 1 \in Nat DEF Slots

\* head stays count slots past tail when either moves on.
LEMMA HeadFollows ==
  ASSUME NEW t \in Slots, NEW n \in 0 .. Length, NEW h, h = (t + n) % Length
  PROVE  /\ n < Length => (h + 1) % Length = (t + (n + 1)) % Length
         /\ n > 0 => h = (((t + 1) % Length) + (n - 1)) % Length
  BY SMT DEF Slots

LEMMA InitInv == Init => QueueInv
<1> SUFFICES ASSUME Init PROVE QueueInv
  OBVIOUS
<1>1. TypeOK
  BY DEF Init, TypeOK, Slots, Steps
<1>2. \A S, A : S \subseteq Threads /\ "idle" \notin A => Who(S, A) = {}
  BY DEF Init, Who
<1>3. \A S : S \subseteq Threads => Claiming(S) = {} /\ Settling(S) = {}
  BY <1>2 DEF Claiming, Settling
<1>4. SlotsConserved /\ ItemsConserved
  BY <1>3, FS_EmptySet DEF Init, SlotsConserved, ItemsConserved, Threads
<1>5. RingIntact
  BY 0 % Length = 0, Wrap DEF Init, RingIntact, Threads
<1> QED
  BY <1>1, <1>4, <1>5 DEF QueueInv

LEMMA SenderType ==
  ASSUME QueueInv, NEW p \in Senders,
         SenderStep(p) \/ \E m \in Items : CallSend(p, m)
  PROVE  TypeOK'
<1>1. space' \in 0 .. Length /\ items' \in 0 .. Length /\ count' \in 0 .. Length
  BY SenderConserves
<1>2. p \in Threads /\ TypeOK
  BY DEF Threads, QueueInv
<1>3. head' \in Slots /\ tail' \in Slots
  BY <1>2, NextSlot DEF TypeOK, SenderStep, CallSend, TakeSpace, SendTimeout, GiveUp, Lock,
         CopyIn, AdvanceHead, Unlock, PostItem, Return, ring
<1>4. mtx' \in Threads \cup {Nobody} /\ at' \in [Threads -> Steps]
  BY <1>2 DEF TypeOK, SenderStep, CallSend, TakeSpace, SendTimeout, GiveUp, Lock,
         CopyIn, AdvanceHead, Unlock, PostItem, Return, Goto, Steps
<1>5. hand' \in [Threads -> Items \cup {NoItem}] /\ buf' \in [Slots -> Items \cup {NoItem}]
  BY <1>2 DEF TypeOK, SenderStep, CallSend, TakeSpace, SendTimeout, GiveUp, Lock,
         CopyIn, AdvanceHead, Unlock, PostItem, Return, ring
<1> QED
  BY <1>1, <1>3, <1>4, <1>5 DEF TypeOK

LEMMA ReceiverType ==
  ASSUME QueueInv, NEW p \in Receivers, ReceiverStep(p) \/ CallRecv(p)
  PROVE  TypeOK'
<1>1. space' \in 0 .. Length /\ items' \in 0 .. Length /\ count' \in 0 .. Length
  BY ReceiverConserves
<1>2. p \in Threads /\ TypeOK
  BY DEF Threads, QueueInv
<1>3. head' \in Slots /\ tail' \in Slots
  BY <1>2, NextSlot DEF TypeOK, ReceiverStep, CallRecv, TakeItem, RecvTimeout, GiveUp, Lock,
         CopyOut, AdvanceTail, Unlock, PostSpace, Return, ring
<1>4. mtx' \in Threads \cup {Nobody} /\ at' \in [Threads -> Steps]
  BY <1>2 DEF TypeOK, ReceiverStep, CallRecv, TakeItem, RecvTimeout, GiveUp, Lock,
         CopyOut, AdvanceTail, Unlock, PostSpace, Return, Goto, Steps
<1>5. hand' \in [Threads -> Items \cup {NoItem}] /\ buf' \in [Slots -> Items \cup {NoItem}]
  BY <1>2 DEF TypeOK, ReceiverStep, CallRecv, TakeItem, RecvTimeout, GiveUp, Lock,
         CopyOut, AdvanceTail, Unlock, PostSpace, Return, ring
<1> QED
  BY <1>1, <1>3, <1>4, <1>5 DEF TypeOK

\* No two threads are between lock and unlock.
LEMMA Alone ==
  ASSUME RingIntact, NEW p \in Threads, NEW q \in Threads,
         at[p] \in {"copy", "advance", "unlock"}, at[q] \in {"copy", "advance", "unlock"}
  PROVE  p = q
  BY DEF RingIntact

\* A sender about to advance head has a free slot ahead of it, a receiver about
\* to advance tail an item.
LEMMA RoomAhead ==
  ASSUME QueueInv, NEW p \in Senders, at[p] \in {"lock", "copy", "advance"}
  PROVE  count < Length
<1>1. Cardinality(Claiming(Senders)) > 0
  BY Counted DEF Claiming
<1>2. /\ Cardinality(Claiming(Senders)) \in Nat /\ Cardinality(Settling(Receivers)) \in Nat
      /\ space \in 0 .. Length /\ count \in 0 .. Length
      /\ space + count + Cardinality(Claiming(Senders)) + Cardinality(Settling(Receivers)) = Length
  BY CountsBound DEF QueueInv, TypeOK, SlotsConserved
<1> QED
  BY <1>1, <1>2

LEMMA ItemAhead ==
  ASSUME QueueInv, NEW p \in Receivers, at[p] \in {"lock", "copy", "advance"}
  PROVE  count > 0
<1>1. Cardinality(Claiming(Receivers)) > 0
  BY Counted DEF Claiming
<1>2. /\ Cardinality(Claiming(Receivers)) \in Nat /\ Cardinality(Settling(Senders)) \in Nat
      /\ items \in 0 .. Length /\ count \in 0 .. Length
      /\ items + Cardinality(Claiming(Receivers)) + Cardinality(Settling(Senders)) = count
  BY CountsBound DEF QueueInv, TypeOK, ItemsConserved
<1> QED
  BY <1>1, <1>2

LEMMA SenderRing ==
  ASSUME QueueInv, NEW p \in Senders,
         SenderStep(p) \/ \E m \in Items : CallSend(p, m)
  PROVE  RingIntact'
<1>0. /\ p \in Threads /\ p \notin Receivers /\ p # Nobody
      /\ Senders \subseteq Threads /\ Receivers \subseteq Threads /\ Nobody \notin Threads
      /\ TypeOK /\ RingIntact
  BY DEF Threads, QueueInv
<1>1. (\A q \in Threads : at[q] \in {"copy", "advance", "unlock"} <=> mtx = q)'
  BY <1>0 DEF RingIntact, TypeOK, SenderStep, CallSend, TakeSpace, SendTimeout, GiveUp, Lock,
         CopyIn, AdvanceHead, Unlock, PostItem, Return, Goto
<1>2. (head = (tail + count) % Length)'
  <2>1. CASE AdvanceHead(p)
    <3>1. count < Length /\ tail \in Slots /\ count \in 0 .. Length
      BY <2>1, <1>0, RoomAhead DEF AdvanceHead, TypeOK
    <3>2. head = (tail + count) % Length
      BY <1>0 DEF RingIntact
    <3>3. (head + 1) % Length = (tail + (count + 1)) % Length
      BY <3>1, <3>2, HeadFollows
    <3> QED BY <2>1, <3>3 DEF AdvanceHead
  <2>2. CASE UNCHANGED <<head, tail, count>>
    BY <2>2, <1>0 DEF RingIntact
  <2> QED
    BY <2>1, <2>2 DEF SenderStep, CallSend, TakeSpace, SendTimeout, GiveUp, Lock,
         CopyIn, Unlock, PostItem, Return, ring
<1>3. (\A q \in Senders : at[q] = "advance" => buf[head] = hand[q])'
  <2> SUFFICES ASSUME NEW q \in Senders, at'[q] = "advance"
               PROVE  buf'[head'] = hand'[q]
    OBVIOUS
  <2>1. CASE CopyIn(p)
    <3>1. q = p
      BY <2>1, <1>0, Alone DEF CopyIn, Goto, TypeOK
    <3> QED BY <3>1, <2>1, <1>0 DEF CopyIn, TypeOK
  <2>2. CASE AdvanceHead(p)
    <3>1. q # p /\ at[q] = "advance"
      BY <2>2, <1>0 DEF AdvanceHead, Goto, TypeOK
    <3> QED BY <3>1, <2>2, <1>0, Alone DEF AdvanceHead
  <2>3. CASE ~CopyIn(p) /\ ~AdvanceHead(p)
    <3>1. at[q] = "advance" /\ q # p /\ hand'[q] = hand[q] /\ buf' = buf /\ head' = head
      BY <2>3, <1>0 DEF TypeOK, SenderStep, CallSend, TakeSpace, SendTimeout, GiveUp, Lock,
             Unlock, PostItem, Return, Goto, ring
    <3> QED BY <3>1, <1>0 DEF RingIntact
  <2> QED BY <2>1, <2>2, <2>3
<1>4. (\A q \in Receivers :
         /\ at[q] = "advance" => hand[q] = buf[tail]
         /\ at[q] \in {"idle", "wait", "lock", "copy", "fail"} => hand[q] = NoItem)'
  <2> SUFFICES ASSUME NEW q \in Receivers
               PROVE  /\ at'[q] = "advance" => hand'[q] = buf'[tail']
                      /\ at'[q] \in {"idle", "wait", "lock", "copy", "fail"} => hand'[q] = NoItem
    OBVIOUS
  <2>1. q # p /\ at'[q] = at[q] /\ hand'[q] = hand[q] /\ tail' = tail
    BY <1>0 DEF TypeOK, SenderStep, CallSend, TakeSpace, SendTimeout, GiveUp, Lock,
         CopyIn, AdvanceHead, Unlock, PostItem, Return, Goto, ring
  <2>2. at[q] = "advance" => buf' = buf
    BY <2>1, <1>0, Alone DEF SenderStep, CallSend, TakeSpace, SendTimeout, GiveUp, Lock,
         CopyIn, AdvanceHead, Unlock, PostItem, Return, ring
  <2> QED BY <2>1, <2>2, <1>0 DEF RingIntact
<1> QED
  BY <1>1, <1>2, <1>3, <1>4 DEF RingIntact

LEMMA ReceiverRing ==
  ASSUME QueueInv, NEW p \in Receivers, ReceiverStep(p) \/ CallRecv(p)
  PROVE  RingIntact'
<1>0. /\ p \in Threads /\ p \notin Senders /\ p # Nobody
      /\ Senders \subseteq Threads /\ Receivers \subseteq Threads /\ Nobody \notin Threads
      /\ TypeOK /\ RingIntact
  BY DEF Threads, QueueInv
<1>1. (\A q \in Threads : at[q] \in {"copy", "advance", "unlock"} <=> mtx = q)'
  BY <1>0 DEF RingIntact, TypeOK, ReceiverStep, CallRecv, TakeItem, RecvTimeout, GiveUp, Lock,
         CopyOut, AdvanceTail, Unlock, PostSpace, Return, Goto
<1>2. (head = (tail + count) % Length)'
  <2>1. CASE AdvanceTail(p)
    <3>1. count > 0 /\ tail \in Slots /\ count \in 0 .. Length
      BY <2>1, <1>0, ItemAhead DEF AdvanceTail, TypeOK
    <3>2. head = (tail + count) % Length
      BY <1>0 DEF RingIntact
    <3>3. head = (((tail + 1) % Length) + (count - 1)) % Length
      BY <3>1, <3>2, HeadFollows
    <3> QED BY <2>1, <3>3 DEF AdvanceTail
  <2>2. CASE UNCHANGED <<head, tail, count>>
    BY <2>2, <1>0 DEF RingIntact
  <2> QED
    BY <2>1, <2>2 DEF ReceiverStep, CallRecv, TakeItem, RecvTimeout, GiveUp, Lock,
         CopyOut, Unlock, PostSpace, Return, ring
<1>3. (\A q \in Senders : at[q] = "advance" => buf[head] = hand[q])'
  <2> SUFFICES ASSUME NEW q \in Senders, at'[q] = "advance"
               PROVE  buf'[head'] = hand'[q]
    OBVIOUS
  <2>1. at[q] = "advance" /\ hand'[q] = hand[q] /\ buf' = buf /\ head' = head
    BY <1>0 DEF TypeOK, ReceiverStep, CallRecv, TakeItem, RecvTimeout, GiveUp, Lock,
         CopyOut, AdvanceTail, Unlock, PostSpace, Return, Goto, ring
  <2> QED BY <2>1, <1>0 DEF RingIntact
<1>4. (\A q \in Receivers :
         /\ at[q] = "advance" => hand[q] = buf[tail]
         /\ at[q] \in {"idle", "wait", "lock", "copy", "fail"} => hand[q] = NoItem)'
  <2> SUFFICES ASSUME NEW q \in Receivers
               PROVE  /\ at'[q] = "advance" => hand'[q] = buf'[tail']
                      /\ at'[q] \in {"idle", "wait", "lock", "copy", "fail"} => hand'[q] = NoItem
    OBVIOUS
  <2>0. buf' = buf
    BY DEF ReceiverStep, CallRecv, TakeItem, RecvTimeout, GiveUp, Lock,
         CopyOut, AdvanceTail, Unlock, PostSpace, Return, ring
  <2>1. CASE CopyOut(p)
    BY <2>0, <2>1, <1>0, Alone DEF CopyOut, Goto, TypeOK, RingIntact, ring
  <2>2. CASE AdvanceTail(p)
    <3>1. q # p => at[q] \notin {"copy", "advance", "unlock"}
      BY <2>2, <1>0, Alone DEF AdvanceTail
    <3> QED BY <3>1, <2>2, <1>0 DEF AdvanceTail, Goto, TypeOK, RingIntact
  <2>3. CASE ~CopyOut(p) /\ ~AdvanceTail(p)
    <3>1. tail' = tail
      BY <2>3 DEF ReceiverStep, CallRecv, TakeItem, RecvTimeout, GiveUp, Lock,
             Unlock, PostSpace, Return, ring
    <3> QED
      BY <2>0, <2>3, <3>1, <1>0 DEF TypeOK, ReceiverStep, CallRecv, TakeItem, RecvTimeout,
             GiveUp, Lock, Unlock, PostSpace, Return, Goto, RingIntact, ring
  <2> QED BY <2>1, <2>2, <2>3
<1> QED
  BY <1>1, <1>2, <1>3, <1>4 DEF RingIntact

LEMMA StepInv == QueueInv /\ [Next]_vars => QueueInv'
<1> SUFFICES ASSUME QueueInv, [Next]_vars PROVE QueueInv'
  OBVIOUS
<1>1. CASE UNCHANGED vars
  BY <1>1 DEF QueueInv, TypeOK, SlotsConserved, ItemsConserved, RingIntact, Claiming,
       Settling, Who, vars
<1>2. ASSUME NEW p \in Senders, SenderStep(p) \/ \E m \in Items : CallSend(p, m)
      PROVE  QueueInv'
  BY <1>2, SenderConserves, SenderType, SenderRing DEF QueueInv
<1>3. ASSUME NEW p \in Receivers, ReceiverStep(p) \/ CallRecv(p)
      PROVE  QueueInv'
  BY <1>3, ReceiverConserves, ReceiverType, ReceiverRing DEF QueueInv
<1> QED
  BY <1>1, <1>2, <1>3 DEF Next

\* QueueInv holds in every state of the queue (iot_rtos.c, host_q_send and
\* iot_queue_recv): it is inductive.
THEOREM QueueInvariant == Spec => []QueueInv
  BY InitInv, StepInv, PTL DEF Spec

\* No schedule of sends, receives and timeouts loses a slot of the ring or an
\* item, makes one twice, or posts a semaphore beyond its maximum (the claims
\* that host_q_send and iot_queue_recv take with one semaphore and settle with
\* the other).
THEOREM ClaimsNeverLost == Spec => []ClaimsConserved
<1>1. QueueInv => ClaimsConserved
  BY DEF QueueInv, ClaimsConserved
<1> QED
  BY <1>1, QueueInvariant, PTL

\* The critical sections of the queue exclude each other and leave no slot
\* half written.
THEOREM RingStaysIntact == Spec => []RingIntact
<1>1. QueueInv => RingIntact
  BY DEF QueueInv
<1> QED
  BY <1>1, QueueInvariant, PTL

-----------------------------------------------------------------------------
(* The refinement.                                                         *)

\* The queue the calls see is a sequence.
LEMMA ContentsIsSeq ==
  ASSUME TypeOK
  PROVE  /\ Contents \in Seq(Items \cup {NoItem})
         /\ Len(Contents) = count
         /\ \A i \in 1 .. count : Contents[i] = buf[(tail + i - 1) % Length]
<1>1. \A i \in 1 .. count : (tail + i - 1) % Length \in Slots
  BY Wrap DEF TypeOK, Slots
<1>2. Contents \in [1 .. count -> Items \cup {NoItem}] /\ count \in Nat
  BY <1>1 DEF TypeOK, Contents
<1> QED
  BY <1>2 DEF Contents

LEMMA InitRefines == Init => Fifo!Init
<1> SUFFICES ASSUME Init PROVE Fifo!Init
  OBVIOUS
<1>1. Contents = <<>>
  BY DEF Init, Contents
<1>2. Calls = [p \in Fifo!Tasks |-> "idle"]
  BY DEF Init, Calls, Outcome, Threads, Fifo!Tasks
<1>3. Hands = [p \in Fifo!Tasks |-> NoItem]
  BY DEF Init, Hands, Threads, Fifo!Tasks
<1> QED
  BY <1>1, <1>2, <1>3 DEF Fifo!Init

\* A thread's step is the step of its call.
LEMMA CallsFollow ==
  ASSUME TypeOK, NEW p \in Threads, NEW s \in Steps, Goto(p, s)
  PROVE  /\ Calls' = [Calls EXCEPT ![p] = Outcome(s)]
         /\ Calls[p] = Outcome(at[p])
         /\ Outcome(s) = Outcome(at[p]) => Calls' = Calls
  BY DEF TypeOK, Goto, Calls

\* A call that changes nothing in the ring changes nothing in the queue.
LEMMA ContentsKept ==
  ASSUME UNCHANGED ring
  PROVE  Contents' = Contents
  BY DEF ring, Contents

\* Copying into the slot at head writes outside the queue.
LEMMA CopyInHidden ==
  ASSUME QueueInv, NEW p \in Senders, CopyIn(p)
  PROVE  Contents' = Contents
<1>1. /\ TypeOK /\ count < Length /\ count \in Nat /\ tail \in Slots
      /\ head = (tail + count) % Length
  BY RoomAhead DEF QueueInv, CopyIn, TypeOK, RingIntact
<1>2. \A i \in 1 .. count : (tail + i - 1) % Length # head
  <2> SUFFICES ASSUME NEW i \in 1 .. count PROVE (tail + (i - 1)) % Length # head
    BY <1>1 DEF Slots
  <2>1. i - 1 \in Nat /\ i - 1 < count
    BY <1>1
  <2> QED BY <1>1, <2>1, SlotsDiffer
<1>3. \A i \in 1 .. count : (tail + i - 1) % Length \in Slots
  BY <1>1, Wrap DEF Slots
<1> QED
  BY <1>1, <1>2, <1>3 DEF Contents, CopyIn, TypeOK

\* Moving head appends what the sender passed.
LEMMA AdvanceHeadAppends ==
  ASSUME QueueInv, NEW p \in Senders, AdvanceHead(p)
  PROVE  Contents' = Append(Contents, hand[p])
<1>1. /\ TypeOK /\ count \in Nat /\ tail \in Slots
      /\ head = (tail + count) % Length /\ buf[head] = hand[p]
      /\ tail' = tail /\ buf' = buf /\ count' = count + 1
  BY DEF QueueInv, AdvanceHead, TypeOK, RingIntact
<1>2. Contents' = [i \in 1 .. count + 1 |-> buf[(tail + i - 1) % Length]]
  BY <1>1 DEF Contents
<1>3. \A i \in 1 .. count + 1 :
        buf[(tail + i - 1) % Length] = IF i <= count THEN Contents[i] ELSE hand[p]
  <2> SUFFICES ASSUME NEW i \in 1 .. count + 1, i > count
               PROVE  buf[(tail + i - 1) % Length] = hand[p]
    BY <1>1, ContentsIsSeq
  <2>1. tail + i - 1 = tail + count
    BY <1>1 DEF Slots
  <2> QED BY <1>1, <2>1
<1>4. Append(Contents, hand[p])
        = [i \in 1 .. count + 1 |-> IF i <= count THEN Contents[i] ELSE hand[p]]
  BY <1>1, ContentsIsSeq
<1> QED
  BY <1>2, <1>3, <1>4

LEMMA TailOfSeq ==
  ASSUME NEW S, NEW q \in Seq(S), q # <<>>
  PROVE  Tail(q) = [i \in 1 .. Len(q) - 1 |-> q[i + 1]]
<1>1. /\ Tail(q) \in Seq(S) /\ Len(Tail(q)) = Len(q) - 1
      /\ \A i \in 1 .. Len(Tail(q)) : Tail(q)[i] = q[i + 1]
  BY HeadTailProperties
<1>2. Tail(q) = [i \in 1 .. Len(Tail(q)) |-> Tail(q)[i]]
  BY <1>1, LenProperties
<1> QED
  BY <1>1, <1>2

\* Moving tail removes the oldest item, the one the receiver copied.
LEMMA AdvanceTailRemoves ==
  ASSUME QueueInv, NEW p \in Receivers, AdvanceTail(p)
  PROVE  /\ Contents # <<>>
         /\ hand[p] = Head(Contents)
         /\ Contents' = Tail(Contents)
<1>1. /\ TypeOK /\ count \in 1 .. Length /\ tail \in Slots
      /\ hand[p] = buf[tail]
      /\ tail' = (tail + 1) % Length /\ buf' = buf /\ count' = count - 1
  BY ItemAhead DEF QueueInv, AdvanceTail, TypeOK, RingIntact
<1>2. /\ Contents \in Seq(Items \cup {NoItem}) /\ Len(Contents) = count
      /\ \A i \in 1 .. count : Contents[i] = buf[(tail + i - 1) % Length]
  BY <1>1, ContentsIsSeq
<1>3. (tail + 1 - 1) % Length = tail
  BY <1>1, Wrap DEF Slots
<1>4. Contents' = [i \in 1 .. count - 1 |-> buf[(((tail + 1) % Length) + i - 1) % Length]]
  BY <1>1 DEF Contents
<1>5. \A i \in 1 .. count - 1 :
        (((tail + 1) % Length) + i - 1) % Length = (tail + (i + 1) - 1) % Length
  BY <1>1, SMT DEF Slots
<1>6. \A i \in 1 .. count - 1 : buf[(((tail + 1) % Length) + i - 1) % Length] = Contents[i + 1]
  <2> SUFFICES ASSUME NEW i \in 1 .. count - 1
               PROVE  buf[(((tail + 1) % Length) + i - 1) % Length] = Contents[i + 1]
    OBVIOUS
  <2>1. i + 1 \in 1 .. count
    BY <1>1
  <2> QED BY <1>2, <1>5, <2>1
<1>7. Tail(Contents) = [i \in 1 .. count - 1 |-> Contents[i + 1]]
  <2>1. Contents # <<>>
    BY <1>1, <1>2
  <2> HIDE DEF Contents
  <2> QED BY <1>2, <2>1, TailOfSeq
<1> QED
  BY <1>1, <1>2, <1>3, <1>4, <1>6, <1>7

\* The instance counts as the queue does.
LEMMA SameCardinality == \A S : Fifo!Cardinality(S) = Cardinality(S)
  BY DEF Fifo!Cardinality, Cardinality

\* Giving up on the space semaphore is a refusal the FIFO allows.
LEMMA SendTimeoutRefines ==
  ASSUME QueueInv, NEW p \in Senders, SendTimeout(p)
  PROVE  Fifo!RefuseSend(p)
<1>1. /\ TypeOK /\ p \in Threads /\ "fail" \in Steps /\ Goto(p, "fail") /\ at[p] = "wait"
      /\ space = 0 /\ UNCHANGED ring /\ hand' = hand
  BY DEF QueueInv, SendTimeout, GiveUp, Threads, Steps
<1>2. Calls[p] = "open" /\ Calls' = [Calls EXCEPT ![p] = "refused"]
  BY <1>1, CallsFollow DEF Outcome
<1>3. Contents' = Contents
  BY <1>1, ContentsKept
<1>4. Hands' = Hands
  BY <1>1 DEF Hands, Goto, TypeOK, Threads
<1>5. /\ Claiming(Senders) \subseteq Fifo!Others(Senders, p, "open")
      /\ Settling(Receivers) \subseteq Fifo!Others(Receivers, p, "done")
  BY <1>1 DEF Claiming, Settling, Who, Fifo!Others, Calls, Outcome, Threads
<1>6. /\ Cardinality(Claiming(Senders)) <= Cardinality(Fifo!Others(Senders, p, "open"))
      /\ Cardinality(Settling(Receivers)) <= Cardinality(Fifo!Others(Receivers, p, "done"))
      /\ Cardinality(Fifo!Others(Senders, p, "open")) \in Nat
      /\ Cardinality(Fifo!Others(Receivers, p, "done")) \in Nat
  <2>1. /\ IsFiniteSet(Fifo!Others(Senders, p, "open"))
        /\ IsFiniteSet(Fifo!Others(Receivers, p, "done"))
    BY FS_Subset DEF Fifo!Others
  <2> QED BY <1>5, <2>1, FS_Subset, FS_CardinalityType
<1>7. /\ count + Cardinality(Claiming(Senders)) + Cardinality(Settling(Receivers)) = Length
      /\ Cardinality(Claiming(Senders)) \in Nat /\ Cardinality(Settling(Receivers)) \in Nat
      /\ count \in Nat
  BY <1>1, CountsBound DEF QueueInv, SlotsConserved, TypeOK
<1>8. Len(Contents) = count
  BY <1>1, ContentsIsSeq
<1>9. Len(Contents) + Fifo!SlotsHeldBack(p) >= Length
  BY <1>6, <1>7, <1>8, SameCardinality DEF Fifo!SlotsHeldBack
<1> QED
  BY <1>2, <1>3, <1>4, <1>9 DEF Fifo!RefuseSend

\* Giving up on the items semaphore is one too.
LEMMA RecvTimeoutRefines ==
  ASSUME QueueInv, NEW p \in Receivers, RecvTimeout(p)
  PROVE  Fifo!RefuseRecv(p)
<1>1. /\ TypeOK /\ p \in Threads /\ "fail" \in Steps /\ Goto(p, "fail") /\ at[p] = "wait"
      /\ items = 0 /\ UNCHANGED ring /\ hand' = hand
  BY DEF QueueInv, RecvTimeout, GiveUp, Threads, Steps
<1>2. Calls[p] = "open" /\ Calls' = [Calls EXCEPT ![p] = "refused"]
  BY <1>1, CallsFollow DEF Outcome
<1>3. Contents' = Contents
  BY <1>1, ContentsKept
<1>4. Hands' = Hands
  BY <1>1 DEF Hands, Goto, TypeOK, Threads
<1>5. /\ Claiming(Receivers) \subseteq Fifo!Others(Receivers, p, "open")
      /\ Settling(Senders) \subseteq Fifo!Others(Senders, p, "done")
  BY <1>1 DEF Claiming, Settling, Who, Fifo!Others, Calls, Outcome, Threads
<1>6. /\ Cardinality(Claiming(Receivers)) <= Cardinality(Fifo!Others(Receivers, p, "open"))
      /\ Cardinality(Settling(Senders)) <= Cardinality(Fifo!Others(Senders, p, "done"))
      /\ Cardinality(Fifo!Others(Receivers, p, "open")) \in Nat
      /\ Cardinality(Fifo!Others(Senders, p, "done")) \in Nat
  <2>1. /\ IsFiniteSet(Fifo!Others(Receivers, p, "open"))
        /\ IsFiniteSet(Fifo!Others(Senders, p, "done"))
    BY FS_Subset DEF Fifo!Others
  <2> QED BY <1>5, <2>1, FS_Subset, FS_CardinalityType
<1>7. /\ Cardinality(Claiming(Receivers)) + Cardinality(Settling(Senders)) = count
      /\ Cardinality(Claiming(Receivers)) \in Nat /\ Cardinality(Settling(Senders)) \in Nat
      /\ count \in Nat
  BY <1>1, CountsBound DEF QueueInv, ItemsConserved, TypeOK
<1>8. Len(Contents) = count
  BY <1>1, ContentsIsSeq
<1>9. Len(Contents) <= Fifo!ItemsHeldBack(p)
  BY <1>6, <1>7, <1>8, SameCardinality DEF Fifo!ItemsHeldBack
<1> QED
  BY <1>2, <1>3, <1>4, <1>9 DEF Fifo!RefuseRecv

\* Every step of a sender is a step of its call, or hidden from it.
LEMMA SenderRefines ==
  ASSUME QueueInv, NEW p \in Senders,
         SenderStep(p) \/ \E m \in Items : CallSend(p, m)
  PROVE  Fifo!Next \/ UNCHANGED Fifo!vars
<1>0. /\ p \in Threads /\ p \notin Receivers /\ TypeOK
      /\ \A s \in {"idle", "wait", "lock", "copy", "advance", "unlock", "post", "ok", "fail"} :
           s \in Steps
  BY DEF QueueInv, Threads, Steps
<1>1. ASSUME NEW m \in Items, CallSend(p, m) PROVE Fifo!Send(p, m)
  <2>1. Calls[p] = "idle" /\ Calls' = [Calls EXCEPT ![p] = "open"]
    BY <1>1, <1>0, CallsFollow DEF CallSend, Outcome
  <2>2. Contents' = Contents
    BY <1>1, ContentsKept DEF CallSend
  <2>3. Hands' = [Hands EXCEPT ![p] = m]
    BY <1>1, <1>0 DEF CallSend, Hands, Goto, TypeOK
  <2> QED BY <2>1, <2>2, <2>3 DEF Fifo!Send
<1>2. CASE SendTimeout(p)
  BY <1>2, SendTimeoutRefines DEF Fifo!Next
<1>3. ASSUME AdvanceHead(p) PROVE Fifo!Enqueue(p)
  <2>1. Calls[p] = "open" /\ Calls' = [Calls EXCEPT ![p] = "done"]
    BY <1>3, <1>0, CallsFollow DEF AdvanceHead, Outcome
  <2>2. Hands[p] = hand[p] /\ Hands' = Hands
    BY <1>3, <1>0 DEF AdvanceHead, Hands, Goto, TypeOK
  <2>3. Contents' = Append(Contents, hand[p])
    BY <1>3, AdvanceHeadAppends
  <2>4. Len(Contents) < Length
    BY <1>3, <1>0, ContentsIsSeq, RoomAhead DEF AdvanceHead
  <2> QED BY <2>1, <2>2, <2>3, <2>4 DEF Fifo!Enqueue
<1>4. ASSUME Return(p) PROVE Fifo!Return(p)
  <2>1. Calls[p] \in {"done", "refused"} /\ Calls' = [Calls EXCEPT ![p] = "idle"]
    BY <1>4, <1>0, CallsFollow DEF Return, Outcome
  <2>2. Contents' = Contents
    BY <1>4, ContentsKept DEF Return
  <2>3. Hands' = [Hands EXCEPT ![p] = NoItem]
    BY <1>4, <1>0 DEF Return, Hands, Goto, TypeOK
  <2> QED BY <2>1, <2>2, <2>3 DEF Fifo!Return
<1>5. ASSUME TakeSpace(p) \/ Lock(p) \/ CopyIn(p) \/ Unlock(p) \/ PostItem(p)
      PROVE  UNCHANGED Fifo!vars
  <2>1. Calls' = Calls
    BY <1>5, <1>0, CallsFollow DEF TakeSpace, Lock, CopyIn, Unlock, PostItem, Outcome
  <2>2. Contents' = Contents
    BY <1>5, ContentsKept, CopyInHidden DEF TakeSpace, Lock, Unlock, PostItem
  <2>3. Hands' = Hands
    BY <1>5, <1>0 DEF TakeSpace, Lock, CopyIn, Unlock, PostItem, Hands, Goto, TypeOK
  <2> QED BY <2>1, <2>2, <2>3 DEF Fifo!vars
<1> QED
  BY <1>0, <1>1, <1>2, <1>3, <1>4, <1>5 DEF SenderStep, Fifo!Next, Fifo!Tasks

\* So is every step of a receiver.
LEMMA ReceiverRefines ==
  ASSUME QueueInv, NEW p \in Receivers, ReceiverStep(p) \/ CallRecv(p)
  PROVE  Fifo!Next \/ UNCHANGED Fifo!vars
<1>0. /\ p \in Threads /\ TypeOK /\ RingIntact
      /\ \A s \in {"idle", "wait", "lock", "copy", "advance", "unlock", "post", "ok", "fail"} :
           s \in Steps
  BY DEF QueueInv, Threads, Steps
<1>1. ASSUME CallRecv(p) PROVE Fifo!Recv(p)
  <2>1. Calls[p] = "idle" /\ Calls' = [Calls EXCEPT ![p] = "open"]
    BY <1>1, <1>0, CallsFollow DEF CallRecv, Outcome
  <2>2. Contents' = Contents
    BY <1>1, ContentsKept DEF CallRecv
  <2>3. Hands' = Hands
    BY <1>1, <1>0 DEF CallRecv, Hands, Goto, TypeOK
  <2> QED BY <2>1, <2>2, <2>3 DEF Fifo!Recv
<1>2. CASE RecvTimeout(p)
  BY <1>2, RecvTimeoutRefines DEF Fifo!Next
<1>3. ASSUME AdvanceTail(p) PROVE Fifo!Dequeue(p)
  <2>1. Calls[p] = "open" /\ Calls' = [Calls EXCEPT ![p] = "done"]
    BY <1>3, <1>0, CallsFollow DEF AdvanceTail, Outcome
  <2>2. Hands' = [Hands EXCEPT ![p] = hand[p]]
    BY <1>3, <1>0 DEF AdvanceTail, Hands, Goto, TypeOK
  <2>3. Contents # <<>> /\ hand[p] = Head(Contents) /\ Contents' = Tail(Contents)
    BY <1>3, AdvanceTailRemoves
  <2> QED BY <2>1, <2>2, <2>3 DEF Fifo!Dequeue
<1>4. ASSUME Return(p) PROVE Fifo!Return(p)
  <2>1. Calls[p] \in {"done", "refused"} /\ Calls' = [Calls EXCEPT ![p] = "idle"]
    BY <1>4, <1>0, CallsFollow DEF Return, Outcome
  <2>2. Contents' = Contents
    BY <1>4, ContentsKept DEF Return
  <2>3. Hands' = [Hands EXCEPT ![p] = NoItem]
    BY <1>4, <1>0 DEF Return, Hands, Goto, TypeOK
  <2> QED BY <2>1, <2>2, <2>3 DEF Fifo!Return
<1>5. ASSUME TakeItem(p) \/ Lock(p) \/ CopyOut(p) \/ Unlock(p) \/ PostSpace(p)
      PROVE  UNCHANGED Fifo!vars
  <2>1. Calls' = Calls
    BY <1>5, <1>0, CallsFollow DEF TakeItem, Lock, CopyOut, Unlock, PostSpace, Outcome
  <2>2. Contents' = Contents
    BY <1>5, ContentsKept DEF TakeItem, Lock, CopyOut, Unlock, PostSpace
  <2>3. Hands' = Hands
    <3>1. CASE CopyOut(p)
      BY <3>1, <1>0 DEF CopyOut, Hands, Goto, TypeOK, RingIntact
    <3>2. CASE ~CopyOut(p)
      BY <3>2, <1>5, <1>0 DEF TakeItem, Lock, Unlock, PostSpace, Hands, Goto, TypeOK
    <3> QED BY <3>1, <3>2
  <2> QED BY <2>1, <2>2, <2>3 DEF Fifo!vars
<1> QED
  BY <1>0, <1>1, <1>2, <1>3, <1>4, <1>5 DEF ReceiverStep, Fifo!Next, Fifo!Tasks

\* The ring buffer of the host port, with its mutex and its two semaphores,
\* is the bounded FIFO that iot_queue_send and iot_queue_recv promise, for
\* every length and every number of tasks.
THEOREM QueueImplementsFifo == Spec => ImplementsFifo
<1>1. QueueInv /\ [Next]_vars => [Fifo!Next]_Fifo!vars
  <2> SUFFICES ASSUME QueueInv, [Next]_vars PROVE Fifo!Next \/ UNCHANGED Fifo!vars
    OBVIOUS
  <2>1. CASE UNCHANGED vars
    BY <2>1 DEF vars, Fifo!vars, Contents, Calls, Hands
  <2> QED
    BY <2>1, SenderRefines, ReceiverRefines DEF Next
<1> QED
  BY <1>1, InitRefines, QueueInvariant, PTL DEF Spec, ImplementsFifo, Fifo!Spec
=============================================================================
