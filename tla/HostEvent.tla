----------------------------- MODULE HostEvent -----------------------------
(***************************************************************************)
(* The event group of the Win32 host port (components/iot_rtos/src/        *)
(* iot_rtos.c, iot_host_event_t): a word of flags guarded by a mutex.  A   *)
(* wait does not sleep on the flags: it looks at them, under the mutex,    *)
(* every 5 ms until timeout_ms have passed.  A read-modify-write of the    *)
(* word is a load and a store.                                             *)
(*                                                                         *)
(* The step a caller is at (step[c]) is the statement it executes next:    *)
(*   take    WaitForSingleObject(e->mtx, INFINITE)                         *)
(*   load    read e->bits (and, in a wait, compare)                        *)
(*   store   write e->bits                                                 *)
(*   drop    ReleaseMutex; then back to take, after Sleep(5), when there   *)
(*           is time left                                                  *)
(*   leave   return                                                        *)
(***************************************************************************)
EXTENDS Naturals

CONSTANTS
  Flags,       \* the bits of the group
  Callers,     \* tasks that use it
  MaxPolls,    \* bound of a wait's timeout_ms, in looks at the flags
  NoRequest,
  NoCaller

VARIABLES
  flags,   \* e->bits
  owner,   \* the task that holds e->mtx
  step,    \* per task, the statement it executes next
  req,     \* per task, the arguments of its call
  cur,     \* per task, the word it has loaded
  polls,   \* per task, the looks that timeout_ms leaves it
  got      \* per task, what the call returns

eventVars == <<flags, owner, step, req, cur, polls, got>>

Masks == SUBSET Flags \ {{}}
ModifyRequest == [op : {"set", "clear"}, mask : Masks]
WaitRequest == [op : {"wait"}, mask : Masks, clear : BOOLEAN, all : BOOLEAN]
EventRequest == ModifyRequest \cup WaitRequest

ASSUME HostEventAssumption ==
  /\ MaxPolls \in Nat \ {0}
  /\ NoCaller \notin Callers
  /\ NoRequest \notin EventRequest

EventInit ==
  /\ flags = {}
  /\ owner = NoCaller
  /\ step = [c \in Callers |-> "away"]
  /\ req = [c \in Callers |-> NoRequest]
  /\ cur = [c \in Callers |-> {}]
  /\ polls = [c \in Callers |-> 0]
  /\ got = [c \in Callers |-> {}]

At(c, s) == step[c] = s
To(c, s) == step' = [step EXCEPT ![c] = s]

Enter(c, r, n) ==
  /\ At(c, "away")
  /\ To(c, "take")
  /\ req' = [req EXCEPT ![c] = r]
  /\ polls' = [polls EXCEPT ![c] = n]
  /\ UNCHANGED <<flags, owner, cur, got>>

TakeNothing(c) ==   \* mutant: no mutex, as in the branch for other hosts
  /\ At(c, "take")
  /\ To(c, "load")
  /\ UNCHANGED <<flags, owner, req, cur, polls, got>>

TakeMutex(c) ==
  /\ At(c, "take")
  /\ owner = NoCaller
  /\ owner' = c
  /\ To(c, "load")
  /\ UNCHANGED <<flags, req, cur, polls, got>>

\* ok of iot_event_wait, for the word w.
Ok(w, r) == IF r.all THEN w \cap r.mask = r.mask ELSE w \cap r.mask # {}

\* set and clear go on to write what they read; a wait that is met returns
\* what it read, through the write when it clears.
Load(c) ==
  /\ At(c, "load")
  /\ cur' = [cur EXCEPT ![c] = flags]
  /\ IF req[c].op # "wait" THEN To(c, "store") /\ UNCHANGED got
     ELSE IF ~Ok(flags, req[c]) THEN To(c, "drop") /\ UNCHANGED got
     ELSE /\ To(c, IF req[c].clear THEN "store" ELSE "drop")
          /\ got' = [got EXCEPT ![c] = flags]
  /\ polls' = [polls EXCEPT ![c] =
                 IF req[c].op # "wait" \/ Ok(flags, req[c]) THEN 0 ELSE @ - 1]
  /\ UNCHANGED <<flags, owner, req>>

Store(c) ==
  /\ At(c, "store")
  /\ flags' = IF req[c].op = "set" THEN cur[c] \cup req[c].mask ELSE cur[c] \ req[c].mask
  /\ To(c, "drop")
  /\ UNCHANGED <<owner, req, cur, polls, got>>

DropMutex(c) ==
  /\ At(c, "drop")
  /\ owner' = IF owner = c THEN NoCaller ELSE owner
  /\ To(c, IF polls[c] > 0 THEN "take" ELSE "leave")
  /\ UNCHANGED <<flags, req, cur, polls, got>>

Leave(c) ==
  /\ At(c, "leave")
  /\ To(c, "away")
  /\ req' = [req EXCEPT ![c] = NoRequest]
  /\ cur' = [cur EXCEPT ![c] = {}]
  /\ got' = [got EXCEPT ![c] = {}]
  /\ UNCHANGED <<flags, owner, polls>>

EventNext ==
  \E c \in Callers :
    \/ \E r \in WaitRequest : \E n \in 1 .. MaxPolls : Enter(c, r, n)
    \/ \E r \in ModifyRequest : Enter(c, r, 1)
    \/ TakeMutex(c) \/ Load(c) \/ Store(c) \/ DropMutex(c) \/ Leave(c)

EventSpec == EventInit /\ [][EventNext]_eventVars
-----------------------------------------------------------------------------
EventTypeOK ==
  /\ flags \subseteq Flags
  /\ owner \in Callers \cup {NoCaller}
  /\ step \in [Callers -> {"away", "take", "load", "store", "drop", "leave"}]
  /\ req \in [Callers -> EventRequest \cup {NoRequest}]
  /\ cur \in [Callers -> SUBSET Flags]
  /\ polls \in [Callers -> 0 .. MaxPolls]
  /\ got \in [Callers -> SUBSET Flags]

\* The mutex is held from load to drop; what a caller is about to write is
\* made from the word as it still is; a caller that will look again has no
\* result, and one that will not has no look left.
WordGuarded ==
  \A c \in Callers :
    /\ step[c] \in {"load", "store", "drop"} <=> owner = c
    /\ step[c] = "away" <=> req[c] = NoRequest
    /\ step[c] = "away" => got[c] = {}
    /\ step[c] \in {"take", "load"} => polls[c] > 0
    /\ step[c] \in {"away", "store", "leave"} => polls[c] = 0
    /\ step[c] = "store" => cur[c] = flags
    /\ got[c] # {} => polls[c] = 0 /\ req[c].op = "wait"
    /\ step[c] = "store" /\ req[c].op = "wait" =>
         got[c] = flags /\ req[c].clear /\ Ok(flags, req[c])

EventInv == EventTypeOK /\ WordGuarded

\* A call has taken effect once its word is written; a wait that does not
\* clear, or that fails for good, once it has looked for the last time.
TookEffect(c) ==
  \/ step[c] \in {"away", "leave"}
  \/ step[c] = "drop" /\ polls[c] = 0

Pending == [c \in Callers |-> IF TookEffect(c) THEN NoRequest ELSE req[c]]

Answers == [c \in Callers |-> IF TookEffect(c) THEN got[c] ELSE {}]

Group == INSTANCE EventFlags WITH bits <- flags, pending <- Pending, answer <- Answers

\* The polled word and its mutex implement what a caller may rely on of both
\* ports: no concurrent set, clear or clearing wait loses another's flag, a
\* wait that is met is met by the flags at one moment and clears them at that
\* moment, and a wait that times out looked when it was not met.
ImplementsEvents == Group!Spec
=============================================================================
