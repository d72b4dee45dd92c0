---------------------------- MODULE EventFlags ----------------------------
(***************************************************************************)
(* What the event group of the OS layer promises to the tasks that use it  *)
(* (iot_event_set, _clear and _wait of components/iot_rtos/include/        *)
(* iot_rtos.h), whichever port is behind it: a set of flags that tasks     *)
(* set, clear and wait for.  A call takes effect in one atomic step        *)
(* between its beginning and its return; a wait that is met returns the    *)
(* flags as they were and, when asked to, clears in the same step the ones *)
(* it waited for; a wait gives up only where it is not met.                *)
(*                                                                         *)
(* In two points the ports differ, and a caller may rely on neither.  A    *)
(* wait that gives up returns none of the flags in the Win32 port, those   *)
(* that are set in the FreeRTOS one; neither meets the request, which is   *)
(* what app_main makes sure of.  And setting flags meets, in FreeRTOS, in  *)
(* the same step every wait that sleeps on them, before any of these       *)
(* clears them for the others.                                             *)
(***************************************************************************)
CONSTANTS
  Flags,      \* the bits of the group
  Callers,    \* tasks that use it
  NoRequest   \* what a task asks for that is not in a call

VARIABLES
  bits,      \* the flags that are set
  pending,   \* per task, the call it is in and that has not taken effect
  answer     \* per task, what the wait that it returns from gives it

vars == <<bits, pending, answer>>

Requests ==
  [op : {"set", "clear"}, mask : SUBSET Flags]
    \cup [op : {"wait"}, mask : SUBSET Flags, clear : BOOLEAN, all : BOOLEAN]

\* A wait for the flags of r is met by the flags b.
Met(b, r) == IF r.all THEN r.mask \subseteq b ELSE r.mask \cap b # {}

Init ==
  /\ bits = {}
  /\ pending = [c \in Callers |-> NoRequest]
  /\ answer = [c \in Callers |-> {}]

Ask(c, r) ==
  /\ pending[c] = NoRequest /\ answer[c] = {}
  /\ pending' = [pending EXCEPT ![c] = r]
  /\ UNCHANGED <<bits, answer>>

Return(c) ==
  /\ pending[c] = NoRequest
  /\ answer' = [answer EXCEPT ![c] = {}]
  /\ UNCHANGED <<bits, pending>>

Done(c, b, a) ==
  /\ bits' = b
  /\ pending' = [pending EXCEPT ![c] = NoRequest]
  /\ answer' = [answer EXCEPT ![c] = a]

InCall(c, op) == pending[c] # NoRequest /\ pending[c].op = op

\* w: the waits that are woken with the word as the flags have just been set,
\* none in the Win32 port.
SetBits(c) ==
  /\ InCall(c, "set")
  /\ LET word == bits \cup pending[c].mask
     IN  \E w \in SUBSET {d \in Callers : InCall(d, "wait") /\ Met(word, pending[d])} :
           /\ bits' = word \ UNION {pending[d].mask : d \in {e \in w : pending[e].clear}}
           /\ pending' = [d \in Callers |-> IF d \in w \cup {c} THEN NoRequest ELSE pending[d]]
           /\ answer' = [d \in Callers |-> IF d \in w THEN word ELSE answer[d]]

ClearBits(c) == InCall(c, "clear") /\ Done(c, bits \ pending[c].mask, answer[c])

Meet(c) ==
  /\ InCall(c, "wait")
  /\ Met(bits, pending[c])
  /\ Done(c, IF pending[c].clear THEN bits \ pending[c].mask ELSE bits, bits)

\* {} of the Win32 port, bits of the FreeRTOS one.
GiveUpWait(c) ==
  /\ InCall(c, "wait")
  /\ ~Met(bits, pending[c])
  /\ \E a \in {{}, bits} : Done(c, bits, a)

Next ==
  \E c \in Callers :
    \/ \E r \in Requests : Ask(c, r)
    \/ SetBits(c) \/ ClearBits(c) \/ Meet(c) \/ GiveUpWait(c) \/ Return(c)

Spec == Init /\ [][Next]_vars
=============================================================================
