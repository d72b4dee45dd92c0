--------------------------- MODULE SharedObjects ---------------------------
(***************************************************************************)
(* The objects that several tasks call at once and that the repository     *)
(* builds itself from a mutex: the queue (HostQueue) and the event group   *)
(* (HostEvent) of the Win32 host port, and the bus of a driver (BusLock).  *)
(* No call touches two of them, so one of them is in use at a time.        *)
(***************************************************************************)
EXTENDS HostQueue, HostEvent, BusLock

VARIABLE object   \* the one that is used

sharedVars == <<object, vars, eventVars, busVars>>

SharedInit ==
  /\ object \in {"queue", "events", "bus"}
  /\ Init /\ EventInit /\ BusInit
  /\ kind = "rs485" => object = "bus"

SharedNext ==
  \/ object = "queue" /\ Next /\ UNCHANGED <<object, eventVars, busVars>>
  \/ object = "events" /\ EventNext /\ UNCHANGED <<object, vars, busVars>>
  \/ object = "bus" /\ BusNext /\ UNCHANGED <<object, vars, eventVars>>

\* The fairness of HostQueue, for its threads when they run at all.
SharedSpec ==
  /\ SharedInit /\ [][SharedNext]_sharedVars
  /\ \A p \in Senders : WF_vars(object = "queue" /\ SenderStep(p))
  /\ \A p \in Receivers : WF_vars(object = "queue" /\ (ReceiverStep(p) \/ CallRecv(p)))
  /\ \A p \in Threads : SF_vars(object = "queue" /\ Lock(p))
=============================================================================
