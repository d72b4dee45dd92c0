------------------------------ MODULE BusLock ------------------------------
(***************************************************************************)
(* The call of a driver that shares a bus under a mutex (iot_gpio, iot_i2c,*)
(* iot_spi, iot_adc, iot_uart): lock with a timeout, use the bus, unlock.  *)
(* A UART with an RS485 transceiver also switches its driver enable (DE)   *)
(* around the frame.  No driver looks at the result of the lock, and the   *)
(* UART does not look at the result of its wait for the last byte, so both *)
(* go on after a timeout.                                                  *)
(*                                                                         *)
(* The places of a caller: out, lock, then on the bus use (any driver) or  *)
(* drive, send, flush, release (RS485), unlock, and back with a result.    *)
(***************************************************************************)
EXTENDS Naturals

CONSTANTS Users, NoUser   \* the tasks that call the driver, and no task

ASSUME BusAssumption == NoUser \notin Users

VARIABLES
  kind,      \* whether the driver switches a transceiver: "plain" or "rs485"
  guard,     \* the task that holds s_lock
  place,     \* per task, where it is in its call
  de,        \* the driver enable pin
  wire,      \* the tasks whose bytes have not all left the transmitter
  refused,   \* the tasks whose bytes uart_write_bytes did not take
  cut,       \* the tasks whose wait for the last byte ran out
  ranout,    \* a wait has run out since the bus was last quiet
  aborted    \* the kernel has stopped the program

busVars == <<kind, guard, place, de, wire, refused, cut, ranout, aborted>>

OnBus == {"use", "drive", "send", "flush", "release", "unlock"}
Places == OnBus \cup {"out", "lock", "back"}

BusInit ==
  /\ kind \in {"plain", "rs485"}
  /\ guard = NoUser
  /\ place = [t \in Users |-> "out"]
  /\ de = FALSE
  /\ wire = {} /\ refused = {} /\ cut = {}
  /\ ranout = FALSE /\ aborted = FALSE

Moves(t, from, to) ==
  /\ ~aborted
  /\ place[t] = from
  /\ place' = [place EXCEPT ![t] = to]

Aboard == IF kind = "rs485" THEN "drive" ELSE "use"

\* No task calls the driver and nothing is left in the transmitter.
Quiet == wire = {} /\ \A t \in Users : place[t] = "out"

BusCall(t) ==
  /\ Moves(t, "out", "lock")
  /\ ranout' = (ranout /\ ~Quiet)
  /\ refused' = refused \ {t} /\ cut' = cut \ {t}
  /\ UNCHANGED <<kind, guard, de, wire, aborted>>

\* iot_mutex_lock
Acquire(t) ==
  /\ Moves(t, "lock", Aboard)
  /\ guard = NoUser
  /\ guard' = t
  /\ UNCHANGED <<kind, de, wire, refused, cut, ranout, aborted>>

AcquireTimeout(t) ==
  /\ Moves(t, "lock", Aboard)
  /\ guard # NoUser
  /\ ranout' = TRUE
  /\ UNCHANGED <<kind, guard, de, wire, refused, cut, aborted>>

\* The transfer of a driver without a transceiver, whatever comes of it.
UseBus(t) ==
  /\ Moves(t, "use", "unlock")
  /\ UNCHANGED <<kind, guard, de, wire, refused, cut, ranout, aborted>>

Drive(t) ==
  /\ Moves(t, "drive", "send")
  /\ de' = TRUE
  /\ UNCHANGED <<kind, guard, wire, refused, cut, ranout, aborted>>

SendBytesReturn(t) ==   \* mutant: a failed write returns at once
  /\ \/ Moves(t, "send", "flush") /\ wire' = wire \cup {t} /\ UNCHANGED refused
     \/ Moves(t, "send", "back") /\ refused' = refused \cup {t} /\ UNCHANGED wire
  /\ UNCHANGED <<kind, guard, de, cut, ranout, aborted>>

\* uart_write_bytes: into the driver's buffer, or not at all.
SendBytes(t) ==
  /\ Moves(t, "send", "flush")
  /\ \/ wire' = wire \cup {t} /\ UNCHANGED refused
     \/ refused' = refused \cup {t} /\ UNCHANGED wire
  /\ UNCHANGED <<kind, guard, de, cut, ranout, aborted>>

\* The transmitter.
BytesLeave(t) ==
  /\ ~aborted
  /\ t \in wire
  /\ wire' = wire \ {t}
  /\ UNCHANGED <<kind, guard, place, de, refused, cut, ranout, aborted>>

FlushNothing(t) ==   \* mutant: does not wait for the last byte
  /\ Moves(t, "flush", "release")
  /\ UNCHANGED <<kind, guard, de, wire, refused, cut, ranout, aborted>>

\* uart_wait_tx_done
Flush(t) ==
  /\ Moves(t, "flush", "release")
  /\ wire = {}
  /\ UNCHANGED <<kind, guard, de, wire, refused, cut, ranout, aborted>>

FlushTimeout(t) ==
  /\ Moves(t, "flush", "release")
  /\ wire # {}
  /\ cut' = cut \cup {t}
  /\ ranout' = TRUE
  /\ UNCHANGED <<kind, guard, de, wire, refused, aborted>>

Release(t) ==
  /\ Moves(t, "release", "unlock")
  /\ de' = FALSE
  /\ UNCHANGED <<kind, guard, wire, refused, cut, ranout, aborted>>

\* iot_mutex_unlock.  Of a free mutex it fails, unchecked; of another task's
\* FreeRTOS stops the program, and Win32 fails, unchecked.
Unguard(t) ==
  /\ Moves(t, "unlock", "back")
  /\ guard' = IF guard = t THEN NoUser ELSE guard
  /\ aborted' \in {FALSE, guard \notin {t, NoUser}}
  /\ UNCHANGED <<kind, de, wire, refused, cut, ranout>>

GiveBack(t) ==
  /\ Moves(t, "back", "out")
  /\ UNCHANGED <<kind, guard, de, wire, refused, cut, ranout, aborted>>

\* The panic handler restarts the device.
Reboot ==
  /\ aborted
  /\ guard' = NoUser /\ place' = [t \in Users |-> "out"]
  /\ de' = FALSE /\ wire' = {} /\ refused' = {} /\ cut' = {}
  /\ ranout' = FALSE /\ aborted' = FALSE
  /\ UNCHANGED kind

UserStep(t) ==
  \/ Acquire(t) \/ AcquireTimeout(t) \/ UseBus(t)
  \/ Drive(t) \/ SendBytes(t) \/ Flush(t) \/ FlushTimeout(t) \/ Release(t)
  \/ Unguard(t) \/ GiveBack(t)

BusNext == Reboot \/ \E t \in Users : BusCall(t) \/ UserStep(t) \/ BytesLeave(t)

BusSpec == BusInit /\ [][BusNext]_busVars
-----------------------------------------------------------------------------
BusTypeOK ==
  /\ kind \in {"plain", "rs485"}
  /\ guard \in Users \cup {NoUser}
  /\ place \in [Users -> Places]
  /\ de \in BOOLEAN /\ ranout \in BOOLEAN /\ aborted \in BOOLEAN
  /\ wire \subseteq Users /\ refused \subseteq Users /\ cut \subseteq Users

\* As long as no wait has run out, the task on the bus is the one that holds
\* the mutex, the transceiver drives the line while bytes leave, and no
\* unlock stops the program.  One timeout breaks this for the callers there
\* are, but no longer than until the bus is quiet again.
BusOwned ==
  ~ranout =>
    /\ \A t \in Users : place[t] \in OnBus => guard = t
    /\ wire # {} => de
    /\ ~aborted

\* However the calls overlapped and whatever timed out, when all of them are
\* out the mutex is free and the transceiver listens again: an RS485 line that
\* stays driven would mute every other station.
BusReleased ==
  ~aborted /\ (\A t \in Users : place[t] \in {"out", "lock", "back"}) => guard = NoUser /\ ~de

\* "UART-01 | TX timeout | IOT_ERR_IO, DE released"
\* (components/iot_drivers/README.md): iot_uart_write returns IOT_ERR_IO only
\* when uart_write_bytes refused the bytes.
ReturnsIo(t) == t \in refused
TimeoutReported == \A t \in Users : place[t] = "back" /\ t \in cut => ReturnsIo(t)
=============================================================================
