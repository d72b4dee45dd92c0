------------------------------- MODULE Update -------------------------------
(***************************************************************************)
(* The update over the air, the confirmation of a new image at boot and    *)
(* the task watchdog: components/iot_ota/src/iot_ota.c,                    *)
(* components/iot_drivers/src/iot_wdt.c, wdt_task of iot_tasks.c and the   *)
(* statements of app_main that matter to them (main/main.c).               *)
(*                                                                         *)
(* External, modelled by what the code expects of them: ESP-IDF's          *)
(* bootloader with rollback (CONFIG_BOOTLOADER_APP_ROLLBACK_ENABLE), its   *)
(* OTA library, which writes to the slot that is not running, and its task *)
(* watchdog, which knows only the tasks that have subscribed.              *)
(*                                                                         *)
(* The cmd task has a higher priority than the ota tasks, so that          *)
(* iot_ota_start is one step for them.  The clock ticks every 2 s, the     *)
(* period of wdt_task.                                                     *)
(***************************************************************************)
EXTENDS Integers

CONSTANTS
  Tasks,     \* bound: the ota tasks there can be at once
  Timeout    \* ticks after which the watchdog panics (10 s)

ASSUME UpdateAssumption == Timeout \in Nat \ {0}

VARIABLES
  flash,     \* what each slot holds
  running,   \* the slot that runs
  boot,      \* the slot the bootloader will choose
  mark,      \* the rollback state of that slot
  main,      \* the position of app_main
  hung,      \* app_main will not go on
  age,       \* for each subscribed task the ticks since its last reset
  s_state,
  busy,      \* IOT_EVT_OTA_BUSY
  ota,       \* the position of each ota task
  mixed,     \* two tasks have written to the slot
  confirmed  \* history: who confirmed an image that cannot boot

boots == <<running, boot, mark>>
slots == <<flash, mixed>>
start == <<main, hung, age>>
vars == <<slots, boots, start, s_state, busy, ota, confirmed>>

Slots == {0, 1}
Other(slot) == 1 - slot
Images == {"good", "bad"}   \* "bad": does not get through app_main
Positions == {"drivers", "subscribe", "ota_init", "tasks", "links", "mark", "done"}

Init ==
  /\ flash = [slot \in Slots |-> IF slot = 0 THEN "good" ELSE "none"]
  /\ running = 0 /\ boot = 0 /\ mark = "valid"
  /\ main = "drivers" /\ hung = FALSE /\ age = [t \in {} |-> 0]
  /\ s_state = "IDLE" /\ busy = FALSE
  /\ ota = [t \in Tasks |-> "none"] /\ mixed = FALSE
  /\ confirmed = "nobody"

-----------------------------------------------------------------------------
(* The bootloader and restarts *)

\* The bootloader runs the slot it is told to, a new image once; if it does not
\* hold an image or has not been confirmed since, it goes back to the other.
Restart ==
  /\ IF mark = "pending" \/ flash[boot] = "none"
       THEN running' = Other(boot) /\ boot' = Other(boot) /\ mark' = "valid"
       ELSE running' = boot /\ UNCHANGED boot /\ mark' = IF mark = "new" THEN "pending" ELSE mark
  /\ main' = "drivers" /\ hung' = FALSE /\ age' = [t \in {} |-> 0]
  /\ s_state' = "IDLE" /\ busy' = FALSE
  /\ ota' = [t \in Tasks |-> "none"]
  /\ mixed' = FALSE
  /\ UNCHANGED <<flash, confirmed>>

PowerCut == Restart

-----------------------------------------------------------------------------
(* The task watchdog *)

\* iot_wdt_init: 10 s without a reset are a panic.
Expired(t) == age[t] = Timeout

\* wdt_task runs once per tick.  It resets the watchdog for itself, which counts
\* for a task that has subscribed.
Tick ==
  /\ \A t \in DOMAIN age : ~Expired(t)
  /\ age' = [t \in DOMAIN age |-> IF t = "wdt_task" THEN 0 ELSE age[t] + 1]
  /\ UNCHANGED <<slots, boots, main, hung, s_state, busy, ota, confirmed>>

Panic ==
  /\ \E t \in DOMAIN age : Expired(t)
  /\ Restart

SubscribeNobody == UNCHANGED age   \* mutant: subscribed by the later call only

\* iot_wdt_add_current, first call: the task of app_main subscribes.
Subscribe == age' = [t \in {"app_main"} |-> 0]

-----------------------------------------------------------------------------
(* app_main *)

\* An image that cannot boot stops at one of these statements: NVS cannot be used
\* or the tasks do not start, so that app_main returns, or a call does not return.
\* The first of them come before the subscription: there nothing watches app_main.
Hang ==
  /\ flash[running] = "bad" /\ ~hung /\ main \in {"drivers", "ota_init", "tasks", "links"}
  /\ hung' = TRUE
  /\ UNCHANGED <<slots, boots, main, age, s_state, busy, ota, confirmed>>

\* esp_ota_mark_app_valid_cancel_rollback, called by who.
MarkValid(who) ==
  /\ mark' = IF running = boot /\ mark = "pending" THEN "valid" ELSE mark
  /\ confirmed' = IF mark' # mark /\ flash[running] = "bad" THEN who ELSE confirmed

Advance(from, to) ==
  /\ main = from /\ ~hung
  /\ main' = to

\* nvs_bootstrap to iot_drivers_init
InitDrivers ==
  /\ Advance("drivers", "subscribe")
  /\ UNCHANGED <<slots, boots, hung, age, s_state, busy, ota, confirmed>>

AddMain ==
  /\ Advance("subscribe", "ota_init")
  /\ Subscribe
  /\ UNCHANGED <<slots, boots, hung, s_state, busy, ota, confirmed>>

InitOtaMarks ==   \* mutant: an image is confirmed where OTA is initialised
  /\ Advance("ota_init", "tasks")
  /\ s_state' = "IDLE"
  /\ MarkValid("boot")
  /\ UNCHANGED <<slots, running, boot, hung, age, busy, ota>>

\* iot_ota_init
InitOta ==
  /\ Advance("ota_init", "tasks")
  /\ s_state' = "IDLE"
  /\ UNCHANGED <<slots, boots, hung, age, busy, ota, confirmed>>

\* iot_tasks_start, and the second call of iot_wdt_add_current, which finds the
\* task of app_main subscribed.
StartTasks ==
  /\ Advance("tasks", "links")
  /\ age' = [t \in DOMAIN age \cup {"app_main"} |-> IF t \in DOMAIN age THEN age[t] ELSE 0]
  /\ UNCHANGED <<slots, boots, hung, s_state, busy, ota, confirmed>>

\* The profile, BLE, the wait of up to 30 s for an address, and MQTT.
StartLinks ==
  /\ flash[running] # "bad"
  /\ Advance("links", "mark")
  /\ UNCHANGED <<slots, boots, hung, age, s_state, busy, ota, confirmed>>

\* iot_ota_mark_valid, the last call of app_main.
Confirm ==
  /\ Advance("mark", "done")
  /\ MarkValid("boot")
  /\ UNCHANGED <<slots, running, boot, hung, age, s_state, busy, ota>>

AppMain == InitDrivers \/ AddMain \/ InitOta \/ StartTasks \/ StartLinks \/ Confirm

-----------------------------------------------------------------------------
(* Commands: cmd_task runs them once the links are being started *)

\* An ota task, at from, goes to to; "none" while it does not exist.
Goes(t, from, to) ==
  /\ ota[t] = from
  /\ ota' = [ota EXCEPT ![t] = to]

Listening == main \in {"links", "mark", "done"}

\* iot_uc_plt_ota or iot_services_handle_command, then iot_ota_start, with an
\* address that is allowed.  The address, which the task reads when it begins and
\* a later start may have overwritten, is left out: what is there may be any image.
Start ==
  /\ Listening
  /\ s_state # "DOWNLOADING"
  /\ \E t \in Tasks : Goes(t, "none", "created")
  /\ UNCHANGED <<slots, boots, start, s_state, busy, confirmed>>

\* iot_uc_plt_mark_ota
MarkOta ==
  /\ Listening
  /\ MarkValid("operator")
  /\ UNCHANGED <<slots, running, boot, start, s_state, busy, ota>>

-----------------------------------------------------------------------------
(* ota_task *)

Announce(t) ==
  /\ Goes(t, "created", "begin")
  /\ busy' = TRUE
  /\ s_state' = "DOWNLOADING"
  /\ UNCHANGED <<slots, boots, start, confirmed>>

\* esp_https_ota_begin: refused in an image that has not been confirmed; it
\* erases the other slot.
Begin(t) ==
  /\ mark # "pending"
  /\ Goes(t, "begin", "perform")
  /\ flash' = [flash EXCEPT ![Other(running)] = "none"]
  /\ mixed' = \E u \in Tasks \ {t} : ota[u] \in {"perform", "verify"}
  /\ UNCHANGED <<boots, start, s_state, busy, confirmed>>

FailBeginQuietly(t) ==   \* mutant: the state is not set when nothing began
  /\ Goes(t, "begin", "end")
  /\ UNCHANGED <<slots, boots, start, s_state, busy, confirmed>>

\* esp_https_ota_begin does not succeed.
FailBegin(t) ==
  /\ Goes(t, "begin", "end")
  /\ s_state' = "FAIL"
  /\ UNCHANGED <<slots, boots, start, busy, confirmed>>

\* The loop around esp_https_ota_perform; its reset of the watchdog is for the
\* ota task, which has not subscribed.
Complete(t) ==
  /\ Goes(t, "perform", "verify")
  /\ s_state' = "VERIFY"
  /\ UNCHANGED <<slots, boots, start, busy, confirmed>>

Abort(t) ==
  /\ Goes(t, "perform", "end")
  /\ s_state' = "FAIL"
  /\ UNCHANGED <<slots, boots, start, busy, confirmed>>

\* esp_https_ota_finish, which verifies what is in the slot and selects it.
Finish(t) ==
  /\ ~mixed
  /\ Goes(t, "verify", "reboot")
  /\ \E image \in Images : flash' = [flash EXCEPT ![Other(running)] = image]
  /\ boot' = Other(running) /\ mark' = "new"
  /\ s_state' = "REBOOT"
  /\ UNCHANGED <<running, mixed, start, busy, confirmed>>

FailFinish(t) ==
  /\ Goes(t, "verify", "end")
  /\ s_state' = "FAIL"
  /\ UNCHANGED <<slots, boots, start, busy, confirmed>>

\* esp_restart, after half a second.
Reboot(t) == ota[t] = "reboot" /\ Restart

End(t) ==
  /\ Goes(t, "end", "none")
  /\ busy' = FALSE
  /\ UNCHANGED <<slots, boots, start, s_state, confirmed>>

OtaTask(t) ==
  \/ Announce(t) \/ Begin(t) \/ FailBegin(t) \/ Complete(t) \/ Abort(t)
  \/ Finish(t) \/ FailFinish(t) \/ Reboot(t) \/ End(t)

Next ==
  \/ PowerCut \/ Tick \/ Panic \/ Hang \/ AppMain \/ Start \/ MarkOta
  \/ \E t \in Tasks : OtaTask(t)

Spec == Init /\ [][Next]_vars

\* The clock, the watchdog, app_main and the ota tasks go on; nobody has to send
\* a command.
FairSpec ==
  /\ Spec
  /\ WF_vars(Tick) /\ WF_vars(Panic) /\ WF_vars(AppMain)
  /\ \A t \in Tasks : WF_vars(OtaTask(t))

-----------------------------------------------------------------------------
(* Properties *)

\* Every variable has a value the code can give it; no subscription outlives the timeout.
TypeOK ==
  /\ flash \in [Slots -> Images \cup {"none"}]
  /\ running \in Slots /\ boot \in Slots /\ mark \in {"valid", "new", "pending"}
  /\ main \in Positions /\ hung \in BOOLEAN
  /\ DOMAIN age \subseteq {"app_main", "wdt_task", "ota_task"}
  /\ \A t \in DOMAIN age : age[t] \in 0..Timeout
  /\ s_state \in {"IDLE", "DOWNLOADING", "VERIFY", "REBOOT", "FAIL"}
  /\ busy \in BOOLEAN /\ mixed \in BOOLEAN
  /\ ota \in [Tasks -> {"none", "created", "begin", "perform", "verify", "reboot", "end"}]
  /\ confirmed \in {"nobody", "boot", "operator"}

\* While an image that cannot boot runs, the next restart of any kind goes back to
\* one that can: it has not been confirmed, and no update, of the many there may be
\* at once, has touched the other slot; unless an operator's command confirmed it.
WayBack ==
  flash[running] = "bad" /\ confirmed # "operator" =>
    mark = "pending" /\ flash[Other(running)] = "good"

\* A start is not refused, and OTA_BUSY not set, when no update is at work: two
\* tasks that overwrite each other's state still leave it right at the end.
NeverStuckBusy ==
  (\A t \in Tasks : ota[t] = "none") => s_state # "DOWNLOADING" /\ ~busy

\* After a bad update the device is back with a good image again and again: a boot
\* that stops once app_main has subscribed is ended by the watchdog.  One that stops
\* before that is ended by nobody but who cuts the power.
StoppedUnwatched == hung /\ main = "drivers"

Recovers == []<>(flash[running] = "good" \/ confirmed = "operator" \/ StoppedUnwatched)

\* A device that has booted is not reset by the watchdog.
HealthyStays == main = "done" => \A t \in DOMAIN age : ~Expired(t)
=============================================================================
