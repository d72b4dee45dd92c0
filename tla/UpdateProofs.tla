---------------------------- MODULE UpdateProofs ----------------------------
(***************************************************************************)
(* Proofs about Update, for every number of ota tasks and every timeout:   *)
(* from a bad image the device can go back, and no update leaves the next  *)
(* one refused.                                                            *)
(***************************************************************************)
EXTENDS Update, TLAPS

USE UpdateAssumption

-----------------------------------------------------------------------------
(* The inductive invariant *)

\* app_main gets past the start of the links only in an image that can boot.
Booted == main \in {"mark", "done"} => flash[running] # "bad"

\* The state says DOWNLOADING, and OTA_BUSY is set, only while some task will
\* still change it.
AtWork ==
  /\ s_state = "DOWNLOADING" => \E t \in Tasks : ota[t] \in {"begin", "perform"}
  /\ busy => \E t \in Tasks : ota[t] \notin {"none", "created"}

\* A slot is run only if it holds an image, and the one before it stays as long as
\* the image has not been confirmed; only an operator makes a bad image stay.
Kept ==
  /\ flash[running] # "none"
  /\ boot = IF mark = "new" THEN Other(running) ELSE running
  /\ flash[running] = "bad" => mark = "pending" \/ confirmed = "operator"
  /\ mark = "pending" =>
       /\ flash[Other(running)] # "none"
       /\ flash[Other(running)] = "bad" => confirmed = "operator"
       /\ \A t \in Tasks : ota[t] \notin {"perform", "verify"}

UpdateInv == TypeOK /\ Booted /\ Kept /\ AtWork

LEMMA OtherSlot ==
  ASSUME NEW slot \in Slots
  PROVE  Other(slot) \in Slots /\ Other(slot) # slot
BY DEF Slots, Other

LEMMA OtherOfOther ==
  ASSUME NEW slot \in Slots
  PROVE  Other(Other(slot)) = slot
BY DEF Slots, Other

-----------------------------------------------------------------------------
(* The steps *)

LEMMA InitEstablishes == Init => UpdateInv
BY DEF Init, UpdateInv, TypeOK, Booted, Kept, AtWork, Slots, Images, Positions

\* A restart clears everything in RAM, and app_main begins again.
LEMMA RestartStep ==
  ASSUME UpdateInv, Restart
  PROVE  UpdateInv'
<1>1. TypeOK'
  BY OtherSlot DEF UpdateInv, TypeOK, Restart, Positions
<1>2. Booted' /\ AtWork'
  BY DEF Booted, AtWork, Restart
\* It goes back to the slot before from an image that was not confirmed, and from
\* one that an update has just erased.
<1>3. Kept'
  <2>1. /\ Kept /\ flash' = flash /\ confirmed' = confirmed /\ ota' = [t \in Tasks |-> "none"]
        /\ Other(Other(running)) = running
    BY OtherOfOther DEF UpdateInv, TypeOK, Restart
  <2>2. CASE mark = "pending"
    <3>1. running' = Other(running) /\ boot' = running' /\ mark' = "valid"
      BY <2>1, <2>2 DEF Restart, Kept
    <3> QED
      BY <2>1, <2>2, <3>1 DEF Kept
  <2>3. CASE mark = "new" /\ flash[boot] = "none"
    <3>1. running' = running /\ boot' = running' /\ mark' = "valid"
      BY <2>1, <2>3 DEF Restart, Kept
    <3> QED
      BY <2>1, <2>3, <3>1 DEF Kept
  <2>4. CASE mark = "new" /\ flash[boot] # "none"
    <3>1. running' = Other(running) /\ boot' = running' /\ mark' = "pending"
      BY <2>1, <2>4 DEF Restart, Kept
    <3> QED
      BY <2>1, <2>4, <3>1 DEF Kept
  <2>5. CASE mark = "valid"
    <3>1. running' = running /\ boot' = running' /\ mark' = "valid"
      BY <2>1, <2>5 DEF Restart, Kept
    <3> QED
      BY <2>1, <2>5, <3>1 DEF Kept
  <2> QED
    BY <2>2, <2>3, <2>4, <2>5 DEF UpdateInv, TypeOK
<1> QED
  BY <1>1, <1>2, <1>3 DEF UpdateInv

LEMMA TickStep ==
  ASSUME UpdateInv, Tick
  PROVE  UpdateInv'
<1>1. DOMAIN age' = DOMAIN age /\ \A t \in DOMAIN age' : age'[t] \in 0..Timeout
  BY DEF UpdateInv, TypeOK, Tick, Expired
<1>2. TypeOK'
  BY <1>1 DEF UpdateInv, TypeOK, Tick, slots, boots
<1>3. Booted' /\ Kept' /\ AtWork'
  BY DEF UpdateInv, Booted, Kept, AtWork, Tick, slots, boots
<1> QED
  BY <1>2, <1>3 DEF UpdateInv

\* The subscriptions are of known tasks and begin at zero.
LEMMA SubscriptionsStay ==
  ASSUME UpdateInv, AppMain
  PROVE  DOMAIN age' \subseteq {"app_main", "wdt_task", "ota_task"}
         /\ \A t \in DOMAIN age' : age'[t] \in 0..Timeout
<1>1. CASE AddMain
  BY <1>1 DEF AddMain, Subscribe
<1>2. CASE StartTasks
  BY <1>2 DEF UpdateInv, TypeOK, StartTasks
<1>3. CASE InitDrivers \/ InitOta \/ StartLinks \/ Confirm
  BY <1>3 DEF UpdateInv, TypeOK, InitDrivers, InitOta, StartLinks, Confirm
<1> QED
  BY <1>1, <1>2, <1>3 DEF AppMain

LEMMA AppMainStep ==
  ASSUME UpdateInv, AppMain
  PROVE  UpdateInv'
<1>1. /\ DOMAIN age' \subseteq {"app_main", "wdt_task", "ota_task"}
      /\ \A t \in DOMAIN age' : age'[t] \in 0..Timeout
  BY SubscriptionsStay
<1>2. CASE Confirm
  <2>1. flash[running] # "bad"
    BY <1>2 DEF Confirm, Advance, UpdateInv, Booted
  <2>2. mark' \in {"valid", "new", "pending"} /\ confirmed' = confirmed
    BY <1>2, <2>1 DEF Confirm, MarkValid, UpdateInv, TypeOK
  <2>3. TypeOK'
    BY <1>1, <1>2, <2>2 DEF Confirm, Advance, UpdateInv, TypeOK, slots, Positions
  <2>4. Booted' /\ Kept' /\ AtWork'
    BY <1>2, <2>1, <2>2
       DEF Confirm, Advance, MarkValid, UpdateInv, Booted, Kept, AtWork, slots
  <2> QED
    BY <2>3, <2>4 DEF UpdateInv
<1>3. CASE InitDrivers \/ AddMain \/ InitOta \/ StartTasks \/ StartLinks
  <2>1. TypeOK'
    BY <1>1, <1>3 DEF InitDrivers, AddMain, InitOta, StartTasks, StartLinks, Advance, UpdateInv,
      TypeOK, slots, boots, Positions
  <2>2. Booted'
    BY <1>3 DEF InitDrivers, AddMain, InitOta, StartTasks, StartLinks, Advance, Booted, slots, boots
  <2>3. Kept' /\ AtWork'
    BY <1>3 DEF InitDrivers, AddMain, InitOta, StartTasks, StartLinks, Advance, UpdateInv,
      Kept, AtWork, slots, boots
  <2> QED
    BY <2>1, <2>2, <2>3 DEF UpdateInv
<1> QED
  BY <1>2, <1>3 DEF AppMain

LEMMA HangStep ==
  ASSUME UpdateInv, Hang
  PROVE  UpdateInv'
<1>1. TypeOK'
  BY DEF UpdateInv, TypeOK, Hang, slots, boots
<1>2. Booted' /\ Kept' /\ AtWork'
  BY DEF UpdateInv, Booted, Kept, AtWork, Hang, slots, boots
<1> QED
  BY <1>1, <1>2 DEF UpdateInv

\* The operator may confirm any image; the boot's own history stays as it is.
LEMMA MarkOtaStep ==
  ASSUME UpdateInv, MarkOta
  PROVE  UpdateInv'
<1>1. TypeOK'
  BY DEF UpdateInv, TypeOK, MarkOta, MarkValid, slots, start
<1>2. Booted' /\ Kept' /\ AtWork'
  BY DEF UpdateInv, Booted, Kept, AtWork, MarkOta, MarkValid, slots, start
<1> QED
  BY <1>1, <1>2 DEF UpdateInv

LEMMA StartStep ==
  ASSUME UpdateInv, Start
  PROVE  UpdateInv'
<1> PICK t \in Tasks : Goes(t, "none", "created")
  BY DEF Start
<1>1. TypeOK'
  BY DEF UpdateInv, TypeOK, Start, Goes, slots, boots, start
<1>2. AtWork'
  BY DEF UpdateInv, TypeOK, AtWork, Start, Goes
<1>3. Booted' /\ Kept'
  BY DEF UpdateInv, TypeOK, Booted, Kept, Start, Goes, slots, boots, start
<1> QED
  BY <1>1, <1>2, <1>3 DEF UpdateInv

\* What an ota task writes is the slot that does not run.
LEMMA OtaTaskStep ==
  ASSUME UpdateInv, NEW t \in Tasks, OtaTask(t), ~Reboot(t)
  PROVE  UpdateInv'
<1>1. /\ flash' \in [Slots -> Images \cup {"none"}]
      /\ flash'[running] = flash[running]
  BY OtherSlot DEF UpdateInv, TypeOK, OtaTask, Announce, Begin, FailBegin, Complete, Abort, Finish,
    FailFinish, End, slots
<1>2. TypeOK'
  BY <1>1, OtherSlot DEF UpdateInv, TypeOK, OtaTask, Announce, Begin, FailBegin, Complete, Abort,
    Finish, FailFinish, End, Goes, slots, boots, start
<1>3. Booted'
  BY <1>1 DEF UpdateInv, Booted, OtaTask, Announce, Begin, FailBegin, Complete, Abort, Finish,
    FailFinish, End, boots, start
<1>4. AtWork'
  <2>1. CASE Announce(t) \/ Begin(t) \/ Complete(t) \/ Finish(t)
    BY <2>1 DEF UpdateInv, TypeOK, AtWork, Announce, Begin, Complete, Finish, Goes
  <2>2. CASE FailBegin(t) \/ Abort(t) \/ FailFinish(t)
    BY <2>2 DEF UpdateInv, TypeOK, AtWork, FailBegin, Abort, FailFinish, Goes
  <2>3. CASE End(t)
    BY <2>3 DEF UpdateInv, TypeOK, AtWork, End, Goes
  <2> QED
    BY <2>1, <2>2, <2>3 DEF OtaTask
\* Nothing is begun in an image that has not been confirmed.
<1>5. Kept'
  <2>1. CASE Begin(t)
    BY <1>1, <2>1 DEF UpdateInv, TypeOK, Kept, Begin, Goes, boots
  <2>2. CASE Finish(t)
    <3>1. /\ mark \in {"valid", "new"} /\ mark' = "new" /\ running' = running
          /\ boot' = Other(running) /\ confirmed' = confirmed
      BY <2>2 DEF UpdateInv, TypeOK, Kept, Finish, Goes
    <3> QED
      BY <1>1, <3>1 DEF UpdateInv, Kept
  <2>3. CASE Announce(t) \/ FailBegin(t) \/ Complete(t) \/ Abort(t) \/ FailFinish(t) \/ End(t)
    BY <2>3 DEF UpdateInv, TypeOK, Kept, Announce, FailBegin, Complete, Abort, FailFinish, End, Goes,
      slots, boots
  <2> QED
    BY <2>1, <2>2, <2>3 DEF OtaTask
<1> QED
  BY <1>2, <1>3, <1>4, <1>5 DEF UpdateInv

LEMMA StutterStep ==
  ASSUME UpdateInv, UNCHANGED vars
  PROVE  UpdateInv'
BY DEF UpdateInv, TypeOK, Booted, Kept, AtWork, vars, slots, boots, start

-----------------------------------------------------------------------------
(* The theorems *)

\* The invariant holds in every state of every execution.
THEOREM UpdateInvariant == Spec => []UpdateInv
<1>1. UpdateInv /\ [Next]_vars => UpdateInv'
  <2> SUFFICES ASSUME UpdateInv, [Next]_vars PROVE UpdateInv'
    OBVIOUS
  <2>1. CASE PowerCut \/ Panic
    BY <2>1, RestartStep DEF PowerCut, Panic
  <2>2. CASE \E t \in Tasks : OtaTask(t)
    <3> PICK t \in Tasks : OtaTask(t)
      BY <2>2
    <3>1. CASE Reboot(t)
      BY <3>1, RestartStep DEF Reboot
    <3>2. CASE ~Reboot(t)
      BY <3>2, OtaTaskStep
    <3> QED
      BY <3>1, <3>2
  <2> QED
    BY <2>1, <2>2, TickStep, HangStep, AppMainStep, StartStep, MarkOtaStep, StutterStep DEF Next
<1> QED
  BY <1>1, InitEstablishes, PTL DEF Spec

\* Every variable keeps its type; in particular no subscription outlives the timeout.
THEOREM UpdateTypes == Spec => []TypeOK
<1>1. UpdateInv => TypeOK
  BY DEF UpdateInv
<1> QED
  BY <1>1, UpdateInvariant, PTL

\* With any number of updates at once and restarts anywhere, a bad image that runs
\* has not been confirmed, and a good one is in the other slot, unless an operator's
\* command confirmed it (iot_ota_mark_valid as the last call of app_main, and
\* esp_https_ota_begin's refusal before it).
THEOREM BadImageCanGoBack == Spec => []WayBack
<1>1. UpdateInv => WayBack
  BY OtherSlot DEF UpdateInv, TypeOK, Kept, WayBack, Images
<1> QED
  BY <1>1, UpdateInvariant, PTL

\* Any number of ota tasks that overwrite each other's state and bit leave both
\* free when the last one has ended.
THEOREM UpdatesEnd == Spec => []NeverStuckBusy
<1>1. UpdateInv => NeverStuckBusy
  BY DEF UpdateInv, AtWork, NeverStuckBusy
<1> QED
  BY <1>1, UpdateInvariant, PTL
=============================================================================
