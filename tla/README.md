# Verification of the ESP32 IoT platform firmware

TLA+ models of the firmware's core, checked with TLC and, where it is said,
proved with TLAPS. The code is C for ESP-IDF (FreeRTOS) with two host ports of
its OS layer (Win32 and POSIX).  Paths below are relative to `src/`; `C/` is
`components/`.

## 1. The system

### Components

| Component | State | Operations | Interacts with |
|---|---|---|---|
| OS layer, `C/iot_rtos/src/iot_rtos.c` | queues, semaphores, event groups, mutexes, per port | create, send (task and ISR), receive, give, take, set/clear/wait | everything |
| Tasks, `C/iot_rtos/src/iot_tasks.c` | `s_ctx` (queues, semaphore, events, locks), `s_seq`, `s_shutdown`, hooks | `iot_tasks_start`, `_set_hooks`, `_request_shutdown`; loops of sensor, proc, cmd, diag, wdt | drivers, profile hooks, MQTT pump |
| Boot, `main/main.c` | a copy of the configuration | `app_main` | calls every init in a fixed order, waits 30 s for an address |
| Interrupt input, `C/iot_drivers/src/iot_exti.c` | ISR, pulse counters, the semaphore to give | `iot_exti_init`, `gpio_isr` | sensor task |
| Bus drivers, `C/iot_drivers` (GPIO, UART, I2C, SPI, ADC) | a mutex per driver, the RS485 driver enable | init, transfer, write, read | sensor hooks, use cases |
| Wi-Fi, `C/iot_wifi/src/iot_wifi.c` | `s_state`, `s_backoff_ms`, event bits | `iot_wifi_start`, `wifi_event` | event loop, `system_evt`, MQTT |
| MQTT, `C/iot_mqtt/src/iot_mqtt.c` | `s_state`, client, pump task | `iot_mqtt_start`, `mqtt_event`, `mqtt_pump`, publish | queues, `system_evt` |
| BLE, `C/iot_ble/src/iot_ble.c` | connection, advertising, the text that is read back | `iot_ble_init`, `ble_on_sync`, `gap_event`, `gatt_access` | NimBLE host, command queue, configuration |
| Configuration, `C/iot_core/src/iot_config.c`, `C/iot_provision` | `s_cfg`, NVS | init, load, save, `iot_provision_apply_json` | boot, command task, power cuts |
| Command services, `C/iot_services`, `C/iot_security` | device identity | `iot_services_handle_command`, `iot_security_validate_command` | profile hooks, use cases, provisioning, OTA |
| Use cases, `C/iot_usecases` | one structure per product (meter and valve, limits and alarms, charging session, fence, heartbeat …) | `iot_uc_dispatch_command`, one function per use case, one per sample | sensor task (samples) and command task (commands), GPIO, PWM |
| Profiles, `C/iot_profiles` | which of ten products is built | init, sensor hook, command hook | tasks, use cases |
| OTA, `C/iot_ota` | `s_state`, `s_url`, boot slots | `iot_ota_start`, `ota_task`, `iot_ota_mark_valid` | command task, watchdog, boot |
| Diagnostics and watchdog, `C/iot_diag`, `C/iot_drivers/src/iot_wdt.c` | counters; the subscribed tasks | count, report; add, reset | every task |

Samples flow `ISR -> sensor_isr_sem -> sensor -> sample_q -> proc ->
telemetry_q -> mqtt_pump -> broker`, commands `BLE, MQTT -> command_q -> cmd ->
profile hook -> services -> use case, provisioning or OTA`.  Wi-Fi, MQTT and
BLE callbacks run on threads of the vendor's libraries and talk to the tasks only
through `system_evt`, `command_q` and their `s_state`.

### What is hard in it

- Concurrency: ISR, five tasks, the pump, the event loop, the MQTT client and
  the BLE host share queues, event bits, buses and (in the use cases) plain variables.
- Boot order: tasks run before the hooks, profile and transports exist.
- Failure: links and sessions come and go, attempts to join or to advertise are
  refused, queues overflow, NVS refuses to open, to give an entry or to take one, power
  fails between two of them.
- Ordering and timeouts: every queue and bus call has a timeout, and events reach
  the Wi-Fi handler after the driver has moved on.
- Commands are recognised by words anywhere in their text, three layers deep, and
  the text holds names and passwords that people chose.
- The host ports re-implement FreeRTOS objects with other primitives.

### What makes each component correct

- Queue: a bounded FIFO; no slot, item or wake-up is lost.
- Event group: setting, clearing and waiting are atomic, in a group that is
  built of a mutex and a word that is polled; a wait that times out was not met,
  whichever of the two answers the ports give to it.
- Bus: one task at a time drives it, the transceiver is released with it, and a
  timeout is over when the bus is quiet again.
- Tasks: telemetry is handed to the MQTT client in order and at most once, and by the
  client to the broker with QoS 1, so that it may get there again; every drop accounted for, no
  command discarded for want of a handler, an orderly shutdown.
- Wi-Fi, MQTT: what other tasks read is true once events are handled; the
  device comes back by itself after every failure that is reported.
- BLE: a device that is powered can be found or is connected; what a phone reads
  back is what the device has stored; a phone that insists gets it commissioned.
- Command services: a message does what its keys say.
- Configuration: the cache is what the next boot reads; the provisioned flag
  vouches for the network; an operation changes only its own fields; all that
  in spite of power cuts, and but for the entries NVS refused to give or to take.
- Use cases: outputs are where the state says, alarms are neither lost nor false,
  although samples come between the statements of commands.
- OTA and watchdog: updates, of which the code allows two at once, leave the next one
  startable; from an image that cannot boot the next restart leads back to the one before;
  an image that stops is restarted by the watchdog, which holds only of `app_main` from
  its subscription on (`main/main.c:80`); a healthy device is not restarted, which the code
  does not keep (finding 3).

`PROJECT.json` lists, under `hazards`, where each of these bites, and under
`components` what is modelled of each part.

## 2. Modules

| Module | Models | State, actions |
|---|---|---|
| `BoundedFifo` | abstract: what `iot_queue_send` and `iot_queue_recv` promise; the FreeRTOS wrappers, which pass on to the kernel | a sequence; each call takes effect in one step, and may be refused only if the calls of others account for what it lacked |
| `HostQueue`, `HostQueueProofs` | the Win32 queue of `iot_rtos.c` | ring (`buf head tail count`), mutex, two semaphores; one action per statement another thread can observe, per thread its next statement in `at` |
| `EventFlags` | abstract: what `iot_event_set`, `_clear` and `_wait` promise; the FreeRTOS wrappers | a set of flags; each call takes effect in one step; a wait gives up only where it is not met, and then returns none of the flags (Win32) or those that are set (FreeRTOS); a set may wake several waits with one word, as FreeRTOS does |
| `HostEvent` | the Win32 event group | the word, its mutex, a load and a store per read-modify-write, `step` per caller; a wait looks at the flags every 5 ms |
| `BusLock` | a call of a bus driver: lock with a timeout, use, unlock; the RS485 transceiver of the UART | mutex, driver enable, whose bytes are still on the wire, `place` per user; no driver looks at the result of its lock |
| `SharedObjects`, `SharedObjectsProofs` | the three above, one of which is in use | `object` |
| `LossyStream` | abstract: numbered samples, some lost, the rest handed to a client once and in order, and by it to the broker at least once while it keeps them, repeats and late ones included | `taken`, `sent`, `unsettled`, `arrived` |
| `TaskPipeline`, `TaskPipelineProofs` | `iot_tasks.c`, the part of `app_main` that starts it, `gpio_isr`, the BLE and MQTT callbacks that send commands, `mqtt_pump`, and the esp-mqtt client (external) that repeats what is not acknowledged | `main` is the next statement of `app_main`, `at` of each task; queues are atomic FIFOs, as `HostQueue` entitles them to be |
| `NetLink`, `NetLinkProofs` | `iot_wifi.c`, `mqtt_event`, the network part of `app_main` | three threads; `todo[t]` holds the statements left of the handler thread `t` executes, so that handlers interleave statement by statement; driver and client library around them are external |
| `ConfigStore`, `ConfigStoreProofs` | `iot_config.c`, `iot_provision.c`, the platform use cases that save | NVS entry by entry, the cache, one save in progress at `key`; `PowerCut` between any two steps; NVS may refuse to open for a load or a save, to give an entry (`Loads`, `blind`) and to take one (`missed`) |
| `CommandPath` | what a message reaches: hook of the product, `iot_services_handle_command`, `iot_security_validate_command`, `iot_uc_dispatch_command` | no state; a message is a sequence of keys and values, `Handle` says what the code's searches for words make of it, `Meant` what its keys say of a `Plain` message, one whose values are none of the words |
| `Commissioning`, `CommissioningProofs` | `iot_ble.c` around `CommandPath`: host, callbacks, command queue, command task, a phone, the cloud, the power | `main`, the link and advertising state, `command_q`, NVS in the order `iot_config_save` writes it, which never refuses here |
| `Update`, `UpdateProofs` | `iot_ota.c`, `iot_wdt.c`, `wdt_task`, the part of `app_main` that subscribes and confirms; an image that cannot boot may stop before the subscription too | two slots with an image each, `s_state`, the OTA tasks and their next statement, the watchdog's clock per subscriber |
| `CommandTask` | how a sample and a command interleave on a product's variables: `iot_services.c`, `iot_uc.c`, the loop of `cmd_task` | `todo`, the statements left of the command |
| `Machine` | state part of `iot_uc_industrial.c` | reading, limits, state, `ack_needed` |
| `Vibration` | predictive part of `iot_uc_industrial.c` | effective vibration, peak, health |
| `Irrigation` | agriculture part of `iot_uc_field.c` | soil, inhibition, pump and PWM duty |
| `EnergyMonitor` | `iot_uc_energy.c` | limits exceeded, alarm, LED |
| `ColdChain` | cold chain part of `iot_uc_field.c` | temperature, door, alarm, acknowledgement |
| `WaterMeter` | `iot_uc_water.c` and its profile | pulse counter, meter, valve register and valve pin, tamper latch; `Sample` in one step, commands statement by statement |
| `Charger` | EV part of `iot_uc_ev_auto.c` | charging state, session, fault |
| `CanGateway` | automotive part of `iot_uc_ev_auto.c` | last identifier, decoded signals, bus-off count, trouble code |
| `Tracker`, `Robot` | tracker and robot parts of `iot_uc_field.c` | signal, motion, battery, fence; silence of the controller, emergency stop |
| `ProductLine`, `ProductLineProofs` | `iot_profile.c` | one of the ten products above, chosen at `Init` as the build does |

Each `MC…` module and its `.cfg` files instantiate one of these for TLC.
Definitions keep the names of the C functions and variables where the language
allows.  Definitions that precede a mapped one and carry the comment `mutant:`
are plausible bugs in that code; replacing the definition by its mutant makes
the property named in `PROJECT.json` fail, which shows that the property
depends on the code being as it is.

Composition: `TaskPipeline` uses the queues through their abstract behaviour,
which `HostQueue` is shown to implement; `SharedObjects` is the conjunction of the
three objects the repository builds itself, no call of which touches another.
`NetLink` is the part of `app_main` that `TaskPipeline` abstracts to `JoinWifi` and
`StartMqtt`; `ConfigStore` delivers the `provisioned` flag `NetLink` loads, and
`Commissioning` is where it comes from: there, a message passes BLE, the queue and
`CommandPath` on its way to the configuration, of which only network and flag are
kept.  The products extend `CommandTask`; `ProductLine` extends the ten
products, of which `profile` says which one runs.

What is one step: the chip has one core (`CONFIG_FREERTOS_UNICORE`,
`sdkconfig.defaults:13`) and the sensor task a higher priority than the command
task, and neither waits in the middle of a use case.  A sample is therefore one
step for the command task, while a sample may come between any two statements of
a command.  One `Tick` of `Update` is a round of `wdt_task`, 2 s, of which five make
the watchdog's 10 s.

## 3. Runs

| Run | Shows | Bounds, and why they are enough |
|---|---|---|
| `shared_objects` | the queue: conservation of slots and items, an intact ring, FIFO refinement, no lost wake-up; the event group refinement; the bus has one owner and is left as it was found; no deadlock | queue: 2 senders and 2 receivers on 2 slots, so there are more callers than slots and the ring fills, drains and wraps around, with two items to tell orders apart; events: 2 tasks, 2 flags (any and all differ), waits of at most 2 looks; bus: 2 users, plain and RS485 |
| `bus_timeout` (violation) | see findings | 3 users |
| `pipeline` | order and accounting of samples, commands find a handler, sampling stops, the stream refinement, a shutdown ends all tasks, queued samples move on | queues of length 1 overflow at once; 2 samples can be queued, held, dropped and repeated in every combination, with both unacknowledged at once, so that the first may be repeated after the second; two commands, one of them the shutdown |
| `pipeline_return` (violation) | the first task to return aborts a FreeRTOS system | 2 samples |
| `net_link` | published link and session state, reconnection | 6 failures, refused attempts among them, drive `s_backoff_ms` through its whole range and past its bound; one restart at any point |
| `net_provision` (violation) | see findings | |
| `config_store` | cache coherence, the flag, untouched fields | 2 networks, periods and clouds, to tell old from new; two troubles, each a cut, a namespace that does not open for a load or a save, or an entry that cannot be read or written: so the boot after a cut is cut again, a refused load is followed by a refused entry of the save it feeds, and a cut by a boot that cannot read what it left |
| `commissioning` | the device stays reachable, the phone reads back the truth, messages reach the handler their keys name, a phone that insists succeeds | a queue of 2 that fills; 2 faults (failed start of advertising, lost link, power cut, message of the cloud) in every combination; networks with an ordinary name, one named `uc`, one that contains the word the product's hook looks for |
| `products` | alarms, pump, light, valve, session and heartbeat under samples between the statements of commands | readings and limits on 3 levels, below, between and above; a pulse counter that wraps at 3 with at most 2 pulses between samples, 4 pulses: it wraps once and the distances on both sides of a wrap differ; one command that gives the meter a count, the highest or none; 2 sessions, 1 bus-off; a heartbeat missed after 2 silent samples whose age wraps at 5; one command at work at a time, as in the code, any number of them in a row |
| `products_latch` (violation) | see findings | |
| `update` | from an image that cannot boot the next restart goes back to one that can, unless an operator confirmed it; an update never stays busy; a working image comes back, unless the image stops before anything watches it (`StoppedUnwatched`) | 2 OTA tasks at once, any number of power cuts, a watchdog of 5 ticks (its 10 s), images that boot and images that stop anywhere from NVS to the links |
| `update_soak` (violation) | see findings | |

Deadlock is checked except in the pipeline runs, where all tasks may have
returned and no pulse source be attached, and in `commissioning`, where the phone has
what it wants: there the system really stops.  In `config_store` the symmetry of
the networks is used; no property of that run is temporal.

### Fairness

- `HostQueue`, in `SharedObjects` when the queue is the object: weak fairness of
  every thread's next step (the scheduler), strong fairness of taking the mutex
  (the kernel queues its waiters in order), and receivers that call again, as
  `proc_task`, `cmd_task` and `mqtt_pump` do in endless loops.  No sender is
  obliged to send.
- `TaskPipeline`: weak fairness of boot, of each task, of the pump.  Every task
  blocks in each round, so lower priorities get their turn, provided that
  interrupts come at a rate the sensor task keeps up with.  Pulses and commands
  are not obliged to come.
- `NetLink`: weak fairness of the three threads, of the event loop and of the
  network's answers; failures are finite in number.  Nobody is obliged to
  provision or restart the device.
- `Commissioning`: the device boots and its host and command task take their next
  step; the phone, of which `Commissioned` speaks, connects when it can, writes
  and reads again.  Faults and the cloud are not obliged to happen.
- `Update`: the clock ticks, the watchdog panics when it has expired, `app_main` and
  the OTA tasks take their next step.  Commands and power cuts are not obliged to come.
- `ProductLine`: samples recur, since `sensor_task` ignores the result of its wait,
  which ends after 200 ms (`iot_tasks.c:65`), and a command that has begun goes on.
  `beat` changes with every sample, so that one that changes nothing else is a step
  all the same.  No command is obliged to come.

## 4. Proofs

TLAPS proves, for all values of the constants that satisfy the modules' assumptions:

- `HostQueueProofs`: `QueueInv` is inductive, hence `ClaimsNeverLost`,
  `RingStaysIntact`, and `QueueImplementsFifo`.
  The claims are counted by the step threads are at, and a step moves one thread
  from one counted set to the next (`CountsOfMove`).
  Neither count nor ring is inductive alone: that `CopyIn` does not overwrite an
  item needs a free slot, which follows from the slots' count with the thread
  itself among the claimants (`RoomAhead`), and dually for receivers
  (`ItemAhead`).  The refinement takes effect when head or tail moves; a
  timeout maps to a refusal because the counts turn an empty semaphore into
  calls of other threads in progress.
- `SharedObjectsProofs`: `HostEventIsEventGroup`, the group being what both ports promise.  A call of the event group takes effect at the
  store, or at the load of a wait that finds what it wants; between the two the word
  does not change, because the task holds the mutex (`WordGuarded`).  `BusInvariant` is inductive, hence `BusStaysOwned` and
  `BusAlwaysReleased`, for any number of users: as long as no wait has run out,
  the user on the bus is the one that holds the lock, and while nobody is on it
  the transceiver is released.  A behaviour of `SharedObjects` is one of the queue, of
  the event group and of the bus (`SharedObjectsAreTheirs`), so that all six promises
  hold of what the run checks (`SharedObjectsKeepTheirPromises`).
- `TaskPipelineProofs`: `PipelineInv` is inductive, hence `SamplesInOrder`,
  `SamplesAccounted`, `CommandsHeard`, `SamplingStopsSoon`, and
  `PipelineIsLossyStream`: once and in order to the client, at least once from there to
  the broker.  The queues and the hands of the tasks are one
  sequence, `Line`; every step moves a sample along in it without changing it,
  appends a new number, or removes one (`LineStep`), and each of the three
  keeps order and accounting.  `HandsMatch`, `BootOrder`, `RoundOpen`,
  `HandlerFirst` and `LastRound` say what control must be like for that.
- `NetLinkProofs`: `NetInv` is inductive, hence `NetTypes` and `LinksAreKnown`, for any number
  of failures and restarts.  What is left of a handler (`todo`) is one of fifteen remainders.
  The driver moves only when `esp_wifi_connect` is called, and a call is due, in the
  handler at work or in that of the last event that waits, exactly while the driver is
  idle (`IdleInv`); so at most three events wait, and the last one, or the handler at
  work, tells what the driver has come to (`JoinInv`, `JoinedInv`, `AddressInv`).  The same
  holds of the session and the remainder of `mqtt_event` (`SessionInv`).
- `CommissioningProofs`: `DeviceStaysReachable`, `ReadBackIsTrue` and `MessagesAreRouted`, for any queue,
  messages, names, words of a hook and number of faults.  The first needs `AirInv`, that the host is
  synchronised, connected or advertising in step with what `gap_event` has still to
  do; the second `StoreInv`, that the text the phone reads is written from the same
  structure as NVS.  The third is about operators only: a word is found in a plain message
  iff it is one of its keys (`WordIsKey`), and what follows it is then its value
  (`AfterIsGiven`).  It is false of a text that is no JSON and contains the hook's
  word, because the hook looks before `iot_security_validate_command` does; `Plain` says so.
- `ConfigStoreProofs`: `StoreInv` is inductive, hence `StoreTypes`, `CacheStaysCoherent`,
  `FlagKeepsItsWord` and `OnlyAskedChanges`, for any networks, periods, clouds and any number of
  power cuts and refusals of NVS to open, to give or to take an entry.  The three follow
  from `Progress`, which says, while a save is at `key`, which entries hold the new
  structure and which still the old; and from what a load gives (`LoadGives`): the stored
  value of every field that was read, so that only the fields of `blind` can be written
  over by a structure that never had them.
- `UpdateProofs`: `UpdateInv` is inductive, hence `BadImageCanGoBack` and
  `UpdatesEnd`, for any number of OTA tasks.  `WayBack` needs `Booted`, that
  `app_main` gets past the links, and so to its confirmation, only in an image that can boot,
  and `Kept`: the slot that runs holds an image, and while it is not confirmed the other one
  is not touched, because `esp_https_ota_begin` refuses in an unconfirmed image and no
  task can be past it; `NeverStuckBusy` needs `AtWork`, that the
  state and the bit are set only while some task will still change them.
- `ProductLineProofs`: `ProductInv` is inductive, hence `TamperSeals`, `RegisterIsTrue`,
  `BurstStaysShut` and `BillIsFair` of the water meter, `InhibitionHolds` of the
  irrigation and `ChargeIsAccounted` of the charger, for any factors, any width of
  the pulse counter above the pulses between two samples, and any set of products.  The
  properties speak of a device with no command at work.  `WaterScript`, `PumpScript` and
  `ChargeScript` list what can be left of a command otherwise, and `ValveInv`,
  `Inhibited` and `Charged` say for each remainder what its next statements still put
  right: a register that says open under a latched tamper, for instance, has `Shuts`
  left.  The bill needs `BillInv`: the last count is the counter at the last sample, until a
  command puts the meter elsewhere; from then on the bill is one round too high at most
  (`Fits`), with what the rest of that command will add (`Adds`).
  `NoFaultIsSpurious` of the machine comes from `MachineScript`: the limits that `set_limits` has
  not stored yet are the old ones, and the others are those it will leave.  `ProductTypes`,
  that all ten products keep their variables in range, needs no scripts: what is left of
  a command is a sequence of statements whose values are in range (`VibrationStatements`,
  `WaterStatements` …), and a step drops the first or puts others of them in its place
  (`NextStatement`).  It assumes of the bounds `MaxSession` and `MaxBusOff` only that they
  leave room for one session and for none.

Every safety property the passing runs check, their type invariants, action properties
and the three refinements among them, is proved.  Not proved, and checked by TLC
only, are the liveness properties (`CallsProgress`, `OrderlyShutdown`, `SamplesMove`,
`ServiceReturns`, `Commissioned`, `Recovers` and those of the products): fairness and `ENABLED` are out of the
prover's reach, and so is the absence of deadlock.

## 5. Findings

1. `pipeline_return`: task functions return on a shutdown, which FreeRTOS
   forbids; "orderly task shutdown" (`iot_uc.c:38`) ends at the first task.
2. `net_provision`: commissioning over BLE sets flags but nothing starts Wi-Fi
   until the next restart (`tests/integration/README.md:7` expects an address).
3. `update_soak`: the task that subscribes to the watchdog is `app_main`'s, which never
   resets it, and the tasks that reset it have not subscribed; 10 s after the boot
   a healthy device restarts (`docs/guides/test-plan.md:30` expects none in 24 h).
4. `products_latch`: a vibration overwrites a latched FAULT with WARN, and the next
   sample with RUN, without the acknowledgement `iot_uc.c:56` speaks of.
5. `bus_timeout`: a UART write whose last byte does not leave in time reports success
   and releases the driver enable while bytes leave (`iot_uart.c:92`);
   `components/iot_drivers/README.md:21` says the error is `IOT_ERR_IO`.

Seen while modelling, without a run:

Tasks and drivers

- `app_main` starts the tasks (`main/main.c:95`) before it installs the hooks
  (`:102`); `iot_hooks.h:5` says the hooks are installed before.
- No driver looks at the result of its lock, so that after a timeout two tasks are
  on the bus; `iot_uart_read` takes no lock at all, and `iot_gpio_toggle` reads
  and writes under two.
- A wait for event bits that times out returns 0 on Windows (`iot_rtos.c:696`) and the bits
  that are set on FreeRTOS (`:284`), and setting bits wakes several clearing waits with
  one word there, one of them here; `app_main`, the only caller, tests its bit.
- Telemetry is published with QoS 1 (`iot_mqtt.c:183`) and carries no number or time: what
  the client repeats looks like new data.
- An image that stops in the drivers or finds NVS unusable, before `main/main.c:80`, is not
  watched: the bootloader goes back only when somebody restarts the device.
- The host event group is polled every 5 ms: a bit set and cleared between two looks
  is missed by a wait.  The POSIX one sets and clears without a lock.

Network and commissioning

- Attempts to join are at most 50 ms apart whatever the backoff is
  (`iot_wifi.c:72`), while the operator is told 1 s to 30 s (`iot_uc_platform.c:177`).
- The result of `esp_wifi_connect` is ignored (`iot_wifi.c:73`): an attempt the driver
  refuses is followed by no event, and the device stays offline.
- Advertising that fails to start is not tried again until the device restarts
  (`iot_ble.c`): the calls come from the host's events, of which there are then none.
- A write is acknowledged to the phone although `command_q` is full (`iot_ble.c:130`),
  and the `prov=1` that is read back may be of an earlier commissioning.
- A network named `uc`, or whose name contains the word the product's hook looks for,
  cannot be commissioned: the message goes to that handler.  The address of an
  update is the first `https://` in the message, whatever its key.
- An MQTT message is taken for a commissioning by its third character
  (`iot_services.c:54`).
- The documented key `cloud` (`iot_provision.c:7`) of the commissioning JSON is never
  read (`:71`).  An empty `ssid` takes the flag away.
- A read-only open of NVS that fails at boot for another reason than an empty namespace
  gives `app_main` the defaults (`iot_config.c:104`), which it takes for those of a new device
  and saves over every entry (`main/main.c:89-92`).
- A factory reset that is cut after the network name leaves the flag set without a
  network (`iot_uc_platform.c:25`).

Use cases

- `sample_ms` is stored and reported, and nothing samples by it; flow and energy take
  a sample for a second (`iot_uc_water.c:78`, `iot_uc_energy.c:83`) while the sensor
  task samples every 200 ms or sooner.
- `energy.calibrate` stores the scale factors before it checks their range
  (`iot_uc_energy.c:194`).
- The energy a sample adds is lost when it comes between the read and the store
  of a command that adds too; the same holds of the billed volume, and a peak of
  the vibration can be overwritten by a smaller one.
- `water.meter` with a count of its own, or none, makes the meter bill again from there
  (`iot_uc_water.c:75`).
- The next sample clears a fault an EV command has set (`iot_uc_ev_auto.c:63`),
  although `iot_uc.c:80` calls it latched.
- The automotive sensor takes a frame's identifier from one byte, so that none is ever
  in the range 0x100 to 0x7FF that the filter accepts.
- What a command tells the tracker is overwritten by the next sample, and the fence
  is judged by commands only.
- A second `iot_ota_start` before the first task has set the state overwrites the
  address the first one is about to use (`iot_ota.c:102`).

## 6. Not modelled, and the plan

Left out for good: board, logging, PWM and timer drivers (calls of the vendor's
libraries), diagnostics counters (an increment may be lost, and nothing depends on
them), floating point (the runs see the comparisons the code makes, not the
values), text beyond the words the code looks for, the POSIX port (stubs without
timeouts), software timers, and the functions nothing calls (`iot_wifi_stop`,
`iot_mqtt_stop`, `iot_ble_stop_advertising`, `iot_wdt_deinit`, `iot_queue_delete` …).

Next: the tracker's and the robot's alarms with the fields the runs abstract, and
what a sample that follows a command puts right, which the liveness properties of the
products state, as invariants of the remainders a command can have.
