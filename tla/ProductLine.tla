----------------------------- MODULE ProductLine -----------------------------
(***************************************************************************)
(* A device built for one of the products (CONFIG_IOT_PROFILE_...): the    *)
(* profile's sensor hook runs on the sensor task, its command hook on the  *)
(* command task (components/iot_profiles/src/iot_profile.c).  The commands *)
(* of a product are those of its own use cases: one for another product    *)
(* runs too, on variables that nothing else on the device looks at.        *)
(***************************************************************************)
EXTENDS
  Machine, Vibration, Irrigation, EnergyMonitor, ColdChain, WaterMeter, Charger, CanGateway,
  Tracker, Robot

CONSTANT Profiles   \* the products to build

VARIABLES
  profile,
  beat   \* history: changes with every sample

vars ==
  <<profile, beat, todo, machine, vibration, irrigation, energy, cold, water, charger, can, tracker, robot>>

Init ==
  /\ profile \in Profiles /\ beat = FALSE /\ todo = <<>>
  /\ MachineInit /\ VibrationInit /\ IrrigationInit /\ EnergyInit /\ ColdInit
  /\ WaterInit /\ ChargerInit /\ CanInit /\ TrackerInit /\ RobotInit

\* Nothing of the products the device was not built for changes.
Only(built) ==
  /\ profile = built /\ UNCHANGED profile
  /\ built # "industrial" => UNCHANGED machine
  /\ built # "predictive" => UNCHANGED vibration
  /\ built # "agriculture" => UNCHANGED irrigation
  /\ built # "energy" => UNCHANGED energy
  /\ built # "coldchain" => UNCHANGED cold
  /\ built # "water" => UNCHANGED water
  /\ built # "ev" => UNCHANGED charger
  /\ built # "automotive" => UNCHANGED can
  /\ built # "tracker" => UNCHANGED tracker
  /\ built # "robotics" => UNCHANGED robot

\* The hook of the product: what a sample makes of its variables.
SensorHook ==
  \/ MachineSample /\ Only("industrial")
  \/ VibrationSample /\ Only("predictive")
  \/ IrrigationSample /\ Only("agriculture")
  \/ EnergySample /\ Only("energy")
  \/ ColdSample /\ Only("coldchain")
  \/ WaterSample /\ Only("water")
  \/ ChargerSample /\ Only("ev")
  \/ CanSample /\ Only("automotive")
  \/ TrackerSample /\ Only("tracker")
  \/ RobotSample /\ Only("robotics")

\* sensor_task calls the hook on every pulse and after 200 ms without one.  A sample
\* that finds everything as it was is a step too, as fairness needs it to be; the
\* water meter, of which no liveness is asked, is spared the second copy of its states.
Sample ==
  /\ SensorHook
  /\ beat' = IF profile = "water" THEN beat ELSE ~beat

\* A message that names one of the product's use cases.
CmdHook ==
  \/ MachineCommand /\ Only("industrial")
  \/ VibrationCommand /\ Only("predictive")
  \/ IrrigationCommand /\ Only("agriculture")
  \/ EnergyCommand /\ Only("energy")
  \/ ColdCommand /\ Only("coldchain")
  \/ WaterCommand /\ Only("water")
  \/ ChargerCommand /\ Only("ev")
  \/ CanCommand /\ Only("automotive")
  \/ TrackerCommand /\ Only("tracker")
  \/ RobotCommand /\ Only("robotics")

\* A statement of the use case at work.
UseCase ==
  \/ MachineStep /\ Only("industrial")
  \/ VibrationStep /\ Only("predictive")
  \/ IrrigationStep /\ Only("agriculture")
  \/ EnergyStep /\ Only("energy")
  \/ ColdStep /\ Only("coldchain")
  \/ WaterStep /\ Only("water")
  \/ ChargerStep /\ Only("ev")
  \/ CanStep /\ Only("automotive")
  \/ TrackerStep /\ Only("tracker")
  \/ RobotStep /\ Only("robotics")

\* cmd_task
Command == CmdHook /\ UNCHANGED beat
CommandStep == UseCase /\ UNCHANGED beat

\* An interrupt of the pulse input, which the water meter counts.
Interrupt == Pulse /\ Only("water") /\ UNCHANGED beat

Next == Sample \/ Command \/ CommandStep \/ Interrupt

\* Samples recur, whatever the pulse source does, and a command that is at work goes on.
Spec == Init /\ [][Next]_vars /\ WF_vars(Sample) /\ WF_vars(CommandStep)

\* Every variable has a value the code can give it; no command is longer than its statements.
TypeOK ==
  /\ MachineTypeOK /\ VibrationTypeOK /\ IrrigationTypeOK /\ EnergyTypeOK /\ ColdTypeOK
  /\ WaterTypeOK /\ ChargerTypeOK /\ CanTypeOK /\ TrackerTypeOK /\ RobotTypeOK
  /\ Len(todo) <= 5

\* What is shown and driven is put right again and again by the next sample, after
\* a command's stores that samples came between: the pump's output, the light of
\* the energy alarm, the health of a machine.
OutputsCatchUp ==
  PumpSettles /\ LedCatchesUp /\ []<>(profile = "predictive" => HealthIsOfNow)

\* SilenceReported, of a device that is a robot's gateway.
SilenceAlarms == profile = "robotics" => SilenceReported
=============================================================================
