# Verification of codyco-modules

codyco-modules is a collection of YARP programs and devices for whole-body
control of a humanoid robot. Most of its lines are numeric (dynamics, filters,
optimisation); what is hard to test in it is the part around the numbers:
periodic threads, ports whose callbacks run in threads of their own, commands
that switch a running controller, calibrations that a client starts and a
periodic thread carries out. This directory models that part in TLA+, checks it
with TLC on small instances and proves the main results with TLAPS for all of
them.

Paths below are relative to the repository's `src/`.

## Inventory

| part | state | operations | interaction | hard because |
|---|---|---|---|---|
| `modules/torqueBalancing`: activation and control loop | active flag of the module, of the controller and of each generator; measured pose; reference and published value of each generator; control mode of the robot; `m_mutex` of the controller | `start`, `stop`, `quit` (RPC), autostart, close; `run` of the controller (a RateThread), which stops everything when the robot fails; `run` of each generator (RateThreads); streamed references | controller calls back the module (`controllerDidStop`) with its mutex held; generators publish `Reference`s the controller reads; port threads write references | five threads, flags tested and set without a lock, a callback under a mutex |
| `modules/torqueBalancing`: gains, contacts, life cycle | gains and their copies linked to the parameter server, torque gains of the boards, set of constraints and their weights, what configure has made so far | `configure`, `close`, `cleanup`, parameter updates, messages that add and remove contacts | RPC thread, port callback, controller thread | ports that serve before configure has ended and after cleanup has begun, two writers of the linked variables |
| `modules/wholeBodyDynamicsTree` | mode, samples requested and used, flags and sums of the sensors, base of the model, offsets and their smoothing, fixed link in three objects, contacts, `run_mutex`, `calibration_mutex` | `calib`, `calibStanding`, `calibStandingLeftFoot`, `calibStandingRightFoot`, `resetOffset`, odometry commands, `quit`; `run` | RPC threads wait for the estimation thread through a mutex it unlocks; main thread or RPC thread closes | two mutexes, early returns, waiting for another thread, a life cycle ended from two sides |
| `devices/wholeBodyDynamics` | settings, calibration buffers, valid offset, raw and filtered measures, default contacts and those read from the skin | calibration commands, settings port, open, attachAll, detachAll; `run` | RPC and settings ports, remapped control boards | one mutex not taken everywhere, stop of the thread with the mutex held, refused commands with side effects, a buffer shared by sensors |
| `idl` | marks of the edited settings, patches and answers under way | stubs, servers, editors | generated code between clients and devices | commands matched word by word, connections that break, patches read piece by piece |
| `devices/jointTorqueControl` | which joints are hijacked, references and gains, mode of the proxied control board | control mode and torque interfaces; `run` | a proxy in front of a control board other clients may use | guards that are temporaries, mode changes the proxy refuses, two owners of the control mode |
| `devices/floatingBaseEstimator` | fixed and world link, whether the odometry is configured | open, attachAll, `run`, RPC commands, detachAll, close | one mutex for three threads | detach holds the mutex it waits for |
| `devices/virtualAnalogRemapper`, `virtualAnalogClient` | map of the axes to the devices, their buffers | attachAll, detachAll, updateMeasure | the remapper calls the clients | two ways to update a device, chosen once |
| `modules/walkPlayer` | list of steps, rows for torqueBalancing, index, status | `start`, `stop`, `reset` (RPC); `run` | RPC thread and player thread under one semaphore | return with the semaphore taken, rows and steps that must stay aligned |
| `modules/torqueBalancingReferencesGenerator` | lists of set points by time | `configure`, `updateModule` | streams to torqueBalancing | empty lists, boundaries of the intervals, late updates |
| `modules/torqueGraspManager` | state of the grasp, arm in use, timers, hands | `run`, `start`, `stop` | RPC thread and periodic thread under one mutex | a pipeline of methods that all change the state |
| `modules/reachRandomJointPositions` | list of positions, next one, time at it | `configure`, `updateModule`, interrupt, close | flags for a fitting program | several pieces of state that advance in different updates |
| `modules/codycoTrajGenDemoY2` | references of each part, split in joints in position and in torque control | callback of the references, RPC, `updateModule`, close | three threads without a lock | callbacks before and after the life of what they use |
| `modules/wholeBodyEstimator` | the estimators, their ports and measures | create, init, run, release | filters read a port of the odometry and of a board | order of names, blocking reads |
| `modules/eventRepeater`, `graspAndStepDemo`, `quaternionEKF`, `icubWalkingIK`, `wholeBodyDynamics3`, `libraries/ctrlLibRT`, `devices/genericSensorClient` | | | | see "Not modelled" |

What makes each part correct:

* torqueBalancing: torques are written only in torque control; a start discards
  what earlier sessions left; all threads end up in the state last asked for;
  every command is answered; contacts move gradually, and a lifted foot carries
  nothing; close leaves the robot as it found it.
* wholeBodyDynamicsTree: an offset is the average of exactly the samples asked
  for, of the sensors asked for, on the link asked for; a command is answered
  when its calibration is over, and says whether it was done; the estimation
  always resumes; a new offset comes into use gradually and completely; the
  three objects that keep the fixed link agree; every subtree has a contact.
* wholeBodyDynamics: the same for calibrations that do not wait; attach and
  detach always end; measures are fresh, numbers, and of the right sensor; every
  submodel has a contact; an edit of the settings is sent once and whole.
* jointTorqueControl: a joint is driven only while it is hijacked because of a
  torque mode request, and never by a reference of an earlier one.
* floatingBaseEstimator: poses rest on links of the model, as last asked for.
* remapper: an estimate reaches the device that has its axis, in one message.
* walkPlayer: the row sent with a step is the one of that step; commands always
  get the semaphore.
* references: in order, none before its time, none skipped.
* grasping: one arm away from home at most, no hand left closed, stops count.
* mapping: all positions visited, at rest when measured.
* coordinator: nothing used outside its life; both halves of a part agree.
* estimators: start in any order of their names, use what the board sent.

## Modules

| module | models |
|---|---|
| `BalancingSwitch` | abstract specification: what the torqueBalancing controller promises about the robot's control mode |
| `TorqueBalancing` | `setControllersActiveState`, `TorqueBalancingController::run` and `setActiveState`, `ReferenceGenerator::run`, `setActiveState`, `setSignalReference`, the streamed references |
| `BalancingModule` | configure, close and cleanup of torqueBalancing; contacts and their weights; gains |
| `FTCalibration` | calibration commands of wholeBodyDynamicsTree and the calibration in its `run` |
| `OffsetSmoothing` | `OffsetSmoother` of wholeBodyDynamicsTree, and the reset of an offset |
| `TreeOdometry` | life cycle of wholeBodyDynamicsTree, its odometry and the commands that move it |
| `TreeContacts` | subtrees and skin contacts of wholeBodyDynamicsTree |
| `DeviceCalibration` | attachAll, detachAll, the calibration commands and `run` of the wholeBodyDynamics device |
| `DeviceEstimation` | open and attachAll of the device step by step, the reading of the sensors, the kinematic source, the settings |
| `ContactPoints` | default contacts and skin contacts of the device |
| `SettingsEditor` | the generated Editor of the settings, on both sides of its port |
| `RemoteCalls` | the generated RPC stubs and servers |
| `JointTorqueControl` | the jointTorqueControl device and the board it stands in front of |
| `FloatingBase` | the floatingBaseEstimator device |
| `VirtualAnalog` | virtualAnalogRemapper and its clients |
| `GraspManager` | the thread of torqueGraspManager and its commands |
| `WalkPlayer` | the thread of walkPlayer and its commands |
| `ReferencesGenerator` | torqueBalancingReferencesGenerator |
| `GridMapping` | reachRandomJointPositions |
| `Coordinator`, `JointSplit` | codycoTrajGenDemoY2: the module, and the loop that splits the joints |
| `WholeBodyEstimator` | wholeBodyEstimator around its filters |
| `Applications`, `Devices` | the other components put side by side, eight and nine of them, with the assumptions on their constants and the properties of their runs |
| `TorqueBalancing_proofs`, `FTCalibration_proofs`, `DeviceCalibration_proofs`, `JointTorqueControl_proofs` | inductive invariants and theorems of the modules of these names |
| `Applications_proofs` | those of `GraspManager`, `BalancingModule`, `GridMapping`, `WholeBodyEstimator` |
| `References_proofs` | those of `Coordinator`, `JointSplit`, `WalkPlayer`, `ReferencesGenerator` |
| `Measures_proofs` | those of `ContactPoints`, `TreeContacts`, `DeviceEstimation`, `VirtualAnalog`, `OffsetSmoothing` |
| `Devices_proofs` | those of `FloatingBase`, `TreeOdometry`, `SettingsEditor`, `RemoteCalls` |
| `MCTorqueBalancing`, `MCFTCalibration`, `MCDeviceCalibration`, `MCJointTorqueControl`, `MCApplications`, `MCDevices` | instances for TLC |

In every module an operator described as a wrong variant stands before the
definition it is a variant of: it says what a plausible mistake in that code
would be, and is used nowhere in the specification. Each property of a run, and
each conjunct of those of `applications` and `devices`, fails when the definition
is replaced by one of its variants: `PROJECT.json` and the table of conjuncts
below say which.

`Applications` and `Devices` put components together that do not interact:
a behaviour chooses one of them (`which`) and is a behaviour of its
specification; the others stay in an initial state. Each component is an
INSTANCE whose constants and variables are those of the component with a prefix
(`grid_config` is `config` of `GridMapping`). The properties group those
of the components by what would go wrong: the invariants are the components'
ones under `which`, each with the type invariant of its component, and the
liveness properties assume the component's own fairness (`<component>Fairness`).
Nothing is composed by this, it only saves runs; `MCApplications` and `MCDevices`
give the constants their values and, for TLC, leave the components that are not
chosen in one of their initial states. Where components do interact, the interaction is in the
module: controller, generators and callers in `TorqueBalancing`; client, port
and server in `RemoteCalls`; both ends of a patch in `SettingsEditor`; the
proxy, the board behind it and its other clients in `JointTorqueControl`;
remapper and clients in `VirtualAnalog`; odometry, thread and estimator in
`TreeOdometry`; sensors, settings port and periodic thread in
`DeviceEstimation`; filters, odometry and board in `WholeBodyEstimator`.

### TorqueBalancing

`Callers` are the threads that call `setControllersActiveState`: the RPC thread
and the main thread (autostart in `configure`, `close`). `Controller` is the
controller's RateThread; it calls the same function from `run()` when the robot
fails, so the actions of that function are parameterised by the thread. The
location of each thread is `pc`; a call goes through `check`, `assign`,
(`measure`,) `capture`, then for each task `generator` and `signal`, then
`state`, `compare`, `lock`, `mode`, `flag`, one action for every access to state
that another thread can change in between. `m_active` of the module is read four
times by the code (lines 578, 598, 599 and 616 of `TorqueBalancingModule.cpp`);
598 and 599 are one step here, as nothing separates them that could matter to
the order of the two generators, which are switched one after the other anyway.

Sections under a generator's mutex are one step; the mutex of the controller is
the variable `mutex`, because it is held over a whole control cycle. `run()` is
split into its critical reads: `isValid()` and `value()` of each reference,
`updateRobotState` with the check of the joint limits, and the writing of the
torques. A pose is abstracted to its origin (zero, the reader, the measurement
of a start, a user) and the session it belongs to: that is what the properties
tell apart. A generator's output is taken to be a function of its reference.

Abstracted: the values of forces and torques and the smoothing of references;
the gains and the set of contacts are in `BalancingModule`. `StreamedTasks` says which references somebody
streams, `RobotMayFail` whether cycles may fail, `MaxSessions` bounds the
starts.

### FTCalibration

`Clients` are the threads of the RPC port (`attachAsServer` on a port: one
thread for each connection). `run` is one step, as it never waits while it holds
`run_mutex`; a client does wait, for `calibration_mutex`, with `run_mutex` held,
so the holder of `run_mutex` is a variable. `calibration_mutex` is unlocked by a
thread that did not lock it; the model keeps only whether it is locked, as for a
binary semaphore. The initial state is the calibration of all sensors
`threadInit` starts. Sums of samples are counted (`buffer`), and an offset is
the pair of the samples summed up and the number they were divided by.

`smooth_calibration` is in `OffsetSmoothing`; the odometry, the start and the end
of the module are in `TreeOdometry`.

### DeviceCalibration

Three kinds of threads share `deviceMutex`: the one of yarprobotinterface
(`driver` says how far it has brought the device), the device's RateThread
(`thread`: off, asleep, or awake and about to lock), and `Clients`, one for each
connection of the RPC port. `run` and the RPC methods wait for nothing while
they hold the mutex, so each of them is one step taken when it is free.
`detachAll` waits for others with the mutex held, and is three steps (`Detach`,
`Stop`, `Close`). `attachAll` holds it while it reads the sensors, as long as one
of them does not answer: `AttachReads` takes the mutex, `Attach` and
`AttachFails` release it, and no fairness makes them happen. The RPC port is open
since `open`, so commands may wait for all this time. That `stop()` waits for the thread and `rpcPort.close()` for
the commands being served is YARP's behaviour, not this repository's.

A calibration of the device is always of all sensors, so one offset stands for
those of all `ftProcessors`. Its value is not modelled, only where it comes
from: the contacts assumed for each sample (`assumedContactLocationsForCalibration`
at the time), the number of samples, the divisor, the command it was computed
for, and how many samples there were when a command was first refused meanwhile
(`refusedAt`): the contacts are cleared by a refused command, so the samples after
it are taken with none, and `OffsetOfItsCommand` says how many of the average are
of each kind. The steps of `run` are `Estimate`, `Sample` and `Complete`, which differ in
what `computeCalibration` does; each ends with `Publish`, for which the offset
removed from the measures is the one from before `computeCalibration`. The
low-pass filters, the estimator (it may fail), the contacts read from the skin
and the settings are left out: they are in `ContactPoints` and
`DeviceEstimation`. Commands name frames of `Frames`, which the model of the robot
(`KnownFrames`) need not have.

### BalancingModule

The main thread goes through the steps of `configure` (`Making`) and of `close`
and `cleanup` (`Undoing`); `plan` says which step fails, if any. The RPC port
and the constraints port serve from the middle of configure to the middle of
cleanup; what they use before it is made, or after it is deleted, is recorded in
`misuse`. The switch of the controllers, which `TorqueBalancing` takes apart, is
one step. `syncLinkedVariables` and a command that sets a gain are several steps
each, as both write the linked variable without a lock. The minimum jerk
transition of a contact is a weight that moves by one step per control cycle
while the controller is active. A stop between two cycles stops the transition.

### OffsetSmoothing

One component of the offset of one sensor. Time is counted in ticks, with at most
`Late` of them between two runs of the thread; offsets are multiples of a unit
that makes all proportions integers: `Units` says what the unit is after each
number of calibrations, `Period` times finer with each of them.

### TreeOdometry

`config` holds what the configuration file says about the odometry; `phase` is
that of the thread; `ports` says which ports are open; `odometry`, `current` and
`estimator` are the fixed links of the three objects. `run` and the commands hold
`run_mutex` from beginning to end, so each is a step. The module is closed by the
main thread, or by an RPC thread that serves `quit`, or both. `named` and
`strayed` remember which links accepted commands named and whether a reset came
since the last change: the properties need them to say when they hold.

### ContactPoints and TreeContacts

Both read the last message of the skin in every run and add a default contact
where the skin gives none. They differ where a message has no contacts:
`TreeContacts` returns before it collects any. Links, frames and submodels are
names; a message is a set of links, with the number of taxels in `TreeContacts`.
Time is counted in runs. The loop of `ContactPoints` over the frames of the
configuration is an action for each of them (`ListFrame`), as each may take the
place that the next one would have had.

### DeviceEstimation

`open` is the list of its steps, one of which may be impossible. A measure is
known by the sensor it came from and its age. A reading (`readFTSensors`) is
stated by what each sensor answered: the buffer that all share holds what the
last sensor that answered left in it. `attachAll` tries to read the
sensors for ever, holding the mutex, as its time is counted in a `bool`. The RPC
commands change the settings under the mutex and validate a frame; the settings
port writes them field by field, without either: `edited` remembers its use.

### SettingsEditor and RemoteCalls

`SettingsEditor` has one structure, gravity, whose three pieces are sent and read
one by one, and fields of one piece. A patch is what its fields say and is read
in the order of its pieces. A patch may be lost, or refused half-way. In
`RemoteCalls` a command is a sequence of words and values. A word is the list of
its parts between capital letters: what matters for `readTag` is which names are
the beginning of others. Methods that a server does not override answer their
default.

### JointTorqueControl

Clients are the threads that serve the device's ports. The mutex is a variable
because the periodic thread holds it over several steps; a client's locked
section is one step. A method that says `LockGuard(this->globalMutex);` only
waits for the mutex. A reference is known by the session of its joint (the number
of times it was hijacked) in which it was written. Others may command the board
directly, and the board may refuse a mode. `setControlModes` of the whole board
uses a buffer shared by all clients, which is why `ReportsTheMode` assumes at
most one such client.

`Compute` is `computeOutputMotorTorques` without its numbers. The torque loop of a
joint is a term: its reference, and the references whose errors its integral has
summed, `integral`, which goes on for every joint in every run and is never reset.
The coupling matrices mix the terms of several joints into the output of one:
`Coupled` says of which, hijacked or not. A measure that is not a number makes
every output of this run zero (`nan = "once"`), or of every run from then on if it
is a torque, as it stays in the integral (`"kept"`). So what a joint is driven
with follows references of the last sessions of the joints coupled with it, and
that is what `DrivesOnlyTheHijacked` says; only the integrals may hold more.

### FloatingBase

`deviceMutex` is a variable because `detachAll` holds it while it waits. A
command that waits is `rpc`, a run that waits is `thread`.

### VirtualAnalog

The remapper chooses for each device between one message with all its channels
and one message per axis. A list of axes may name an axis twice, or not at all.

### GraspManager

`run()` is a pipeline of methods; the model is the composition of functions of
the same names over the record `m`. Inputs (targets, motion ended or not) come
from `Inputs`. Timers are what the tests of the code can tell apart.

### WalkPlayer, ReferencesGenerator, GridMapping

The steps, rows, set points and positions are numbered, and time is counted in
the unit of the list or in periods. `WalkPlayer` has the semaphore as a
variable, because a run over an empty sequence does not give it back.
`ReferencesGenerator` leaves the flags that no constructor sets undefined, and
stops (`undefined`) where the code would read past a list. `GridMapping` draws
the grid as the code does, in steps of half a range.

### Coordinator and JointSplit

A reference is known by the number of the message that brought it. `Coordinator`
takes the split of the joints as right, and `whole` says whether it leaves the
three joints of the torso in torque control: otherwise
`copyReferencesForTorqueOutput` sends zeros for the torso (`Copied`, `Zeros`). `JointSplit` is the loop that makes it,
for seven joints and every set of joints in position control.

### WholeBodyEstimator

The estimators are made, initialised, run and released in the order of a
`std::map`, which is alphabetical: `at` goes through the alphabet and stops at
the names that are listed (`From`). The ports between them are the set `open`. A
message of the board is a sequence of packages of six numbers, searched for the
board's id as the code does; a measure is the numbers last found and how often
they have been converted since.

## Runs

| run | instance | shows |
|---|---|---|
| `torque_single` | one caller, two tasks, both streamed, two sessions, no failure | `AllThreadsAgree`, `DiscardsOldReferences`, `PublishesCurrentSession`, `EventuallyStill` hold |
| `torque_fail` | one caller, two tasks, one streamed, two sessions, failures | `TypeOK`, `TorqueOnlyInTorqueMode`, `ModeMatchesController`, `ValidOnlyWhileActive` hold and the threads implement `BalancingSwitch` |
| `torque_two` | two callers, one task, one session, no failure | every call returns |
| `torque_still` | one caller, nothing streamed | violation of `StaysStill` |
| `torque_stuck` | one caller, failures | violation of `CallsReturn` |
| `calibration_safety` | two clients, two sensors, valid and refused commands | `TypeOK`, `AssertionHolds`, `OwnSamplesOnly`, `OnlyAskedSensors`, `RightBase` hold |
| `calibration_patient` | one client that sends accepted commands when no calibration is under way | `TrueMeansCalibrated`, `CallsReturn`, `EstimationResumes` hold |
| `calibration_refused` | refused commands, one at a time | violation of `CallsReturn` |
| `device` | two clients, two commands, frames known and unknown, none, two and a negative number of samples; attach, detach | `TypeOK`, `OffsetOfItsCommand`, `NoCompensationLeft`, `CalibrationsEnd`, `CommandsAnswered`, `DetachReturns` hold |
| `jtc` | two joints, one coupled with the other, two clients, three calls, one direct command, refusal or measure that is no number | the device drives what it has hijacked, with references of the last session, reports the mode it was asked for (`DrivesOnlyTheHijacked`, `DiscardsOldReferences`, `ReportsTheAskedMode`), answers, and reaches the board (`AnswersAndDrives`) |
| `applications` | one of eight components | `GraspIsSafe`, `BalancingIsSafe`, `ReferencesMatch`, `MeasuresAreUsable`, `NothingOutOfTurn`, `ApplicationsComplete` hold |
| `devices` | one of nine components | `MeasuresAreRight`, `EveryPartIsTouched`, `BothSidesAgree`, `LinksAreThoseAsked`, `NothingInTheMiddle`, `DevicesComplete` hold |

The conjuncts of the properties of the last two runs, each stated and commented
in the component's module, and in parentheses the wrong variant that breaks it.
`AnswersAndDrives` of `jtc` is `CallsReturn` (`LockOnlyKeeps`) and
`TorqueReachesTheBoard` (`SendToNone`).

| property | component | conjuncts |
|---|---|---|
| `GraspIsSafe` | `GraspManager` | `OtherArmAtHome` (`ChangeArmLate`), `ClosedOnlyToRelease` (`DoReleaseClosed`), `HomeWhenIdle` (`GetSensorDataTorsoOnly`), `BreathesOnlyAtRest` (`DoIdleAlways`) |
| `BalancingIsSafe` | `BalancingModule` | `LiftedFootIsUnloaded` (`ForcesKept`), `ClosedAtRest` (`RestoredNever`), `SetGainIsUsed` (`ParameterUpdatedKeeps`) |
| `ReferencesMatch` | `Coordinator` | `HalvesAgree` (`OnReadForgetsTorque`), `ComStartsWhereAsked` (`OnReadKeepsStart`) |
| `ReferencesMatch` | `JointSplit` | `KeepsTorqueJoints` (`EraseNext`), `SplitIsRight` (`KeepSkips`) |
| `ReferencesMatch` | `WalkPlayer` | `TorsoMovesAlone` (`HomeDoneOfLeg`), `StepsGoDirectly` (`RunStartHomeLegsOnly`), `RowsInStep` (`HomeDoneDropsRow`) |
| `ReferencesMatch` | `ReferencesGenerator` | `NeverBeforeItsTime` (`DueEarly`), `UndefinedOnlyWithout` (`LoadedSine`), `NoReferenceSkipped` (`DueNeverLast`) |
| `MeasuresAreUsable` | `GridMapping` | `FittingAlongARow` (`DrawRowOpen`), `ReturnsToTheCentre` (`DrawRowFlagged`), `RowsWithinAStep` (`LinesBeyond`), `WaitsOnlyAtRest` (`MoveOnStillCounting`) |
| `MeasuresAreUsable` | `WholeBodyEstimator` | `StartsInAnyOrder` (`KeysAsListed`), `UsesWhatWasSent` (`ConvertFirst`), `NoPortIsLeft` (`KeptInputs`) |
| `NothingOutOfTurn` | `Coordinator` | `NoMisuseOnceReady` (`DeleteFirst`), `NeverGoesBack` (`OnReadZeroesOthers`) |
| `NothingOutOfTurn` | `WalkPlayer` | `LostOnlyWhenEmpty` (`RunCompleteReturns`) |
| `NothingOutOfTurn` | `BalancingModule` | `ContactsMoveGradually` (`InterpolatedAtOnce`), `NoMisuseWhileReady` (`ControllerMadeByStart`) |
| `NothingOutOfTurn` | `ReferencesGenerator` | `ReferencesInOrder` (`DueNeverLast`) |
| `ApplicationsComplete` | `GraspManager` | `HandsOpen` (`DoReleaseClosed`), `StopDisablesAfterMotion` (`DoWaitForEver`) |
| `ApplicationsComplete` | `Coordinator` | `ReferencesAreFollowed` (`UpdateModuleForgetsCopy`) |
| `ApplicationsComplete` | `JointSplit` | `SplitEnds` (`KeepHere`) |
| `ApplicationsComplete` | `WalkPlayer` | `SequenceEnds` (`RunCompleteStays`) |
| `ApplicationsComplete` | `BalancingModule` | `ContactsFollow` (`InterpolatedUp`) |
| `ApplicationsComplete` | `GridMapping` | `VisitsAll` (`MoveOnSkipsLast`) |
| `ApplicationsComplete` | `WholeBodyEstimator` | `CloseEnds` (`RunNextAgain`) |
| `MeasuresAreRight` | `DeviceEstimation` | `FTsNotMixed` (`StoredAlways`), `FTsAreNumbers` (`NeverNan`), `ReadMeansFresh` (`KeptLast`), `FixedFrameIsValid` (`UseFixedFrameUnchecked`), `OneSourceInARun` (`CallUnlocked`) |
| `MeasuresAreRight` | `OffsetSmoothing` | `MissesByALateRun` (`UpdateRestarts`), `ResetLasts` (`ResetTarget`) |
| `MeasuresAreRight` | `VirtualAnalog` | `EstimatesArrive` (`SpreadVectors`), `OneMessageWhenWhole` (`CountsBoth`), `OverrunNeedsATwin` (`WholeIfAny`) |
| `EveryPartIsTouched` | `ContactPoints` | `EverySubModelIsTouched` (`LocatedCountsAll`), `SkinContactsWereRead` (`HeardAdds`), `FirstSuitableFrame` (`ChosenLast`) |
| `EveryPartIsTouched` | `TreeContacts` | `EverySubtreeIsTouched` (`UntouchedByAny`), `DefaultsOnlyWhereUntouched` (`UntouchedAlways`), `TouchesWereRead` (`ReadAdds`) |
| `BothSidesAgree` | `SettingsEditor` | `CleanMeansSent` (`CommunicateCleansAlways`), `PatchesAreWellFormed` (`MarkAgain`), `GravityIsOneEdit` (`SentWithoutZ`) |
| `BothSidesAgree` | `RemoteCalls` | `RunsWhatWasCalled` (`StartsWith`), `StubsAreUnderstood` (`SamplesFirst`), `TrueMeansDone` (`AnswerTrue`) |
| `LinksAreThoseAsked` | `FloatingBase` | `PosesOfModelFrames` (`ChangeToAny`), `FollowsTheCommands` (`RunUnchecked`) |
| `LinksAreThoseAsked` | `TreeOdometry` | `LinksAgree` (`InitOdometryAlone`), `PortsAreThere` (`PortsOpenedEither`), `AbortsOffTheFeet` (`InitOdometryIfKnown`), `ThreadIsThere` (`LeaveAnyTime`) |
| `NothingInTheMiddle` | `SettingsEditor` | `GroupsAreSentWhole` (`CommunicateInGroups`) |
| `NothingInTheMiddle` | `FloatingBase` | `RunSeesOneOdometry` (`ServeUnlocked`) |
| `NothingInTheMiddle` | `OffsetSmoothing` | `MovesGradually` (`SetNewOffsetFromLast`) |
| `NothingInTheMiddle` | `TreeOdometry` | `ReadsWhatWasComputed` (`ChangeOfOdometry`) |
| `DevicesComplete` | `DeviceEstimation` | `ChosenSourceIsUsed` (`RunKinematicsConfigured`) |
| `DevicesComplete` | `ContactPoints` | `OldContactsAreLeft` (`ElapsedStops`) |
| `DevicesComplete` | `RemoteCalls` | `CommandsAreAnswered` (`ReadSilently`) |
| `DevicesComplete` | `FloatingBase` | `DetachEnds` (`DetachStopAfterRun`) |
| `DevicesComplete` | `OffsetSmoothing` | `SmoothingEnds` (`RunUntilMet`) |
| `DevicesComplete` | `TreeContacts` | `SilentTouchesAreLeft` (`TimesOutForgets`) |

Bounds. Two sessions are what it takes to tell a reference of an earlier session
from one of the current session; the code has two tasks, and one task is enough
where only the controller's mutex matters (`torque_two`, `torque_stuck`). The
third session changes nothing else than the number in the poses. Two clients, a
sensor inside and a sensor outside the code of a calibration, and sample counts
below, at and above the number of a running calibration are the smallest
instances where commands interfere; the properties never relate three clients.
In `device`, the calibration at startup and two commands make all the pairs of a
calibration and what replaces or resets it, or is refused during it. Three frames,
one of which the model lacks, give commands that are accepted and refused, with one
contact and with two. `SizeMax` is 3 there: a
`size_t` of two bits, so that -1 is cast to three samples. In the program it is
cast to 2^64 - 1, and a calibration with a negative number of samples ends only
in theory; `CalibrationsEnd` says nothing about how long it takes.

In `jtc` three calls are a switch to torque, one back and a third of anybody
meanwhile; the second joint is moved by the motors of both, so that its output
also depends on a joint that may not be hijacked. In `applications`: two messages tell a reference from the one before,
and the torso and an arm are the parts with and without the exception for split
ones (`Coordinator`); seven joints are those of an arm (`JointSplit`); files of up to
two steps and three commands are empty, short and replayed sequences
(`WalkPlayer`); two feet, a transition of two steps with a threshold in between,
three commands (`BalancingModule`); two references with times up to three make
intervals that are empty, adjacent and apart (`ReferencesGenerator`); half
ranges that are and are not multiples of the distance of the rows
(`GridMapping`); two messages of up to two packages, of the board and of another
one whose numbers are the board's id (`WholeBodyEstimator`). In `devices`: two
sensors share the buffer, and a frame the model lacks may be chosen
(`DeviceEstimation`); two submodels, a link with skin that the skin's table does
not name, a timeout of two runs (`ContactPoints`); two values, one patch under
way, groups nested twice (`SettingsEditor`); two commands (`FloatingBase`); two
devices that share an axis, lists in order, out of order and with an axis twice
(`VirtualAnalog`); two calibrations, so that one may replace the smoothing of the
other, with runs that are late (`OffsetSmoothing`); the two feet, another link
and a name that is none, two commands (`TreeOdometry`); subtrees that share
links, leave some out or have their default elsewhere, two contacts of one or
two taxels (`TreeContacts`). `GraspManager` and `RemoteCalls` are finite without
bounds: the first keeps of time what the code compares, the second serves one
call at a time.

Fairness. A thread that is not blocked keeps running (weak fairness of its
steps); RateThreads run periodically. The mutexes are not fair, but each is held
for a small part of a period, so a thread that waits gets the mutex if it is
free again and again (strong fairness of the steps that lock; `FloatingBase`
needs only weak fairness). Time passes: a timer that is waited for runs out, and
a motion that was commanded ends (`GraspManager`, `WalkPlayer`, `GridMapping`).
`WholeBodyEstimator` assumes that the board keeps sending: its runs block in
`Port::read`, and without messages `close` waits for ever. Nobody has to send a
command, stream a reference or fail. `ClientsWait` in `calibration_patient` is
not fairness but a restriction of the clients: the violations show what happens
without it.

Deadlock is checked wherever the system cannot stop. `CHECK_DEADLOCK FALSE`
stands in the runs where the code does: with refused or overlapping commands
`run_mutex` may be held for ever (`calibration_*` except `patient`), with
failures the controller may wait for itself (`torque_stuck`), the device is
detached in the end, or hangs while it is (`device`), calls are bounded (`jtc`),
and the modules of `applications` and `devices` close or refuse to start.

## What the code does otherwise than it says

* `torque_still`. `setControllersActiveState` says that at a start "the robot
  should stay still". The run shows a first control cycle that comes after the
  controller was activated and before any generator has run. No reference is valid
  then, `readReferences` copies none (`TorqueBalancingController.cpp:404`), and the
  torques are computed for the joint configuration that `threadInit` set to zero
  (161). A second way to the same result is in the model but not what the run
  finds first: the generator of the joints is activated with the zeros of
  `VoidReader` as reference and gets the measured configuration in a second
  critical section; if it runs in between, it publishes zeros as valid.
  `EventuallyStill` shows that both do end.
* `torque_stuck`. The flags of module and controller are tested without a lock.
  When a start overlaps with the stop after a failure, the controller thread can
  reach the lock of its own mutex, which it already holds. Short of that, the
  overlap can leave the flags of module, generators and controller different:
  `AllThreadsAgree` holds only without failures.
* `calibration_refused`. A command with an unknown code or without samples
  returns without unlocking `run_mutex` (except `calibStanding`).
  It is answered with true, if it is answered: `TrueMeansCalibrated` needs the
  clients of `calibration_patient`. It has also changed the number of samples of
  a calibration under way by then.

Met while modelling, with the properties stating what holds around them:

* A command during a calibration locks `run_mutex` and waits for
  `calibration_mutex` (`wholeBodyDynamicsThread.cpp:712`): the calibration, also
  the one at startup, can then never end. `FTCalibration` has it, and the clients
  of `calibration_patient` wait for this reason too.
* A calibration command of the device that names a frame the model does not have
  is refused after the contacts assumed by the calibration under way have been
  cleared (`WholeBodyDynamicsDevice.cpp:1813`); this one goes on without them and
  its offset, an average over samples with contacts and samples with none, is
  installed as valid. `OffsetOfItsCommand` says so.
* `attachAll` of the device reads the sensors "for a brief moment" (1000, 1047) and
  would exit after 2 seconds, but keeps the elapsed time in a `bool`, which is
  never as much: it waits for ever for a sensor that does not answer, with
  `deviceMutex` held and the RPC port open. `CommandsAnswered` excepts that time.
* The device's `run` removes the offset from the measures before
  `computeCalibration` replaces it and publishes after: the run that ends the
  first calibration publishes an estimate without any offset removed, although
  "only send estimation if a valid offset is available" (1585).
* `detachAll` of the device holds `deviceMutex` while it waits for the periodic
  thread and for the commands being served, which may be waiting for that mutex:
  then the device is never detached. `DetachReturns` names exactly these two
  cases. `floatingBaseEstimator` does the same (`DetachEnds`).
* torqueBalancing's ports serve before the controller is made and after the
  parameter helper and the events port are deleted; `NoMisuseWhileReady` says
  that this is limited to configure and cleanup. A start served while the module
  closes activates the controllers again: `ClosedAtRest` excepts it.
  `syncLinkedVariables` can overwrite a gain between the moment a command has
  written it and the moment it is passed on: `SetGainIsUsed` excepts that.
* wholeBodyDynamicsTree: the result of `initOdometry` is ignored, and the
  odometry is enabled before its additional frames are checked; a reset of the
  odometry leaves the estimator on the link it had, until the next change;
  `quit` makes `close` run twice, the second time on a null thread; without the
  group of the odometry the flags that say what to stream are never set;
  `icub_model_world_base_position` is never allocated with
  `assume_fixed_from_odometry`. An offset overshoots by the part of a late run,
  and a reset is undone by a smoothing under way. A message without contacts
  leaves the contacts of the run before, in the first run none.
* `--min_taxel` announces that contacts with fewer taxels "than the threshold"
  are ignored (`main.cpp:207`, `wholeBodyDynamicsThread.cpp:443`); those with as
  many are ignored too (`wholeBodyDynamicsStatesInterfaces.cpp:362`).
* `setTorquePids` of jointTorqueControl locks its mutex twice: whoever calls it
  never returns, and nobody else afterwards. The properties of `jtc` except it.
  The integral of a joint is kept from one session to the next
  (`JointTorqueControl.cpp:833`), although hijacking a joint starts it from the
  torque it has; one measured torque that is not a number stays in it, and makes
  the outputs of the joints zero for ever. Joints that are not hijacked contribute
  to the outputs of those coupled with them, with references nobody follows.
* virtualAnalogRemapper: `globalIdx > 0` leaves out the first axis
  (`VirtualAnalogRemapper.cpp:172`), a list that names an axis twice overruns a
  table, a channel out of range is logged and written nevertheless; the client's
  head is `isInt()` of the configured number, always 1
  (`VirtualAnalogClient.cpp:108`).
* walkPlayer: a start with an empty sequence keeps the semaphore, and every later
  command waits for ever.
* codycoTrajGenDemoY2: the iterator of the split moves on twice after it has
  erased a joint; of two neighbouring joints in position control the second is
  left among those in torque control, unless the two are in the wrist. A torso of
  which not all three joints are in torque control gets zeros instead of its
  references, with a warning (`Coordinator.cpp:222`): `ReferencesAreFollowed` says
  so.
* wholeBodyEstimator: numbers that did not come with a message are converted
  again with every message (`QuaternionEKF.cpp:615`); a number equal to the
  board's id hides or garbles a package; an unknown name of an estimator
  dereferences a null pointer (`WholeBodyEstimatorThread.cpp:41`).
* eventRepeater "sends all events" (`eventRepeaterModule.cpp:78`), but `write()`
  is not strict: an event that follows another closely may replace it.
* genericSensorClient takes a sensor as available from the time between the last
  two arrivals (`GenericSensorClient.cpp:61-73`): one that has stopped sending
  keeps answering, and the first message after a silence is refused.

## Proofs

`TorqueBalancing_proofs` proves, for any set of callers, any number of tasks and
sessions and with or without failures: `TypeOK`; `TorqueOnlyInTorqueMode`;
`ModeMatchesController`; `ValidOnlyWhileActive`; and `Spec => Switch!Spec`. None
of the four is inductive. What makes them so is who holds the mutex: the
inductive invariant `IInv` says at which locations a thread holds `mutex`, that
no other thread is at such a location, and what `ctrlActive` and `mode` are at
each of the holder's locations, in particular that they differ from each other
only between `SwitchMode` and `SetFlag` and between the failure of the robot and
`m_active = false`. The refinement theorem uses `IInv` in every step: an action of
a caller can change the mode only while it holds the mutex, hence outside a
control cycle. The proofs also cover the self-deadlock of `torque_stuck`: a
thread that waits for itself takes no step. With one caller and a robot that does
not fail (hypotheses of the theorems: with two callers, or a failure, the three
do not hold) it also proves `AllThreadsAgree`, `DiscardsOldReferences` and
`PublishesCurrentSession`. `Alone` says what the flags are at each location of the
caller and which generators it has already switched; `CurrentSession` says of
which session references and outputs are.

`FTCalibration_proofs` proves, for any sets of clients, sensors, codes and
sample counts: `TypeOK`, `AssertionHolds`, `OwnSamplesOnly`, `OnlyAskedSensors`,
`RightBase`. The inductive invariant `CInv` has two parts. `LockInv`: a mode
other than normal and a client at the assertion both hold `calibration_mutex`,
and never at once; the holder of `run_mutex` is at `begin` or was refused.
`DataInv`: the buffers of flagged sensors equal the samples used, those of other
sensors that are clean are zero, and the flags and the base are those of the
calibration under way as long as nobody who has changed them for the next one
holds `run_mutex`. For clients that wait for a calibration under way, name known
codes and ask for samples, it proves `TrueMeansCalibrated`: `Patient` says that
such a client is alone with its calibration until it is answered.

`DeviceCalibration_proofs` proves `TypeOK`, `NoCompensationLeft` and
`OffsetOfItsCommand`, for any clients, frames, sample counts and commands, refused
ones included. The last one is not inductive: `OwnSamples` adds that a calibration
under way assumes the contacts of its command until another one is refused, and
none from then on, has summed up the samples taken with each, together as many as
it counts, and fewer than asked for.

`JointTorqueControl_proofs` proves, for any clients, joints and coupling: `TypeOK`,
`DiscardsOldReferences`, `DrivesOnlyTheHijacked` and, with at most one client that
switches the whole board, `ReportsTheAskedMode`. `DrivesOnlyTheHijacked` needs that
the thread holds the mutex from the computation of its outputs to their sending
(`Owned`), that nobody switches a joint without the mutex, that the reference of
every joint is of its last session, hijacked or not (`Fresh`), that the integrals
hold nothing newer (`SummedSoFar`), and hence that what was computed may be sent
(`Current`); `ReportsTheAskedMode` needs where in the loop over
the joints each client is, and that the shared buffer is still its own.

The theorems about the components of `Applications` and `Devices` are about
these modules: `AllSpec => []GraspIsSafe` and so on, for all values of all their
constants. Each component has an inductive invariant in terms of its instance
(`GraspKept`, `BalancingKept`, ...), proved for the component's own `Spec`
(`GraspAlways`, ...); `GraspBehaves` and its likes show that a behaviour of all
components is one of this component, which takes its steps or none; the theorem
named after a property puts the invariants together. All eight invariants of the
two runs, and both their action properties, are proved. What the invariants add
to the properties:

* `GraspManager`: the invariants support each other: which arm may be away from
  home depends on the state, and so does which hand may be closed. `Good` is
  their conjunction as a predicate of the record, and each method of the pipeline
  keeps it: one lemma for each.
* `BalancingModule`: `NothingYet`, what cannot have happened before its phase;
  `Rested`, that the close has undone what it had to. What the phases before have
  made, and the phases after have deleted, is a set computed once (`MadeAsSet`,
  `WhatIsUndone`).
* `GridMapping`: the waits and flags are those of the position commanded last.
  The positions are a concatenation of rows, built by a recursion over a list
  of any length: `Grids`, the lists in which a joint stays still between the
  start and the stop of a row, contains every row and is closed under
  concatenation (`GridsJoin`), hence contains all the positions
  (`PositionsAreAGrid`). A row lies within a step of the range
  because of how the number of rows is rounded (`RowsWithin`).
* `WholeBodyEstimator`: ports are those of estimators that are listed, and once
  the turn of the odometry is over its port is open (`OdometryIsOpen`): the filter
  comes later in the alphabet. `ExtractedIs` says what the recursive search
  through a message finds, for messages of any length: the last package of each
  kind, unless a number out of its place is the board's id. The proof gives a
  function that satisfies the recursion, and shows that any other one agrees
  with it from the third number on, as the last place where they differed would
  be one where they agree. `SentByStep` says how what counts changes with one
  more message.
* `Coordinator`: `GeneratorsOfPhase`, what is there in each phase;
  `SentWasReceived`, what is sent is of a message that came, or zero.
  `JointSplit`: what the loop has passed is split right, what is ahead is
  untouched; for the wrist every way of the iterator through the list is named
  (`WristPasses`).
* `WalkPlayer`: `SentInOrder` relates the rows sent, those waiting, the next step
  and the row of the step under way.
* `ReferencesGenerator`: a reference that is not streamed yet is not due yet. Times
  increase: that a place in the list is earlier than another one follows from
  the first place at which it would not be (`LeastNatural`).
* `ContactPoints`: `FirstOfTheListed`, the default of a submodel is the first
  suitable frame passed so far. `TreeContacts`: the contacts of the skin that are
  in use come from a message (`SkinWasHeard`); the default of a subtree is in it.
* `DeviceEstimation`: what a sensor leaves in the shared buffer is a measure of
  its own (`BufferIsAMeasure`), although another sensor's may have been there.
* `VirtualAnalog`: tables and flags are those that `attachAll` computed from the
  list of axes (`Tables`, `FlaggedAsDevice`). A device gets one message when as
  many axes as it has are mapped to it; that these are all of them is a pigeonhole
  argument (`WholeIsOnto`), which needs that they are mapped one to one.
* `OffsetSmoothing`: the offset in use lies between the two ends of its change, at
  the proportion of the time of the last run; all are multiples of the unit of
  the number of calibrations so far.
* `FloatingBase`: `Holder`, who holds the mutex; `Settled` and `InModel`, that
  settled links are those asked for, and that links in use are in the model.
  `TreeOdometry`: `OdometryLife` relates the phase of the thread, the ports and
  who is closing; `OdometryLinks` the three names of the fixed link, the group of
  the configuration and the history of resets.
* `SettingsEditor`: every patch under way is well formed, and the patches under
  way, read in their order, bring the remote side to what is not marked
  (`SendingBrings`, `ReadingBrings`).
* `RemoteCalls`: no name of a method is the beginning of another one's
  (`NamesTellApart`), so that the words of a request name one method
  (`FoundWhole`, `FoundAsOne`, `FoundCut`).

Where a loop is scanned for the first or the last that has a property, the
proofs take the least or the greatest of a set of naturals (`LeastNatural`,
`GreatestOfNaturals`), which replaces induction.

The assumptions are those named in the modules: the thread names are distinct,
there is at least one task, codes are sets of sensors and `NoCode` is none of
them, at least one sample is taken at startup, requests of modes are for joints
of the board, no row of a coupling matrix is zero. In `Applications` and `Devices`: bounds, times and forces are
natural numbers; every link and frame is in one submodel, and the name for no
frame, or no device, is that of none; devices are finitely many and axes are
names; gravity is among the settings; the unit of the offsets is a multiple of
the next one, because the code divides by the period; the distance of the rows of
a grid, by which the code divides, is not zero; `LeggedOdometry` comes before
`QuaternionEKF` in the alphabet.

Only model-checked: the liveness properties (`EventuallyStill`, `CallsReturn`,
`EstimationResumes`, `CalibrationsEnd`, `CommandsAnswered`, `DetachReturns`,
`AnswersAndDrives`, `ApplicationsComplete`, `DevicesComplete`). They follow from
the fairness of actions, hence from when these are enabled, which the provers at
hand do not reason about. Every other property of a passing run is stated by a
theorem. The violations are runs, not theorems.

## Not modelled

See the table of components in `PROJECT.json`. Numeric code (control laws,
dynamics, filters, Kalman filters, inverse kinematics, minimum jerk filters,
`ctrlLibRT`, `quaternionEKF`, `icubWalkingIK`) computes over reals, is out of
TLC's reach and has no interleavings of its own; with it goes the sampling time
of torqueBalancing's trajectories, which an integer division makes zero for every
period below a second (`TorqueBalancingModule.cpp:290`). A vector is one value,
so that a race inside a copy (`Reference.cpp:163`) is not seen.
`graspAndStepDemo` is Lua over the rFSM library, whose rules for transitions and
events are not in this repository. `wholeBodyDynamics3` loads a device.
`genericSensorClient` keeps one buffer under one mutex, `eventRepeater` keeps
nothing: what there is to say about them is in the section above.
