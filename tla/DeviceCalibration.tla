--------------------------- MODULE DeviceCalibration ---------------------------
(***************************************************************************)
(* Offset calibration in the wholeBodyDynamics device, from attachAll to   *)
(* detachAll.                                                              *)
(*                                                                         *)
(* Three kinds of threads meet at deviceMutex: the one of                  *)
(* yarprobotinterface, which attaches and detaches the device, the         *)
(* device's own periodic thread (run), and those that serve the RPC port   *)
(* (Clients).  run and the RPC methods wait for nothing while they hold    *)
(* the mutex, so each is one step, taken when the mutex is free.           *)
(* detachAll does wait while it holds the mutex, for the periodic thread   *)
(* and for the RPC port to stop: it is several steps.  attachAll holds it  *)
(* for as long as a sensor does not answer.                                *)
(*                                                                         *)
(* Every calibration is of all the sensors: one offset stands for theirs,  *)
(* and is known by the samples it was averaged from.                       *)
(***************************************************************************)
EXTENDS Integers

CONSTANTS
  Clients,        \* threads of the RPC port
  Frames,         \* the frames that commands name
  KnownFrames,    \* the frames of the model
  BaseLink,       \* base_link, of calib and of the calibration at startup
  Kinds,          \* what the clients ask for
  SampleCounts,   \* the values of nr_of_samples the clients send
  StartupSamples, \* nr_of_samples of the calibration at startup (100)
  SizeMax,        \* the largest size_t
  MaxCalls        \* bound: the commands sent in a behaviour

ASSUME BaseLinkAssumption == BaseLink \in Frames
ASSUME KindsAssumption == Kinds \subseteq {"calib", "reset"}
ASSUME SamplesAssumption == SampleCounts \cup {StartupSamples} \subseteq Int
ASSUME SizeMaxAssumption == SizeMax \in Nat
ASSUME MaxCallsAssumption == MaxCalls \in Nat

\* A command is known by the frames at which the robot is assumed to be held
FrameSets == {{f, g} : f, g \in Frames}
Commands == [kind : {"calib", "reset"}, frames : FrameSets,
             samples : SampleCounts \cup {StartupSamples}]
Startup == [kind |-> "calib", frames |-> {BaseLink}, samples |-> StartupSamples]

\* (size_t)nrOfSamples.  Wrong variant: the number is kept as it is
ToSizeUncast(n) == n
ToSize(n) == n % (SizeMax + 1)

\* A sum is known by how many samples were taken with which contacts assumed
Contacts == FrameSets \cup {{}}
Sums == [Contacts -> Nat]
NoSum == [c \in Contacts |-> 0]

\* What an offset was averaged from: its samples, the number they were divided by, the
\* command it was computed for, and how many there were when a command was refused
Never == -1
Averages == [sum : Sums, count : Nat, command : Commands, refusedAt : Nat \cup {Never}]
Zero == [sum |-> NoSum, count |-> 0, command |-> Startup, refusedAt |-> Never]

VARIABLES
  driver,      \* what yarprobotinterface has done with the device
  deviceMutex, \* is deviceMutex held across steps, by attachAll or detachAll?
  configured,  \* correctlyConfigured
  thread,      \* the periodic thread
  contacts,    \* assumedContactLocationsForCalibration
  toUse,       \* nrOfSamplesToUseForCalibration
  used,        \* nrOfSamplesUsedUntilNowForCalibration
  sum,         \* offsetSumBuffer
  ongoing,     \* ongoingCalibration
  current,     \* the command ongoing, or the last one that was
  refusedAt,   \* the samples there were when a command was first refused meanwhile
  offset,      \* offset of the ftProcessors
  valid,       \* validOffsetAvailable
  compensated, \* is an impedance offset of some joint set?
  pc,          \* where each client is
  call,        \* its command
  calls        \* commands sent so far

buffers == <<contacts, toUse, used, sum, ongoing, current, refusedAt>>
clientVars == <<pc, call, calls>>
vars == <<driver, deviceMutex, configured, thread, buffers, offset, valid, compensated, clientVars>>

TypeOK ==
  /\ driver \in {"opened", "reading", "failed", "attached", "stopping", "closing", "detached"}
  /\ deviceMutex \in BOOLEAN
  /\ configured \in BOOLEAN
  /\ thread \in {"off", "asleep", "awake"}
  /\ contacts \in Contacts
  /\ toUse \in 0..SizeMax
  /\ used \in Nat
  /\ sum \in Sums
  /\ ongoing \in BOOLEAN
  /\ current \in Commands
  /\ refusedAt \in Nat \cup {Never}
  /\ offset \in Averages
  /\ valid \in BOOLEAN
  /\ compensated \in BOOLEAN
  /\ pc \in [Clients -> {"idle", "called"}]
  /\ call \in [Clients -> Commands]
  /\ calls \in 0..MaxCalls

\* the device has been opened: its RPC port is there before attachAll
Init ==
  /\ driver = "opened"
  /\ deviceMutex = FALSE
  /\ configured = FALSE
  /\ thread = "off"
  /\ contacts = {}
  /\ toUse = 0
  /\ used = 0
  /\ sum = NoSum
  /\ ongoing = FALSE
  /\ current = Startup
  /\ refusedAt = Never
  /\ offset = Zero
  /\ valid = FALSE
  /\ compensated = FALSE
  /\ pc = [c \in Clients |-> "idle"]
  /\ call = [c \in Clients |-> Startup]
  /\ calls = 0

--------------------------------------------------------------------------------
(* setupCalibrationWithExternalWrench(es)On... *)

Accepted(command) == command.frames \subseteq KnownFrames

\* setupCalibrationCommonPart: whatever calibration is under way is replaced
SetupFrom(command, used2, sum2) ==
  /\ contacts' = command.frames
  /\ toUse' = ToSize(command.samples)
  /\ used' = used2
  /\ sum' = sum2
  /\ ongoing' = TRUE
  /\ current' = command
  /\ refusedAt' = Never

\* the contacts are gone before the frames are looked up, those of the calibration
\* under way, which goes on without them
Forget ==
  /\ contacts' = {}
  /\ refusedAt' = IF ongoing /\ refusedAt = Never THEN used ELSE refusedAt
  /\ UNCHANGED <<toUse, used, sum, ongoing, current>>

\* Wrong variant: the sums of the calibration replaced are kept
SetupKeepsSums(command) ==
  IF Accepted(command) THEN SetupFrom(command, 0, sum) ELSE Forget

Setup(command) ==
  IF Accepted(command) THEN SetupFrom(command, 0, NoSum) ELSE Forget

--------------------------------------------------------------------------------
(* yarprobotinterface *)

\* attachAll takes the mutex, finds the devices and reads the sensors.  Those that do not
\* answer are read again, with no end: the time this takes is kept in a bool, which is
\* never as long as the timeout.  The RPC port is open meanwhile
AttachReads ==
  /\ driver = "opened"
  /\ ~deviceMutex
  /\ deviceMutex' = TRUE
  /\ driver' = "reading"
  /\ UNCHANGED <<configured, thread, buffers, offset, valid, compensated, clientVars>>

\* ... until all have answered, if they ever do
AttachThen(thread2) ==
  /\ driver = "reading"
  /\ deviceMutex' = FALSE
  /\ Setup(Startup)
  /\ IF Accepted(Startup)
       THEN driver' = "attached" /\ configured' = TRUE /\ thread' = thread2
       ELSE driver' = "failed" /\ UNCHANGED <<configured, thread>>
  /\ UNCHANGED <<offset, valid, compensated, clientVars>>

\* Wrong variant: the periodic thread is not started
AttachOnly == AttachThen("off")
Attach == AttachThen("asleep")

\* attachAll when some device is missing: the inertial sensors are counted once the
\* force-torque sensors have been read
AttachFails ==
  /\ driver = "reading" \/ (driver = "opened" /\ ~deviceMutex)
  /\ driver' = "failed"
  /\ deviceMutex' = FALSE
  /\ UNCHANGED <<configured, thread, buffers, offset, valid, compensated, clientVars>>

\* detachAll takes the mutex and tells the periodic thread to stop ...
Detach ==
  /\ driver \in {"attached", "failed"}
  /\ ~deviceMutex
  /\ deviceMutex' = TRUE
  /\ configured' = FALSE
  /\ driver' = "stopping"
  /\ UNCHANGED <<thread, buffers, offset, valid, compensated, clientVars>>

\* ... waits until it has, and resets the gravity compensation ...
StopThread(compensated2) ==
  /\ driver = "stopping"
  /\ thread # "awake"
  /\ thread' = "off"
  /\ compensated' = compensated2
  /\ driver' = "closing"
  /\ UNCHANGED <<deviceMutex, configured, buffers, offset, valid, clientVars>>

\* Wrong variants: the impedance offsets are left as they are; a thread that was
\* never started is waited for
StopOnly == StopThread(compensated)
StopRunningOnly == thread # "off" /\ StopThread(FALSE)
Stop == StopThread(FALSE)

\* ... and closes the ports: the RPC port once the commands it serves are done
Close ==
  /\ driver = "closing"
  /\ \A c \in Clients : pc[c] = "idle"
  /\ deviceMutex' = FALSE
  /\ driver' = "detached"
  /\ UNCHANGED <<configured, thread, buffers, offset, valid, compensated, clientVars>>

--------------------------------------------------------------------------------
(* The RPC threads *)

\* a command arrives on the RPC port
Call(c) ==
  /\ driver \notin {"closing", "detached"}
  /\ pc[c] = "idle"
  /\ calls < MaxCalls
  /\ \E kind \in Kinds, frames \in FrameSets, samples \in SampleCounts :
       call' = [call EXCEPT ![c] = [kind |-> kind, frames |-> frames, samples |-> samples]]
  /\ pc' = [pc EXCEPT ![c] = "called"]
  /\ calls' = calls + 1
  /\ UNCHANGED <<driver, deviceMutex, configured, thread, buffers, offset, valid, compensated>>

\* calib and calibStanding*, answered at once; the mutex is left as mutex2
CalibThen(c, mutex2) ==
  /\ pc[c] = "called" /\ call[c].kind = "calib"
  /\ ~deviceMutex
  /\ Setup(call[c])
  /\ deviceMutex' = mutex2
  /\ pc' = [pc EXCEPT ![c] = "idle"]
  /\ UNCHANGED <<driver, configured, thread, offset, valid, compensated, call, calls>>

\* Wrong variant: the mutex is not released
CalibKeepsMutex(c) == CalibThen(c, TRUE)
Calib(c) == CalibThen(c, FALSE)

\* resetOffset leaves a calibration under way alone
ResetOffset(c) ==
  /\ pc[c] = "called" /\ call[c].kind = "reset"
  /\ ~deviceMutex
  /\ offset' = Zero
  /\ pc' = [pc EXCEPT ![c] = "idle"]
  /\ UNCHANGED <<driver, deviceMutex, configured, thread, buffers, valid, compensated, call, calls>>

Serve(c) == Calib(c) \/ ResetOffset(c)

--------------------------------------------------------------------------------
(* The periodic thread *)

\* a new period begins, and run is called
Wake ==
  /\ thread = "asleep"
  /\ driver = "attached"
  /\ thread' = "awake"
  /\ UNCHANGED <<driver, deviceMutex, configured, buffers, offset, valid, compensated, clientVars>>

\* run begins by removing the offset from the sensors (filterSensorsAnd-
\* RemoveSensorOffsets) and ends by sending the estimate, if it went well and an
\* offset is available by then; joints that comply get their impedance offset
Running == thread = "awake" /\ ~deviceMutex /\ configured

Publish(available) == compensated' \in {compensated} \cup (IF available THEN {TRUE} ELSE {})

RunWith(available) ==
  /\ Running
  /\ thread' = "asleep"
  /\ Publish(available)
  /\ UNCHANGED <<driver, deviceMutex, configured, contacts, toUse, current, refusedAt, clientVars>>

\* computeCalibration adds a sample for the contacts assumed
Summed == [sum EXCEPT ![contacts] = @ + 1]
LastSample == used + 1 >= toUse

Estimate ==
  /\ ~ongoing
  /\ RunWith(valid)
  /\ UNCHANGED <<used, sum, ongoing, offset, valid>>

Sample ==
  /\ ongoing /\ ~LastSample
  /\ RunWith(valid)
  /\ used' = used + 1
  /\ sum' = Summed
  /\ UNCHANGED <<ongoing, offset, valid>>

\* the last sample: the offset is the average of all, and endCalibration
Complete ==
  /\ ongoing /\ LastSample
  /\ RunWith(TRUE)
  /\ used' = used + 1
  /\ sum' = Summed
  /\ offset' = [sum |-> Summed, count |-> used + 1, command |-> current, refusedAt |-> refusedAt]
  /\ ongoing' = FALSE
  /\ valid' = TRUE

--------------------------------------------------------------------------------

Interface == AttachReads \/ Attach \/ AttachFails \/ Detach \/ Stop \/ Close
Run == Estimate \/ Sample \/ Complete

Next ==
  \/ Interface
  \/ \E c \in Clients : Call(c) \/ Serve(c)
  \/ Wake
  \/ Run

Spec == Init /\ [][Next]_vars

(***************************************************************************)
(* The periodic thread is scheduled, and threads that wait for deviceMutex *)
(* get it in the end if it stays free between runs.  What detachAll has    *)
(* begun goes on; nobody has to attach, detach or send a command, and no   *)
(* sensor has to answer attachAll.                                         *)
(***************************************************************************)
FairSpec ==
  /\ Spec
  /\ WF_vars(Wake) /\ WF_vars(Run)
  /\ WF_vars(Stop) /\ WF_vars(Close)
  /\ \A c \in Clients : WF_vars(Serve(c))

--------------------------------------------------------------------------------
(* Properties *)

Asked(command) ==
  LET n == ToSize(command.samples) IN IF n = 0 THEN 1 ELSE n

\* The samples that a calibration of n takes: with the contacts of its command, until a
\* command is refused; with none from then on
Taken(command, n, refused) ==
  [c \in Contacts |-> IF c = command.frames THEN IF refused = Never THEN n ELSE refused
                      ELSE IF c = {} /\ refused # Never THEN n - refused ELSE 0]

\* The offset in use is the true average of as many samples as its command asked for (one,
\* if none), whatever was asked for, replaced or reset while they were collected.  Each was
\* taken with the contacts of that command ("a frame belonging to the link on which it is
\* assumed that external forces are acting"), unless another was refused meanwhile: the
\* samples after that, and no others, were taken with no contact at all (1510-1560, 1806-1855).
OffsetOfItsCommand ==
  LET n == Asked(offset.command)
  IN offset # Zero => /\ offset.count = n
                      /\ offset.sum = Taken(offset.command, n, offset.refusedAt)

\* Once detachAll has returned, no joint is left with an impedance offset of the
\* gravity compensation: no run can set one again after they are reset.
NoCompensationLeft == driver = "detached" => ~compensated

\* A calibration under way ends, unless the device is detached.
CalibrationsEnd == ongoing /\ driver = "attached" ~> ~ongoing \/ driver # "attached"

\* Every command is answered, unless the device is being detached, or attachAll waits for
\* a sensor that never answers.
CommandsAnswered ==
  \A c \in Clients :
    pc[c] = "called" ~> pc[c] = "idle" \/ driver \in {"reading", "stopping", "closing"}

\* detachAll returns ("<action phase="shutdown" level="2" type="detach" />"), unless
\* the periodic thread or a command is waiting for the mutex that it holds: then it
\* cannot, as these are what it waits for itself.
DetachReturns ==
  driver = "stopping" ~>
    driver = "detached" \/ thread = "awake" \/ \E c \in Clients : pc[c] = "called"

================================================================================
