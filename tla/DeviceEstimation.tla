--------------------------- MODULE DeviceEstimation ----------------------------
(***************************************************************************)
(* What the wholeBodyDynamics device does around the calibration: open and *)
(* attachAll, then in every run the reading and filtering of the sensors   *)
(* and the update of the kinematics, while the settings change through the *)
(* RPC port, under deviceMutex, and through the settings port, whose       *)
(* editor writes field by field and takes no mutex.                        *)
(*                                                                         *)
(* A measure is known by its age: none, read in this run, or before it.    *)
(***************************************************************************)
EXTENDS Naturals, Sequences, FiniteSetsExt

CONSTANTS
  Frames,       \* names of frames
  ModelFrames,  \* those of the model
  NFts          \* the number of force-torque sensors, a natural number

NoFrame == "no frame"
Names == Frames \cup {NoFrame}
Fts == 1..NFts
Ages == {"none", "fresh", "old"}

\* the steps of open, in the order they are tried
Stages == <<"settings", "estimator", "gravity", "second calibration", "rpc port", "settings port",
            "boards", "virtual sensors", "default contacts", "skin", "wrenches">>
Settings == [source : {"imu", "fixed"}, frame : Names, velocity : BOOLEAN, acceleration : BOOLEAN]

VARIABLES
  config,      \* assume_fixed, and the step of open that cannot succeed, or 0
  driver,      \* what yarprobotinterface has done with the device
  opened,      \* the steps of open that have succeeded
  settings,
  run,         \* where the periodic thread is; away from "asleep" it holds deviceMutex
  raw,         \* rawSensorsMeasurements: of which sensor, and how old
  ftBuffer,    \* ftMeasurement, shared by the sensors
  joints,      \* the age of jointPos, and what jointVel holds
  imu,         \* rawIMUMeasurements
  sensorsOk,   \* sensorReadCorrectly
  readFor,     \* the source for which the sensors of this run were read
  kinematics,  \* the source of the last update
  patch,       \* the fields that the settings editor has still to write
  edited       \* has the settings port been used?

estimationVars == <<config, driver, opened, settings, run, raw, ftBuffer, joints, imu, sensorsOk,
                    readFor, kinematics, patch, edited>>
measures == <<raw, ftBuffer, joints, imu, sensorsOk, readFor>>

Sources == {"imu", "fixed"}
Measures == [of : 0..NFts, age : Ages \cup {"nan"}]
Velocities == {"zero", "velocity", "acceleration"}

\* what a patch of the settings port writes; "bad" is a value that cannot be read
Edits == {<<"source", x>> : x \in Sources} \cup {<<"frame", f>> : f \in Frames} \cup {<<"bad", NoFrame>>}
Patches == {p \in Edits \X Edits : p[1][1] = "source" /\ p[2][1] # "source"}

TypeOK ==
  /\ config \in [fixed : Names, wrong : 0..Len(Stages)]
  /\ driver \in {"opening", "opened", "failed", "reading fts", "reading imu", "attached"}
  /\ opened \in 0..Len(Stages)
  /\ settings \in Settings
  /\ run \in {"asleep", "kinematics"}
  /\ raw \in [Fts -> Measures]
  /\ ftBuffer \in Measures
  /\ joints \in [pos : Ages, what : Velocities]
  /\ imu \in Ages
  /\ sensorsOk \in BOOLEAN
  /\ readFor \in Sources
  /\ kinematics \in Sources \cup {"none"}
  /\ patch \in {<<>>} \cup {<<e>> : e \in Edits} \cup Patches
  /\ edited \in BOOLEAN

Init ==
  /\ config \in [fixed : Names, wrong : 0..Len(Stages)]
  /\ driver = "opening" /\ opened = 0
  /\ settings \in [source : {"imu"}, frame : {NoFrame}, velocity : BOOLEAN, acceleration : BOOLEAN]
  /\ run = "asleep"
  /\ raw = [s \in Fts |-> [of |-> 0, age |-> "none"]]
  /\ ftBuffer = [of |-> 0, age |-> "none"]
  /\ joints = [pos |-> "none", what |-> "zero"]
  /\ imu = "none"
  /\ sensorsOk = FALSE
  /\ readFor = "imu"
  /\ kinematics = "none"
  /\ patch = <<>>
  /\ edited = FALSE

--------------------------------------------------------------------------------
(* open and attachAll, which hold deviceMutex *)

\* the estimator has no frames before its model is loaded
Known == IF opened >= 2 THEN ModelFrames ELSE {}

\* loadSettingsFromConfig is the first step, and looks assume_fixed up
OpenSettings ==
  /\ driver = "opening" /\ opened = 0
  /\ IF config.wrong # 1 /\ config.fixed \in Known \cup {NoFrame}
     THEN /\ opened' = 1
          /\ settings' = IF config.fixed = NoFrame THEN settings
                         ELSE [settings EXCEPT !.source = "fixed", !.frame = config.fixed]
          /\ UNCHANGED driver
     ELSE driver' = "failed" /\ UNCHANGED <<opened, settings>>
  /\ UNCHANGED <<config, run, measures, kinematics, patch, edited>>

\* what a step that succeeded has opened stays open when a later one fails
OpenStage ==
  /\ driver = "opening" /\ opened \in 1..(Len(Stages) - 1)
  /\ IF config.wrong = opened + 1 THEN driver' = "failed" /\ UNCHANGED opened
     ELSE /\ opened' = opened + 1
          /\ driver' = IF opened' = Len(Stages) THEN "opened" ELSE driver
  /\ UNCHANGED <<config, settings, run, measures, kinematics, patch, edited>>

\* the boards, the virtual sensors and the devices of the sensors are attached, or something is
\* missing, and then they are tried
Attach ==
  /\ driver = "opened"
  /\ driver' \in {"reading fts", "failed"}
  /\ UNCHANGED <<config, opened, settings, run, measures, kinematics, patch, edited>>

\* readFTSensors: what each sensor answered.  One that fails leaves the shared buffer as it is, and a
\* buffer that is not a number ends the reading, whoever left it there.
\* What the buffer holds once sensor s has been tried:
BufferAt(outcome, before, s) ==
  LET got == {k \in 1..s : outcome[k] # "failed"} IN
  IF got = {} THEN before
  ELSE [of |-> Max(got), age |-> IF outcome[Max(got)] = "nan" THEN "nan" ELSE "fresh"]
\* Wrong variants: the buffer is stored all the same, or is not looked into
StoredAlways(outcome, s) == TRUE
Stored(outcome, s) == outcome[s] # "failed"
NeverNan(m) == FALSE
IsNan(m) == m.age = "nan"
ReadFTSensors(outcome, raw0, buffer0) ==
  LET at(s) == BufferAt(outcome, buffer0, s)
      nans == {s \in Fts : IsNan(at(s))}
  IN [raw |-> [s \in Fts |-> IF Stored(outcome, s) /\ \A k \in nans : s < k THEN at(s) ELSE raw0[s]],
      buffer |-> at(Min(nans \cup {NFts})),
      ok |-> nans = {} /\ \A s \in Fts : outcome[s] # "failed"]
Outcomes == [Fts -> {"read", "failed", "nan"}]

\* the time spent is kept in a bool, which is never more than the timeout: there is no end
AttachFTs(outcome) ==
  /\ driver = "reading fts"
  /\ LET r == ReadFTSensors(outcome, raw, ftBuffer) IN
     /\ raw' = r.raw /\ ftBuffer' = r.buffer
     /\ driver' = IF r.ok THEN "reading imu" ELSE driver
  /\ UNCHANGED <<config, opened, settings, run, joints, imu, sensorsOk, readFor, kinematics, patch, edited>>
AttachIMUs(ok) ==
  /\ driver = "reading imu"
  /\ imu' = IF ok THEN "fresh" ELSE "none"
  /\ driver' = IF ok THEN "attached" ELSE driver
  /\ UNCHANGED <<config, opened, settings, run, raw, ftBuffer, joints, sensorsOk, readFor, kinematics, patch, edited>>

--------------------------------------------------------------------------------
(* The settings *)

\* a method of the RPC port: the port is open, and nobody holds deviceMutex.
\* Wrong variant: does not wait for the mutex
CallWhen(ready) == driver \in {"opened", "failed", "attached"} /\ opened >= 5 /\ ready
CallWith(ready, settings2) ==
  /\ CallWhen(ready)
  /\ settings' = settings2
  /\ UNCHANGED <<config, driver, opened, run, measures, kinematics, patch, edited>>
CallUnlocked(settings2) == CallWith(TRUE, settings2)
Call(settings2) == CallWith(run = "asleep", settings2)

\* a frame that is not in the model is refused.  Wrong variant: it is not looked up
UseFixedFrameIn(f, frames) == f \in frames /\ Call([settings EXCEPT !.source = "fixed", !.frame = f])
UseFixedFrameUnchecked(f) == UseFixedFrameIn(f, Frames)
UseFixedFrame(f) == UseFixedFrameIn(f, ModelFrames)
UseIMU == Call([settings EXCEPT !.source = "imu"])
SetUseOfJointVelocities(b) == Call([settings EXCEPT !.velocity = b])
SetUseOfJointAccelerations(b) == Call([settings EXCEPT !.acceleration = b])

\* Editor::read: the fields are written one by one, whatever the other threads do
StartPatch ==
  /\ opened >= 6 /\ ~edited
  /\ edited' = TRUE
  /\ patch' \in Patches
  /\ UNCHANGED <<config, driver, opened, settings, run, measures, kinematics>>
\* a field that cannot be read ends the patch; those before it stay written
PatchField ==
  /\ patch # <<>>
  /\ LET e == Head(patch) IN
     /\ settings' = CASE e[1] = "source" -> [settings EXCEPT !.source = e[2]]
                      [] e[1] = "frame" -> [settings EXCEPT !.frame = e[2]]
                      [] e[1] = "bad" -> settings
     /\ patch' = IF e[1] = "bad" THEN <<>> ELSE Tail(patch)
  /\ UNCHANGED <<config, driver, opened, run, measures, kinematics, edited>>

--------------------------------------------------------------------------------
(* run *)

Aged(age) == IF age = "fresh" THEN "old" ELSE age
AgedFt(m) == [m EXCEPT !.age = Aged(m.age)]

\* readSensors.  What fails keeps its measure, but for the IMU, which is set to zero first.
\* Wrong variant: the answer of the sensors read last is the one that is kept
KeptLast(ok, before) == ok
Kept(ok, before) == ok /\ before
RunRead(encodersOk, outcome, imuOk) ==
  /\ driver = "attached" /\ run = "asleep"
  /\ run' = "kinematics"
  /\ readFor' = settings.source
  /\ LET r == ReadFTSensors(outcome, raw, ftBuffer)
         ok == Kept(r.ok, encodersOk)
     IN
     /\ raw' = r.raw /\ ftBuffer' = r.buffer
     /\ sensorsOk' = IF settings.source = "imu" THEN Kept(imuOk, ok) ELSE ok
  /\ joints' = [pos |-> IF encodersOk THEN "fresh" ELSE joints.pos,
                what |-> IF ~settings.velocity THEN "zero"
                         ELSE IF encodersOk THEN "velocity" ELSE joints.what]
  /\ imu' = IF settings.source # "imu" THEN imu ELSE IF imuOk THEN "fresh" ELSE "none"
  /\ UNCHANGED <<config, driver, opened, settings, kinematics, patch, edited>>

\* filterSensorsAndRemoveSensorOffsets puts the filtered accelerations where the velocities are;
\* then updateKinematics.  Wrong variant: the source is the one of the configuration
RunKinematicsFrom(source) ==
  /\ run = "kinematics"
  /\ run' = "asleep"
  /\ kinematics' = source
  /\ joints' = [pos |-> Aged(joints.pos),
                what |-> IF settings.acceleration THEN "acceleration" ELSE joints.what]
  /\ raw' = [s \in Fts |-> AgedFt(raw[s])] /\ ftBuffer' = AgedFt(ftBuffer)
  /\ imu' = Aged(imu)
  /\ UNCHANGED <<config, driver, opened, settings, sensorsOk, readFor, patch, edited>>
RunKinematicsConfigured == RunKinematicsFrom(IF config.fixed = NoFrame THEN "imu" ELSE "fixed")
RunKinematics == RunKinematicsFrom(settings.source)

AttachSensors ==
  \/ driver = "reading fts" /\ \E o \in Outcomes : AttachFTs(o)
  \/ driver = "reading imu" /\ \E ok \in BOOLEAN : AttachIMUs(ok)
RunStarts == driver = "attached" /\ run = "asleep" /\ run' = "kinematics"
Next ==
  \/ OpenSettings \/ OpenStage \/ Attach \/ AttachSensors
  \/ \E f \in Frames : UseFixedFrame(f)
  \/ UseIMU
  \/ \E b \in BOOLEAN : SetUseOfJointVelocities(b) \/ SetUseOfJointAccelerations(b)
  \/ StartPatch \/ PatchField
  \/ \E encodersOk, imuOk \in BOOLEAN, o \in Outcomes : RunRead(encodersOk, o, imuOk)
  \/ RunKinematics

Spec == Init /\ [][Next]_estimationVars

\* the thread is periodic, and attachAll tries the sensors again; they may fail for ever
FairSpec ==
  Spec /\ WF_run(RunStarts) /\ WF_run(RunKinematics) /\ WF_estimationVars(AttachSensors)

--------------------------------------------------------------------------------
(* Properties *)

\* The sensors share a buffer, but a sensor never gets the measure of another, whichever fail
\* (WholeBodyDynamicsDevice.cpp:1103-1147)
FTsNotMixed == \A s \in Fts : raw[s].of \in {0, s}

\* A measure that is not a number never reaches the estimation (1119-1133)
FTsAreNumbers == \A s \in Fts : raw[s].age # "nan"

\* When the sensors are said to be read correctly, all the estimation uses is of this run (1178-1242)
ReadMeansFresh ==
  run = "kinematics" /\ sensorsOk =>
    /\ joints.pos = "fresh" /\ joints.what # "acceleration"
    /\ \A s \in Fts : raw[s].age = "fresh"
    /\ readFor = "imu" => imu = "fresh"

\* "this should be valid because it was validated when set" (1333), if nobody used the settings port
FixedFrameIsValid == ~edited /\ settings.source = "fixed" => settings.frame \in ModelFrames

\* The sensors of a run are read for the source its kinematics are updated from, if nobody used
\* the settings port, which does not wait for the mutex (1178-1350)
OneSourceInARun == ~edited /\ run = "kinematics" => readFor = settings.source

\* A source that is chosen is used, unless another is (1312-1350)
ChosenSourceIsUsed ==
  \A x \in Sources :
    driver = "attached" /\ settings.source = x ~> kinematics = x \/ settings.source # x

================================================================================
