----------------------------- MODULE FTCalibration -----------------------------
(***************************************************************************)
(* Calibration of the force/torque sensors in wholeBodyDynamicsTree.       *)
(*                                                                         *)
(* The RPC port serves every connection in a thread of its own (Clients).  *)
(* A calibration is asked for by one of these threads, which then waits;   *)
(* it is carried out by the estimation thread, one sample per run.  Two    *)
(* mutexes tie them together: run_mutex, held by run and by every method   *)
(* of the thread, and calibration_mutex, which the client locks to start   *)
(* a calibration and the estimation thread unlocks when it is done: a      *)
(* binary semaphore, so only whether it is locked matters.                 *)
(*                                                                         *)
(* run never waits while it holds run_mutex, so it is one step.  A client  *)
(* may: the holder of run_mutex is the variable runMutex.                  *)
(* The options smooth_calibration and assume_fixed_from_odometry are not   *)
(* set.                                                                    *)
(***************************************************************************)
EXTENDS Integers

CONSTANTS
  Clients,        \* threads of the RPC port
  Nobody,         \* holder of a free mutex
  Sensors,        \* the force/torque sensors
  Codes,          \* the calibration codes the robot has sensors for, as sets
  NoCode,         \* any other code: unknown, or for a limb without sensors
  AskedCodes,     \* the codes the clients send
  SampleCounts,   \* the values of nr_of_samples the clients send
  StartupSamples, \* samples_requested_for_calibration at startup (200)
  ClientsWait     \* do clients call only when no calibration is under way?

ASSUME NobodyAssumption == Nobody \notin Clients
ASSUME CodesAssumption == Codes \subseteq SUBSET Sensors /\ NoCode \notin Codes
ASSUME AskedCodesAssumption == AskedCodes \subseteq Codes \cup {NoCode}
ASSUME SampleCountsAssumption == SampleCounts \subseteq Int
ASSUME StartupAssumption == StartupSamples \in Nat \ {0}
ASSUME ClientsWaitAssumption == ClientsWait \in BOOLEAN

\* The RPC methods that calibrate, and the link each one leaves the model based on
Methods == {"calib", "standing", "leftFoot", "rightFoot"}
Bases == {"support", "l_sole", "r_sole"}
BaseOf(method) ==
  CASE method = "leftFoot" -> "l_sole"
    [] method = "rightFoot" -> "r_sole"
    [] OTHER -> "support"

Calls == [method : Methods \cup {"reset"},
          code : Codes \cup {NoCode, Sensors},
          samples : SampleCounts \cup {StartupSamples}]
Startup == [method |-> "calib", code |-> Sensors, samples |-> StartupSamples]

Modes == {"NORMAL", "CALIBRATING", "CALIBRATING_ON_DOUBLE_SUPPORT"}
ModeOf(method) ==
  IF method = "standing" THEN "CALIBRATING_ON_DOUBLE_SUPPORT" ELSE "CALIBRATING"

Locations == {"idle", "request", "begin", "wait", "assert"}

VARIABLES
  mode,      \* wbd_mode
  runMutex,  \* holder of run_mutex
  calMutex,  \* is calibration_mutex locked?
  requested, \* samples_requested_for_calibration
  used,      \* samples_used_for_calibration
  flagged,   \* the sensors whose calibrate_ft_sensor is set
  buffer,    \* offset_buffer: how many samples of the sensor it sums up
  base,      \* floating base link of icub_model_calibration
  offset,    \* ft_sensors_offset: <<samples summed up, samples divided by>>
  pc,        \* where each client is
  call,      \* its RPC call
  current    \* the call whose calibration is under way, or was last

threadVars == <<mode, requested, used, flagged, buffer, base, offset, current>>
vars == <<threadVars, runMutex, calMutex, pc, call>>

\* samples are counted up to the number requested, and never reach it
CountsOfSamples ==
  {n \in Nat : n = 0 \/ \E m \in SampleCounts \cup {StartupSamples} : n < m}

TypeOK ==
  /\ mode \in Modes
  /\ runMutex \in Clients \cup {Nobody}
  /\ calMutex \in BOOLEAN
  /\ requested \in SampleCounts \cup {StartupSamples}
  /\ used \in CountsOfSamples
  /\ flagged \subseteq Sensors
  /\ buffer \in [Sensors -> Nat]
  /\ base \in Bases
  /\ offset \in [Sensors -> Nat \X Nat]
  /\ pc \in [Clients -> Locations]
  /\ call \in [Clients -> Calls]
  /\ current \in Calls

\* threadInit ends with calibrateOffset("all", 200)
Init ==
  /\ mode = "CALIBRATING"
  /\ runMutex = Nobody
  /\ calMutex = TRUE
  /\ requested = StartupSamples
  /\ used = 0
  /\ flagged = Sensors
  /\ buffer = [s \in Sensors |-> 0]
  /\ base = "support"
  /\ offset = [s \in Sensors |-> <<0, 0>>]
  /\ pc = [c \in Clients |-> "idle"]
  /\ call = [c \in Clients |-> Startup]
  /\ current = Startup

--------------------------------------------------------------------------------
(* The RPC threads *)

\* a command arrives on the RPC port
Call(c) ==
  /\ pc[c] = "idle"
  /\ ClientsWait => mode = "NORMAL" /\ \A d \in Clients : pc[d] = "idle"
  /\ \E method \in Methods \cup {"reset"}, code \in AskedCodes, samples \in SampleCounts :
       call' = [call EXCEPT ![c] = [method |-> method, code |-> code, samples |-> samples]]
  /\ pc' = [pc EXCEPT ![c] = "request"]
  /\ UNCHANGED <<threadVars, runMutex, calMutex>>

\* calibrateOffset* checks the number of samples, which it has stored already,
\* and then decodes the code
Accepted(c) == call[c].samples > 0 /\ call[c].code # NoCode

\* calibrateOffset* up to calibration_mutex.lock(): run_mutex is still held there
Request(c) ==
  LET method == call[c].method IN
  /\ pc[c] = "request" /\ method # "reset"
  /\ Accepted(c)
  /\ runMutex = Nobody
  /\ runMutex' = c
  /\ requested' = call[c].samples
  /\ flagged' = flagged \cup call[c].code
  /\ base' = IF method = "standing" THEN base ELSE BaseOf(method)
  /\ pc' = [pc EXCEPT ![c] = "begin"]
  /\ UNCHANGED <<mode, calMutex, used, buffer, offset, call, current>>

\* calibrateOffset* returns false: only the double support one, which holds a
\* LockGuard, releases run_mutex.  The callers ignore the result and wait.
Refuse(c) ==
  /\ pc[c] = "request" /\ call[c].method # "reset"
  /\ ~Accepted(c)
  /\ runMutex = Nobody
  /\ runMutex' = IF call[c].method = "standing" THEN Nobody ELSE c
  /\ requested' = call[c].samples
  /\ pc' = [pc EXCEPT ![c] = "wait"]
  /\ UNCHANGED <<mode, calMutex, used, flagged, buffer, base, offset, call, current>>

\* calibration_mutex is locked, the mode is set, run_mutex goes to holder
BeginLocked(c, holder) ==
  /\ pc[c] = "begin"
  /\ calMutex' = TRUE
  /\ mode' = ModeOf(call[c].method)
  /\ current' = call[c]
  /\ runMutex' = holder
  /\ pc' = [pc EXCEPT ![c] = "wait"]
  /\ UNCHANGED <<requested, used, flagged, buffer, base, offset, call>>

\* Wrong variants: calibration_mutex is not waited for, run_mutex is not released
BeginWithoutWaiting(c) == BeginLocked(c, Nobody)
BeginKeepsRunMutex(c) == ~calMutex /\ BeginLocked(c, c)

\* calibration_mutex.lock() once it is free, up to the return of calibrateOffset*
Begin(c) == ~calMutex /\ BeginLocked(c, Nobody)

\* waitCalibrationDone locks calibration_mutex, asserts wbd_mode == NORMAL ...
Wait(c) ==
  /\ pc[c] = "wait"
  /\ ~calMutex /\ calMutex' = TRUE
  /\ pc' = [pc EXCEPT ![c] = "assert"]
  /\ UNCHANGED <<threadVars, runMutex, call>>

\* ... unlocks it, and the command is answered with true
Answer(c) ==
  /\ pc[c] = "assert"
  /\ calMutex' = FALSE
  /\ pc' = [pc EXCEPT ![c] = "idle"]
  /\ UNCHANGED <<threadVars, runMutex, call>>

\* resetOffset: the flags it sets and clears are those of a running calibration;
\* it answers true, and keeps run_mutex if the code is not accepted
Reset(c) ==
  LET code == call[c].code IN
  /\ pc[c] = "request" /\ call[c].method = "reset"
  /\ runMutex = Nobody
  /\ IF code = NoCode
       THEN runMutex' = c /\ UNCHANGED <<flagged, offset>>
       ELSE /\ offset' = [s \in Sensors |->
                            IF s \in flagged \cup code THEN <<0, 0>> ELSE offset[s]]
            /\ flagged' = {}
            /\ UNCHANGED runMutex
  /\ pc' = [pc EXCEPT ![c] = "idle"]
  /\ UNCHANGED <<mode, calMutex, requested, used, buffer, base, call, current>>

--------------------------------------------------------------------------------
(* run of the estimation thread, when it is calibrating *)

Summed == [s \in Sensors |-> IF s \in flagged THEN buffer[s] + 1 ELSE buffer[s]]

\* calibration_run and calibration_on_double_support_run: one more sample ...
Sample ==
  /\ mode # "NORMAL"
  /\ runMutex = Nobody
  /\ used + 1 < requested
  /\ used' = used + 1
  /\ buffer' = Summed
  /\ UNCHANGED <<mode, runMutex, calMutex, requested, flagged, base, offset, pc, call, current>>

\* ... or the last one: the offsets are replaced, calibration_mutex is unlocked
Average(buffer2, flagged2, base2) ==
  /\ mode # "NORMAL"
  /\ runMutex = Nobody
  /\ offset' = [s \in Sensors |-> IF s \in flagged THEN <<Summed[s], used + 1>> ELSE offset[s]]
  /\ buffer' = buffer2
  /\ used' = 0
  /\ flagged' = flagged2
  /\ base' = base2
  /\ mode' = "NORMAL"
  /\ calMutex' = FALSE
  /\ UNCHANGED <<runMutex, requested, pc, call, current>>

LastSample == used + 1 >= requested
NoSum == [s \in Sensors |-> 0]

\* Wrong variants: what the next calibration starts from is not restored, or one
\* sample too many is awaited
CompleteKeepsBuffer == LastSample /\ Average(Summed, {}, "support")
CompleteKeepsFlags == LastSample /\ Average(NoSum, flagged, "support")
CompleteKeepsBase == LastSample /\ Average(NoSum, {}, base)
CompleteLate ==
  \/ used >= requested /\ Average(NoSum, {}, "support")
  \/ /\ mode # "NORMAL" /\ runMutex = Nobody
     /\ used + 1 = requested
     /\ used' = requested /\ buffer' = Summed
     /\ UNCHANGED <<mode, runMutex, calMutex, requested, flagged, base, offset, pc, call, current>>

Complete == LastSample /\ Average(NoSum, {}, "support")

--------------------------------------------------------------------------------

Calibrate == Sample \/ Complete

\* what a client does without waiting for calibration_mutex
Step(c) == Request(c) \/ Refuse(c) \/ Reset(c) \/ Answer(c)

Next ==
  \/ \E c \in Clients : Call(c) \/ Step(c) \/ Begin(c) \/ Wait(c)
  \/ Calibrate

Spec == Init /\ [][Next]_vars

(***************************************************************************)
(* The estimation thread runs periodically, and a client that waits for a  *)
(* mutex gets it if it is free again and again: both are held for a small  *)
(* part of each period.  Nobody has to send a command.                     *)
(***************************************************************************)
Fairness ==
  /\ SF_vars(Calibrate)
  /\ \A c \in Clients : SF_vars(Step(c)) /\ SF_vars(Begin(c)) /\ SF_vars(Wait(c))

FairSpec == Spec /\ Fairness

--------------------------------------------------------------------------------
(* Properties *)

\* assert(wbd_mode == NORMAL) in waitCalibrationDone never fails, whatever the
\* other clients have started in the meantime.
AssertionHolds == \A c \in Clients : pc[c] = "assert" => mode = "NORMAL"

\* A calibration in progress that run can continue: nobody holds run_mutex
Calibrating == mode # "NORMAL" /\ runMutex = Nobody

\* The samples summed up for a sensor are all those of the calibration under way:
\* none of an earlier one, none missing; the offset is their true average.
OwnSamplesOnly == Calibrating => \A s \in flagged : buffer[s] = used

\* A calibration only ever replaces the offsets of the sensors its code names,
\* even when other calibrations were asked for, refused or reset meanwhile.
OnlyAskedSensors == Calibrating => flagged \subseteq current.code

\* The dynamic model is based on the link the calibration under way stands on.
RightBase == Calibrating => base = BaseOf(current.method)

\* When calib* is about to answer true, every sensor of its code has an offset
\* averaged over the samples asked for ("@return true/false on success/failure").
TrueMeansCalibrated ==
  \A c \in Clients : pc[c] = "assert" =>
    /\ call[c].code # NoCode
    /\ \A s \in call[c].code : offset[s] = <<call[c].samples, call[c].samples>>

\* Every command is answered: waitCalibrationDone waits "for the calibration to
\* end and then return".
CallsReturn == \A c \in Clients : pc[c] # "idle" ~> pc[c] = "idle"

\* Calibrations end and run goes on estimating torques: no command takes the
\* estimation thread out of service.
EstimationResumes == []<>(mode = "NORMAL" /\ runMutex = Nobody)

================================================================================
