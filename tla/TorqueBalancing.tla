---------------------------- MODULE TorqueBalancing ----------------------------
(***************************************************************************)
(* Activation and control loop of the torqueBalancing module.              *)
(*                                                                         *)
(* Several threads share the state below: the controller's RateThread,     *)
(* one RateThread per reference generator, the threads that stream         *)
(* references (comDes:i, qDes:i), and the callers of                       *)
(* setControllersActiveState: the RPC thread (start, stop) and the main    *)
(* thread (autostart in configure, close).  The controller thread calls    *)
(* it too, from inside run(), when the robot fails.                        *)
(*                                                                         *)
(* A section under a generator's mutex is one step: no thread holds it     *)
(* while it waits for the controller's.  The controller's mutex m_mutex    *)
(* is held over many steps, and its holder is the variable mutex.          *)
(***************************************************************************)
EXTENDS Integers

CONSTANTS
  Callers,       \* threads that call setControllersActiveState (RPC, main)
  Controller,    \* the controller's thread
  NoThread,      \* holder of a free mutex
  NumTasks,      \* number of tasks, task 1 is the CoM task (2 in the code)
  StreamedTasks, \* tasks whose port (comDes:i, qDes:i) somebody streams to
  RobotMayFail,  \* may updateRobotState fail, or a joint leave its limits?
  MaxSessions    \* bound: the activations requested by the callers

ASSUME CallersAssumption == Controller \notin Callers
ASSUME NoThreadAssumption == NoThread \notin Callers \cup {Controller}
ASSUME NumTasksAssumption == NumTasks \in Nat \ {0}
ASSUME StreamedTasksAssumption == StreamedTasks \subseteq 1..NumTasks
ASSUME RobotAssumption == RobotMayFail \in BOOLEAN
ASSUME MaxSessionsAssumption == MaxSessions \in Nat

Threads == Callers \cup {Controller}
Tasks == 1..NumTasks
COM == 1

(***************************************************************************)
(* What a reference is worth: where its value comes from and the session   *)
(* (the activation) it belongs to.  "zero" is the null vector, "reader"    *)
(* the signal the generator reads, "measured" the pose measured by         *)
(* setControllersActiveState, "user" a streamed reference.                 *)
(***************************************************************************)
Poses == {"zero", "reader", "measured", "user"} \X Nat
Zero == <<"zero", 0>>
Measured(session) == <<"measured", session>>
User(session) == <<"user", session>>

Modes == {"POS", "TORQUE"}

\* Where a thread is: in setControllersActiveState, or in the controller's run
Switching == {"check", "assign", "measure", "capture", "generator", "signal",
              "state", "compare", "lock"}
InSetActiveState == {"mode", "flag"}
Computing == {"valid", "copy", "update", "write"}
Failing == {"fail", "event"}
Locations == {"idle"} \cup Switching \cup InSetActiveState \cup Computing \cup Failing

VARIABLES
  active,      \* TorqueBalancingModule::m_active
  measured,    \* session m_jointsConfiguration and m_comReference belong to
  ctrlActive,  \* TorqueBalancingController::m_active
  mutex,       \* holder of TorqueBalancingController::m_mutex
  mode,        \* control mode of the robot's joints
  desired,     \* what readReferences copied: m_desiredCOMAcceleration, ...
  genActive,   \* ReferenceGenerator::m_active of each task
  genRef,      \* ReferenceGenerator::m_signalReference of each task
  outValid,    \* m_outputReference of each task: its valid flag
  outValue,    \*   and its value
  streamed,    \* was a reference streamed for the task in this session?
  pc,          \* where each thread is
  request,     \* argument of the thread's setControllersActiveState
  captured,    \* what the thread last read of m_active
  task         \* index of the thread's loop over the tasks

moduleVars == <<active, measured>>
robotVars == <<ctrlActive, mutex, mode, desired>>
genVars == <<genActive, genRef, outValid, outValue, streamed>>
localVars == <<request, captured, task>>
vars == <<moduleVars, robotVars, genVars, pc, localVars>>

TypeOK ==
  /\ active \in BOOLEAN
  /\ measured \in Nat
  /\ ctrlActive \in BOOLEAN
  /\ mutex \in Threads \cup {NoThread}
  /\ mode \in Modes
  /\ desired \in [Tasks -> Poses]
  /\ genActive \in [Tasks -> BOOLEAN]
  /\ genRef \in [Tasks -> Poses]
  /\ outValid \in [Tasks -> BOOLEAN]
  /\ outValue \in [Tasks -> Poses]
  /\ streamed \in [Tasks -> BOOLEAN]
  /\ pc \in [Threads -> Locations]
  /\ request \in [Threads -> BOOLEAN]
  /\ captured \in [Threads -> BOOLEAN]
  /\ task \in [Threads -> Tasks]

\* configure measured the initial pose and set it in each generator; every
\* thread was started inactive and the robot is in position control
Init ==
  /\ active = FALSE
  /\ measured = 0
  /\ ctrlActive = FALSE
  /\ mutex = NoThread
  /\ mode = "POS"
  /\ desired = [t \in Tasks |-> Zero]
  /\ genActive = [t \in Tasks |-> FALSE]
  /\ genRef = [t \in Tasks |-> Measured(0)]
  /\ outValid = [t \in Tasks |-> FALSE]
  /\ outValue = [t \in Tasks |-> Zero]
  /\ streamed = [t \in Tasks |-> FALSE]
  /\ pc = [p \in Threads |-> "idle"]
  /\ request = [p \in Threads |-> FALSE]
  /\ captured = [p \in Threads |-> FALSE]
  /\ task = [p \in Threads |-> 1]

Goto(p, from, to) == pc[p] = from /\ pc' = [pc EXCEPT ![p] = to]

\* the controller's thread returns into controllerDidStop, which sends the event
Return(p) == IF p = Controller THEN "event" ELSE "idle"

--------------------------------------------------------------------------------
(* setControllersActiveState *)

\* RPC command start or stop, autostart, or close
Call(c, isActive) ==
  /\ isActive => measured < MaxSessions
  /\ Goto(c, "idle", "check")
  /\ request' = [request EXCEPT ![c] = isActive]
  /\ UNCHANGED <<moduleVars, robotVars, genVars, captured, task>>

\* if (isActive == m_active) return;
CheckState(p) ==
  /\ Goto(p, "check", IF request[p] = active THEN Return(p) ELSE "assign")
  /\ UNCHANGED <<moduleVars, robotVars, genVars, localVars>>

\* m_active = isActive;
AssignState(p) ==
  /\ Goto(p, "assign", IF request[p] THEN "measure" ELSE "capture")
  /\ active' = request[p]
  /\ UNCHANGED <<measured, robotVars, genVars, localVars>>

\* the joints and the CoM are measured under the interface's mutex
Measure(p) ==
  /\ Goto(p, "measure", "capture")
  /\ measured' = measured + 1
  /\ streamed' = [t \in Tasks |-> FALSE]
  /\ UNCHANGED <<active, robotVars, genActive, genRef, outValid, outValue, localVars>>

\* comTaskActive and impedanceTaskActive are read from m_active, not isActive
CaptureState(p) ==
  /\ Goto(p, "capture", "generator")
  /\ captured' = [captured EXCEPT ![p] = active]
  /\ task' = [task EXCEPT ![p] = COM]
  /\ UNCHANGED <<moduleVars, robotVars, genVars, request>>

\* what a generator reads when it is activated: the CoM, or VoidReader's zeros
ReaderSignal(t) == IF t = COM THEN <<"reader", measured>> ELSE Zero

\* Wrong variant: deactivation forgets setValid(false)
SetGeneratorKeepsValid(p) ==
  LET t == task[p]
      isActive == captured[p]
  IN /\ Goto(p, "generator", "signal")
     /\ genActive' = [genActive EXCEPT ![t] = isActive]
     /\ genRef' = IF isActive /\ ~genActive[t]
                    THEN [genRef EXCEPT ![t] = ReaderSignal(t)] ELSE genRef
     /\ UNCHANGED <<moduleVars, robotVars, outValid, outValue, streamed, localVars>>

\* ReferenceGenerator::setActiveState, under the generator's mutex
SetGenerator(p) ==
  LET t == task[p]
      isActive == captured[p]
  IN /\ Goto(p, "generator", "signal")
     /\ genActive' = [genActive EXCEPT ![t] = isActive]
     /\ genRef' = IF isActive /\ ~genActive[t]
                    THEN [genRef EXCEPT ![t] = ReaderSignal(t)] ELSE genRef
     /\ outValid' = IF ~isActive /\ genActive[t]
                      THEN [outValid EXCEPT ![t] = FALSE] ELSE outValid
     /\ UNCHANGED <<moduleVars, robotVars, outValue, streamed, localVars>>

\* Wrong variant: the loop over the tasks does not stop after the last one
SetSignalOverrun(p) ==
  LET t == task[p] IN
  /\ Goto(p, "signal", IF t = NumTasks THEN "state" ELSE "generator")
  /\ genRef' = [genRef EXCEPT ![t] = Measured(measured)]
  /\ task' = [task EXCEPT ![p] = t + 1]
  /\ UNCHANGED <<moduleVars, robotVars, genActive, outValid, outValue,
                 streamed, request, captured>>

\* Wrong variant: the reference of the generator is not replaced
SetSignalKeepsReference(p) ==
  LET last == task[p] = NumTasks IN
  /\ Goto(p, "signal", IF last THEN "state" ELSE "generator")
  /\ task' = [task EXCEPT ![p] = IF last THEN @ ELSE @ + 1]
  /\ UNCHANGED <<moduleVars, robotVars, genVars, request, captured>>

\* ReferenceGenerator::setSignalReference(m_comReference or m_jointsConfiguration)
SetSignal(p) ==
  LET t == task[p]
      last == t = NumTasks
  IN /\ Goto(p, "signal", IF last THEN "state" ELSE "generator")
     /\ genRef' = [genRef EXCEPT ![t] = Measured(measured)]
     /\ task' = [task EXCEPT ![p] = IF last THEN t ELSE t + 1]
     /\ UNCHANGED <<moduleVars, robotVars, genActive, outValid, outValue,
                    streamed, request, captured>>

\* Wrong variant: the controller is asked to stop where it should be asked to start
ReadStateNegated(p) ==
  /\ Goto(p, "state", "compare")
  /\ captured' = [captured EXCEPT ![p] = active /\ ~captured[p]]
  /\ UNCHANGED <<moduleVars, robotVars, genVars, request, task>>

\* the argument m_active && controlSet is read again from the member
ReadState(p) ==
  /\ Goto(p, "state", "compare")
  /\ captured' = [captured EXCEPT ![p] = active]
  /\ UNCHANGED <<moduleVars, robotVars, genVars, request, task>>

(* TorqueBalancingController::setActiveState *)

\* if (m_active == isActive) return;  before the mutex is taken
CompareState(p) ==
  /\ Goto(p, "compare", IF ctrlActive = captured[p] THEN Return(p) ELSE "lock")
  /\ UNCHANGED <<moduleVars, robotVars, genVars, localVars>>

\* Wrong variant: setActiveState without the lock guard
LockWithoutWaiting(p) ==
  /\ Goto(p, "lock", "mode")
  /\ UNCHANGED <<moduleVars, robotVars, genVars, localVars>>

Lock(p) ==
  /\ mutex = NoThread
  /\ Goto(p, "lock", "mode")
  /\ mutex' = p
  /\ UNCHANGED <<moduleVars, ctrlActive, mode, desired, genVars, localVars>>

SwitchMode(p) ==
  /\ Goto(p, "mode", "flag")
  /\ mode' = IF captured[p] THEN "TORQUE" ELSE "POS"
  /\ desired' = IF captured[p] THEN [desired EXCEPT ![COM] = Zero] ELSE desired
  /\ UNCHANGED <<moduleVars, ctrlActive, mutex, genVars, localVars>>

\* Wrong variant: the mutex is never released
SetFlagKeepsLock(p) ==
  /\ Goto(p, "flag", Return(p))
  /\ ctrlActive' = captured[p]
  /\ UNCHANGED <<moduleVars, mutex, mode, desired, genVars, localVars>>

SetFlag(p) ==
  /\ Goto(p, "flag", Return(p))
  /\ ctrlActive' = captured[p]
  /\ mutex' = NoThread
  /\ UNCHANGED <<moduleVars, mode, desired, genVars, localVars>>

--------------------------------------------------------------------------------
(* TorqueBalancingController::run *)

\* the mutex is taken; an inactive controller gives it back at once
RunBegin ==
  /\ mutex = NoThread
  /\ ctrlActive
  /\ Goto(Controller, "idle", "valid")
  /\ mutex' = Controller
  /\ task' = [task EXCEPT ![Controller] = COM]
  /\ UNCHANGED <<moduleVars, ctrlActive, mode, desired, genVars, request, captured>>

\* the loop over the references goes on to the next one, or readReferences ends
NextReference ==
  LET t == task[Controller] IN
  /\ pc' = [pc EXCEPT ![Controller] = IF t = NumTasks THEN "update" ELSE "valid"]
  /\ task' = [task EXCEPT ![Controller] = IF t = NumTasks THEN t ELSE t + 1]

\* isValid() takes and releases the reference's own lock
ReadValid ==
  /\ pc[Controller] = "valid"
  /\ IF outValid[task[Controller]]
       THEN Goto(Controller, "valid", "copy") /\ UNCHANGED task
       ELSE NextReference
  /\ UNCHANGED <<moduleVars, robotVars, genVars, request, captured>>

\* value() is read in a second step
ReadValue ==
  LET t == task[Controller] IN
  /\ pc[Controller] = "copy"
  /\ NextReference
  /\ desired' = [desired EXCEPT ![t] = outValue[t]]
  /\ UNCHANGED <<moduleVars, ctrlActive, mutex, mode, genVars, request, captured>>

\* updateRobotState succeeds and the joints are within their limits
UpdateRobotState ==
  /\ Goto(Controller, "update", "write")
  /\ UNCHANGED <<moduleVars, robotVars, genVars, localVars>>

\* ... or not: setControlMode(POS), with m_active still true
RobotFails ==
  /\ RobotMayFail
  /\ Goto(Controller, "update", "fail")
  /\ mode' = "POS"
  /\ UNCHANGED <<moduleVars, ctrlActive, mutex, desired, genVars, localVars>>

\* Wrong variant: the failure path forgets m_active = false
DeactivateKeepsActive ==
  /\ Goto(Controller, "fail", "check")
  /\ request' = [request EXCEPT ![Controller] = FALSE]
  /\ UNCHANGED <<moduleVars, robotVars, genVars, captured, task>>

\* m_active = false, then the delegate calls setControllersActiveState(false)
\* from this thread, which still holds m_mutex
Deactivate ==
  /\ Goto(Controller, "fail", "check")
  /\ ctrlActive' = FALSE
  /\ request' = [request EXCEPT ![Controller] = FALSE]
  /\ UNCHANGED <<moduleVars, mutex, mode, desired, genVars, captured, task>>

\* the stop event is written and run returns
SendStopEvent ==
  /\ Goto(Controller, "event", "idle")
  /\ mutex' = NoThread
  /\ UNCHANGED <<moduleVars, ctrlActive, mode, desired, genVars, localVars>>

\* forces and torques are computed and written, run returns
WriteTorques ==
  /\ Goto(Controller, "write", "idle")
  /\ mutex' = NoThread
  /\ UNCHANGED <<moduleVars, ctrlActive, mode, desired, genVars, localVars>>

--------------------------------------------------------------------------------
(* The generators and the streaming ports *)

\* Wrong variant: setValue does not mark the output valid
GeneratorRunStaysInvalid(t) ==
  /\ genActive[t]
  /\ outValue' = [outValue EXCEPT ![t] = genRef[t]]
  /\ UNCHANGED <<moduleVars, robotVars, genActive, genRef, outValid, streamed, pc, localVars>>

\* ReferenceGenerator::run: the output is a function of the signal reference
GeneratorRun(t) ==
  /\ genActive[t]
  /\ outValue' = [outValue EXCEPT ![t] = genRef[t]]
  /\ outValid' = [outValid EXCEPT ![t] = TRUE]
  /\ UNCHANGED <<moduleVars, robotVars, genActive, genRef, streamed, pc, localVars>>

\* a vector arrives at comDes:i or qDes:i: referenceDidChangeValue
Stream(t) ==
  /\ genRef' = [genRef EXCEPT ![t] = User(measured)]
  /\ streamed' = [streamed EXCEPT ![t] = TRUE]
  /\ UNCHANGED <<moduleVars, robotVars, genActive, outValid, outValue, pc, localVars>>

--------------------------------------------------------------------------------

SwitchStep(p) ==
  \/ CheckState(p)
  \/ AssignState(p)
  \/ Measure(p)
  \/ CaptureState(p)
  \/ SetGenerator(p)
  \/ SetSignal(p)
  \/ ReadState(p)
  \/ CompareState(p)
  \/ SwitchMode(p)
  \/ SetFlag(p)

RunStep ==
  \/ ReadValid
  \/ ReadValue
  \/ UpdateRobotState
  \/ RobotFails
  \/ Deactivate
  \/ SendStopEvent
  \/ WriteTorques

Next ==
  \/ \E c \in Callers, isActive \in BOOLEAN : Call(c, isActive)
  \/ \E p \in Threads : SwitchStep(p) \/ Lock(p)
  \/ RunBegin
  \/ RunStep
  \/ \E t \in Tasks : GeneratorRun(t)
  \/ \E t \in StreamedTasks : Stream(t)

Spec == Init /\ [][Next]_vars

(***************************************************************************)
(* Threads that are not blocked keep running, and generators run           *)
(* periodically.  The mutex is not a fair one, but its holder sleeps for   *)
(* most of each period of the RateThread, so a thread that waits for it    *)
(* does get it if it is free again and again.  Nobody has to call, stream  *)
(* or fail.                                                                *)
(***************************************************************************)
Fairness ==
  /\ \A p \in Threads : WF_vars(SwitchStep(p)) /\ SF_vars(Lock(p))
  /\ SF_vars(RunBegin)
  /\ WF_vars(RunStep)
  /\ \A t \in Tasks : WF_vars(GeneratorRun(t))

FairSpec == Spec /\ Fairness

--------------------------------------------------------------------------------
(* Properties *)

\* The controller computes and writes torques only while the robot's joints are
\* in torque control: no caller's setActiveState can switch the mode between the
\* check of m_active in run and writeTorques.
TorqueOnlyInTorqueMode ==
  pc[Controller] \in Computing => mode = "TORQUE" /\ ctrlActive

\* Whenever nobody holds m_mutex, the controller is active exactly when the robot
\* is in torque control, whatever was started, stopped or failed concurrently.
ModeMatchesController ==
  mutex = NoThread => (ctrlActive <=> mode = "TORQUE")

\* A generator's output is valid only while the generator is active: what the
\* controller reads after a stop is never announced as a fresh reference.
ValidOnlyWhileActive ==
  \A t \in Tasks : outValid[t] => genActive[t]

Quiet == \A p \in Threads : pc[p] = "idle"

\* When no activation is under way, the module, its generators and its controller
\* are all active or all inactive ("Set the active state of all the threads
\* managed by this module", TorqueBalancingModule.h).
AllThreadsAgree ==
  Quiet => /\ ctrlActive = active
           /\ \A t \in Tasks : genActive[t] = active

\* Once start has returned, a generator follows the pose measured by that start
\* until somebody streams another: nothing is left of an earlier session.
DiscardsOldReferences ==
  Quiet /\ active =>
    \A t \in Tasks : streamed[t] \/ genRef[t] = Measured(measured)

\* A valid output never carries a pose of an earlier session.
PublishesCurrentSession ==
  \A t \in Tasks : outValid[t] /\ outValue[t] # Zero => outValue[t][2] = measured

\* The poses that keep the robot still in this session: the one measured by start
\* and, for the CoM, a null acceleration or the position read at activation
StillPoses(t) ==
  {Measured(measured)} \cup (IF t = COM THEN {Zero, ReaderSignal(COM)} ELSE {})
Still(t) == streamed[t] \/ desired[t] \in StillPoses(t)

\* After start the robot stays where it is until a reference is streamed: torques
\* are never computed from anything but the pose measured by that start.
StaysStill ==
  pc[Controller] = "write" => \A t \in Tasks : Still(t)

\* Every setControllersActiveState returns, so every RPC command is answered.
CallsReturn ==
  \A c \in Callers : pc[c] # "idle" ~> pc[c] = "idle"

\* After start the controller ends up balancing around the measured pose, unless
\* it is told otherwise.
EventuallyStill ==
  (Quiet /\ active) ~> (~active \/ \A t \in Tasks : Still(t))

--------------------------------------------------------------------------------
(* Refinement *)

Switch == INSTANCE BalancingSwitch WITH
            torque <- mode = "TORQUE",
            computing <- pc[Controller] \in Computing

\* The threads implement the abstract switch: no stop, start or other caller of
\* setActiveState ends or begins torque control inside a control cycle.
ImplementsSwitch == Switch!Spec

================================================================================
