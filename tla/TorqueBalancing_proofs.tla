------------------------- MODULE TorqueBalancing_proofs -------------------------
(***************************************************************************)
(* What holds of TorqueBalancing for every set of callers and every number *)
(* of tasks: type correctness, who holds m_mutex where, the agreement of   *)
(* the robot's mode with the controller's m_active, and the refinement of  *)
(* BalancingSwitch.                                                        *)
(***************************************************************************)
EXTENDS TorqueBalancing, TLAPS

USE DEF Threads

LEMMA Constants ==
  /\ Controller \notin Callers
  /\ NoThread \notin Callers
  /\ NoThread # Controller
  /\ COM \in Tasks
  /\ NumTasks \in Nat /\ NumTasks > 0
  /\ StreamedTasks \subseteq Tasks
BY CallersAssumption, NoThreadAssumption, NumTasksAssumption,
   StreamedTasksAssumption DEF Tasks, COM

LEMMA PoseTypes ==
  /\ Zero \in Poses
  /\ \A n \in Nat : Measured(n) \in Poses /\ User(n) \in Poses
  /\ \A t \in Tasks : measured \in Nat => ReaderSignal(t) \in Poses
BY DEF Zero, Measured, User, Poses, ReaderSignal

LEMMA LocationTypes ==
  /\ Locations = {"idle", "check", "assign", "measure", "capture", "generator",
                  "signal", "state", "compare", "lock", "mode", "flag", "valid",
                  "copy", "update", "write", "fail", "event"}
  /\ \A p \in Threads : Return(p) \in {"idle", "event"}
BY DEF Locations, Switching, InSetActiveState, Computing, Failing, Return

--------------------------------------------------------------------------------

LEMMA TypeInductive == TypeOK /\ [Next]_vars => TypeOK'
<1> SUFFICES ASSUME TypeOK, [Next]_vars PROVE TypeOK'
  OBVIOUS
<1> USE Constants, PoseTypes, LocationTypes
<1>1. ASSUME NEW c \in Callers, NEW isActive \in BOOLEAN, Call(c, isActive)
      PROVE  TypeOK'
  BY <1>1 DEF TypeOK, Call, Goto, moduleVars, robotVars, genVars
<1>2. ASSUME NEW p \in Threads, SwitchStep(p) PROVE TypeOK'
  <2>1. CASE CheckState(p)
    BY <2>1 DEF TypeOK, CheckState, Goto, moduleVars, robotVars, genVars, localVars
  <2>2. CASE AssignState(p)
    BY <2>2 DEF TypeOK, AssignState, Goto, robotVars, genVars, localVars
  <2>3. CASE Measure(p)
    BY <2>3 DEF TypeOK, Measure, Goto, robotVars, localVars
  <2>4. CASE CaptureState(p)
    BY <2>4 DEF TypeOK, CaptureState, Goto, moduleVars, robotVars, genVars
  <2>5. CASE SetGenerator(p)
    BY <2>5 DEF TypeOK, SetGenerator, Goto, moduleVars, robotVars, localVars
  <2>6. CASE SetSignal(p)
    <3>1. task[p] \in Tasks /\ (task[p] # NumTasks => task[p] + 1 \in Tasks)
      BY DEF TypeOK, Tasks
    <3>2. QED
      BY <2>6, <3>1 DEF TypeOK, SetSignal, Goto, moduleVars, robotVars
  <2>7. CASE ReadState(p)
    BY <2>7 DEF TypeOK, ReadState, Goto, moduleVars, robotVars, genVars
  <2>8. CASE CompareState(p)
    BY <2>8 DEF TypeOK, CompareState, Goto, moduleVars, robotVars, genVars, localVars
  <2>9. CASE SwitchMode(p)
    BY <2>9 DEF TypeOK, SwitchMode, Goto, Modes, moduleVars, genVars, localVars
  <2>10. CASE SetFlag(p)
    BY <2>10 DEF TypeOK, SetFlag, Goto, moduleVars, genVars, localVars
  <2>11. QED
    BY <1>2, <2>1, <2>2, <2>3, <2>4, <2>5, <2>6, <2>7, <2>8, <2>9, <2>10 DEF SwitchStep
<1>3. ASSUME NEW p \in Threads, Lock(p) PROVE TypeOK'
  BY <1>3 DEF TypeOK, Lock, Goto, moduleVars, genVars, localVars
<1>4. CASE RunBegin
  BY <1>4 DEF TypeOK, RunBegin, Goto, moduleVars, genVars
<1>5. CASE RunStep
  <2>0. ASSUME NextReference
        PROVE  /\ pc' \in [Threads -> Locations]
               /\ task' \in [Threads -> Tasks]
    <3>1. /\ task[Controller] \in Tasks
          /\ task[Controller] # NumTasks => task[Controller] + 1 \in Tasks
      BY DEF TypeOK, Tasks
    <3>2. QED
      BY <2>0, <3>1 DEF TypeOK, NextReference
  <2>1. CASE ReadValid
    BY <2>0, <2>1 DEF TypeOK, ReadValid, Goto, moduleVars, robotVars, genVars
  <2>2. CASE ReadValue
    BY <2>0, <2>2 DEF TypeOK, ReadValue, moduleVars, genVars
  <2>3. CASE UpdateRobotState
    BY <2>3 DEF TypeOK, UpdateRobotState, Goto, moduleVars, robotVars, genVars, localVars
  <2>4. CASE RobotFails
    BY <2>4 DEF TypeOK, RobotFails, Goto, Modes, moduleVars, genVars, localVars
  <2>5. CASE Deactivate
    BY <2>5 DEF TypeOK, Deactivate, Goto, moduleVars, genVars
  <2>6. CASE SendStopEvent
    BY <2>6 DEF TypeOK, SendStopEvent, Goto, moduleVars, genVars, localVars
  <2>7. CASE WriteTorques
    BY <2>7 DEF TypeOK, WriteTorques, Goto, moduleVars, genVars, localVars
  <2>8. QED
    BY <1>5, <2>1, <2>2, <2>3, <2>4, <2>5, <2>6, <2>7 DEF RunStep
<1>6. ASSUME NEW t \in Tasks, GeneratorRun(t) PROVE TypeOK'
  BY <1>6 DEF TypeOK, GeneratorRun, moduleVars, robotVars, localVars
<1>7. ASSUME NEW t \in StreamedTasks, Stream(t) PROVE TypeOK'
  BY <1>7 DEF TypeOK, Stream, moduleVars, robotVars, localVars
<1>8. CASE UNCHANGED vars
  BY <1>8 DEF TypeOK, vars, moduleVars, robotVars, genVars, localVars
<1>9. QED
  BY <1>1, <1>2, <1>3, <1>4, <1>5, <1>6, <1>7, <1>8 DEF Next

\* Every variable keeps its type, for any callers and any number of tasks: in
\* particular the loops over the tasks never leave the arrays.
THEOREM TypeCorrect == Spec => []TypeOK
<1>1. Init => TypeOK
  <2> SUFFICES ASSUME Init PROVE TypeOK
    OBVIOUS
  <2>1. 1 \in Tasks /\ "idle" \in Locations /\ Measured(0) \in Poses /\ Zero \in Poses
    BY Constants, PoseTypes, LocationTypes DEF COM
  <2>2. /\ active \in BOOLEAN /\ measured \in Nat /\ ctrlActive \in BOOLEAN
        /\ mutex \in Threads \cup {NoThread} /\ mode \in Modes
    BY DEF Init, Modes
  <2>3. /\ desired \in [Tasks -> Poses] /\ genActive \in [Tasks -> BOOLEAN]
        /\ genRef \in [Tasks -> Poses] /\ outValid \in [Tasks -> BOOLEAN]
        /\ outValue \in [Tasks -> Poses] /\ streamed \in [Tasks -> BOOLEAN]
    BY <2>1 DEF Init
  <2>4. /\ pc \in [Threads -> Locations] /\ request \in [Threads -> BOOLEAN]
        /\ captured \in [Threads -> BOOLEAN] /\ task \in [Threads -> Tasks]
    BY <2>1 DEF Init
  <2>5. QED
    BY <2>2, <2>3, <2>4 DEF TypeOK
<1>2. QED
  BY <1>1, TypeInductive, PTL DEF Spec

--------------------------------------------------------------------------------

(***************************************************************************)
(* Who holds m_mutex.  A caller holds it inside setActiveState only; the   *)
(* controller holds it during the whole of run, the delegate's call of     *)
(* setControllersActiveState included, so it never gets past Lock.         *)
(***************************************************************************)
CallerLocations == {"idle"} \cup Switching \cup InSetActiveState

LockInv ==
  /\ \A c \in Callers : /\ pc[c] \in CallerLocations
                        /\ mutex = c <=> pc[c] \in InSetActiveState
  /\ pc[Controller] \notin InSetActiveState
  /\ mutex = Controller <=> pc[Controller] # "idle"

(***************************************************************************)
(* The mode of the robot and m_active at each place where they may differ. *)
(***************************************************************************)
ModeInv ==
  /\ mutex = NoThread => (ctrlActive <=> mode = "TORQUE")
  /\ pc[Controller] \in Computing => ctrlActive /\ mode = "TORQUE"
  /\ pc[Controller] = "fail" => mode = "POS"
  /\ pc[Controller] \in Switching \cup {"event"} => ~ctrlActive /\ mode = "POS"
  /\ \A c \in Callers :
       /\ pc[c] = "mode" => (ctrlActive <=> mode = "TORQUE")
       /\ pc[c] = "flag" => (captured[c] <=> mode = "TORQUE")

IInv == TypeOK /\ LockInv /\ ModeInv

USE DEF CallerLocations

LEMMA LockInductive == TypeOK /\ LockInv /\ [Next]_vars => LockInv'
<1> SUFFICES ASSUME TypeOK, LockInv, [Next]_vars PROVE LockInv'
  OBVIOUS
<1> USE Constants DEF Switching, InSetActiveState, Goto
<1>1. ASSUME NEW c \in Callers, NEW isActive \in BOOLEAN, Call(c, isActive)
      PROVE  LockInv'
  BY <1>1 DEF TypeOK, LockInv, Call, robotVars
\* A step of setControllersActiveState that does not touch the mutex
<1>2. ASSUME NEW p \in Threads, UNCHANGED mutex,
             NEW from \in Switching, NEW to \in Switching \cup {Return(p)},
             Goto(p, from, to)
      PROVE  LockInv'
  BY <1>2 DEF TypeOK, LockInv, Return
<1>3. ASSUME NEW p \in Threads, SwitchStep(p) PROVE LockInv'
  <2>1. CASE CheckState(p)
    BY <1>2, <2>1 DEF CheckState, robotVars
  <2>2. CASE AssignState(p)
    BY <1>2, <2>2 DEF AssignState, robotVars
  <2>3. CASE Measure(p)
    BY <1>2, <2>3 DEF Measure, robotVars
  <2>4. CASE CaptureState(p)
    BY <1>2, <2>4 DEF CaptureState, robotVars
  <2>5. CASE SetGenerator(p)
    BY <1>2, <2>5 DEF SetGenerator, robotVars
  <2>6. CASE SetSignal(p)
    BY <1>2, <2>6 DEF SetSignal, robotVars
  <2>7. CASE ReadState(p)
    BY <1>2, <2>7 DEF ReadState, robotVars
  <2>8. CASE CompareState(p)
    BY <1>2, <2>8 DEF CompareState, robotVars
  <2>9. CASE SwitchMode(p)
    BY <2>9 DEF TypeOK, LockInv, SwitchMode
  <2>10. CASE SetFlag(p)
    BY <2>10 DEF TypeOK, LockInv, SetFlag, Return
  <2>11. QED
    BY <1>3, <2>1, <2>2, <2>3, <2>4, <2>5, <2>6, <2>7, <2>8, <2>9, <2>10 DEF SwitchStep
<1>4. ASSUME NEW p \in Threads, Lock(p) PROVE LockInv'
  BY <1>4 DEF TypeOK, LockInv, Lock
<1>5. CASE RunBegin
  BY <1>5 DEF TypeOK, LockInv, RunBegin
<1>6. CASE RunStep
  <2>1. CASE ReadValid
    BY <2>1 DEF TypeOK, LockInv, ReadValid, NextReference, robotVars
  <2>2. CASE ReadValue
    BY <2>2 DEF TypeOK, LockInv, ReadValue, NextReference
  <2>3. CASE UpdateRobotState
    BY <2>3 DEF TypeOK, LockInv, UpdateRobotState, robotVars
  <2>4. CASE RobotFails
    BY <2>4 DEF TypeOK, LockInv, RobotFails
  <2>5. CASE Deactivate
    BY <2>5 DEF TypeOK, LockInv, Deactivate
  <2>6. CASE SendStopEvent
    BY <2>6 DEF TypeOK, LockInv, SendStopEvent
  <2>7. CASE WriteTorques
    BY <2>7 DEF TypeOK, LockInv, WriteTorques
  <2>8. QED
    BY <1>6, <2>1, <2>2, <2>3, <2>4, <2>5, <2>6, <2>7 DEF RunStep
<1>7. ASSUME NEW t \in Tasks, GeneratorRun(t) PROVE LockInv'
  BY <1>7 DEF LockInv, GeneratorRun, robotVars
<1>8. ASSUME NEW t \in StreamedTasks, Stream(t) PROVE LockInv'
  BY <1>8 DEF LockInv, Stream, robotVars
<1>9. CASE UNCHANGED vars
  BY <1>9 DEF LockInv, vars, robotVars
<1>10. QED
  BY <1>1, <1>3, <1>4, <1>5, <1>6, <1>7, <1>8, <1>9 DEF Next

LEMMA ModeInductive == TypeOK /\ LockInv /\ ModeInv /\ [Next]_vars => ModeInv'
<1> SUFFICES ASSUME TypeOK, LockInv, ModeInv, [Next]_vars PROVE ModeInv'
  OBVIOUS
<1> USE Constants DEF Switching, InSetActiveState, Computing, Goto
<1>1. ASSUME NEW c \in Callers, NEW isActive \in BOOLEAN, Call(c, isActive)
      PROVE  ModeInv'
  BY <1>1 DEF TypeOK, LockInv, ModeInv, Call, robotVars
\* A step of setControllersActiveState that touches neither the mutex nor what it protects
<1>2. ASSUME NEW p \in Threads, UNCHANGED <<mutex, mode, ctrlActive>>,
             NEW from \in Switching, NEW to \in Switching \cup {Return(p)},
             Goto(p, from, to),
             \A q \in Threads \ {p} : captured'[q] = captured[q]
      PROVE  ModeInv'
  BY <1>2 DEF TypeOK, LockInv, ModeInv, Return
<1>3. ASSUME NEW p \in Threads, SwitchStep(p) PROVE ModeInv'
  <2>1. CASE CheckState(p)
    BY <1>2, <2>1 DEF CheckState, robotVars, localVars
  <2>2. CASE AssignState(p)
    BY <1>2, <2>2 DEF AssignState, robotVars, localVars
  <2>3. CASE Measure(p)
    BY <1>2, <2>3 DEF Measure, robotVars, localVars
  <2>4. CASE CaptureState(p)
    BY <1>2, <2>4 DEF TypeOK, CaptureState, robotVars
  <2>5. CASE SetGenerator(p)
    BY <1>2, <2>5 DEF SetGenerator, robotVars, localVars
  <2>6. CASE SetSignal(p)
    BY <1>2, <2>6 DEF SetSignal, robotVars
  <2>7. CASE ReadState(p)
    BY <1>2, <2>7 DEF TypeOK, ReadState, robotVars
  <2>8. CASE CompareState(p)
    BY <1>2, <2>8 DEF CompareState, robotVars, localVars
  <2>9. CASE SwitchMode(p)
    BY <2>9 DEF TypeOK, LockInv, ModeInv, SwitchMode, Modes, localVars
  <2>10. CASE SetFlag(p)
    BY <2>10 DEF TypeOK, LockInv, ModeInv, SetFlag, Return, localVars
  <2>11. QED
    BY <1>3, <2>1, <2>2, <2>3, <2>4, <2>5, <2>6, <2>7, <2>8, <2>9, <2>10 DEF SwitchStep
<1>4. ASSUME NEW p \in Threads, Lock(p) PROVE ModeInv'
  BY <1>4 DEF TypeOK, LockInv, ModeInv, Lock, localVars
<1>5. CASE RunBegin
  BY <1>5 DEF TypeOK, LockInv, ModeInv, RunBegin
<1>6. CASE RunStep
  <2>1. CASE ReadValid
    BY <2>1 DEF TypeOK, LockInv, ModeInv, ReadValid, NextReference, robotVars
  <2>2. CASE ReadValue
    BY <2>2 DEF TypeOK, LockInv, ModeInv, ReadValue, NextReference
  <2>3. CASE UpdateRobotState
    BY <2>3 DEF TypeOK, LockInv, ModeInv, UpdateRobotState, robotVars, localVars
  <2>4. CASE RobotFails
    BY <2>4 DEF TypeOK, LockInv, ModeInv, RobotFails, localVars
  <2>5. CASE Deactivate
    BY <2>5 DEF TypeOK, LockInv, ModeInv, Deactivate
  <2>6. CASE SendStopEvent
    BY <2>6 DEF TypeOK, LockInv, ModeInv, SendStopEvent, localVars
  <2>7. CASE WriteTorques
    BY <2>7 DEF TypeOK, LockInv, ModeInv, WriteTorques, localVars
  <2>8. QED
    BY <1>6, <2>1, <2>2, <2>3, <2>4, <2>5, <2>6, <2>7 DEF RunStep
<1>7. ASSUME NEW t \in Tasks, GeneratorRun(t) PROVE ModeInv'
  BY <1>7 DEF ModeInv, GeneratorRun, robotVars, localVars
<1>8. ASSUME NEW t \in StreamedTasks, Stream(t) PROVE ModeInv'
  BY <1>8 DEF ModeInv, Stream, robotVars, localVars
<1>9. CASE UNCHANGED vars
  BY <1>9 DEF ModeInv, vars, robotVars, localVars
<1>10. QED
  BY <1>1, <1>3, <1>4, <1>5, <1>6, <1>7, <1>8, <1>9 DEF Next

\* The inductive invariant: the types, who holds the mutex where, and what the holder has done
\* to the mode.
THEOREM Invariance == Spec => []IInv
<1>1. Init => LockInv /\ ModeInv
  BY Constants DEF Init, LockInv, ModeInv, Switching, InSetActiveState, Computing
<1>2. QED
  BY <1>1, TypeCorrect, LockInductive, ModeInductive, PTL DEF Spec, IInv

--------------------------------------------------------------------------------

\* No control cycle computes or writes torques outside torque control, whatever
\* the callers of setActiveState do during the cycle.
THEOREM TorqueOnlyInTorqueModeHolds == Spec => []TorqueOnlyInTorqueMode
<1>1. IInv => TorqueOnlyInTorqueMode
  BY DEF IInv, ModeInv, TorqueOnlyInTorqueMode
<1>2. QED
  BY <1>1, Invariance, PTL

\* The unlocked check of m_active in setActiveState is harmless to the robot: a
\* free mutex means that m_active and the control mode agree.
THEOREM ModeMatchesControllerHolds == Spec => []ModeMatchesController
<1>1. IInv => ModeMatchesController
  BY DEF IInv, ModeInv, ModeMatchesController
<1>2. QED
  BY <1>1, Invariance, PTL

\* Only a generator's run makes its output valid, and it does so while it is active.
THEOREM ValidOnlyWhileActiveHolds == Spec => []ValidOnlyWhileActive
<1>1. Init => ValidOnlyWhileActive
  BY DEF Init, ValidOnlyWhileActive
<1>2. TypeOK /\ ValidOnlyWhileActive /\ [Next]_vars => ValidOnlyWhileActive'
  <2> SUFFICES ASSUME TypeOK, ValidOnlyWhileActive, [Next]_vars
               PROVE  ValidOnlyWhileActive'
    OBVIOUS
  <2>1. ASSUME UNCHANGED <<genActive, outValid>> PROVE ValidOnlyWhileActive'
    BY <2>1 DEF ValidOnlyWhileActive
  <2>2. ASSUME NEW p \in Threads, SetGenerator(p) PROVE ValidOnlyWhileActive'
    BY <2>2 DEF TypeOK, ValidOnlyWhileActive, SetGenerator
  <2>3. ASSUME NEW t \in Tasks, GeneratorRun(t) PROVE ValidOnlyWhileActive'
    BY <2>3 DEF TypeOK, ValidOnlyWhileActive, GeneratorRun
  <2>4. QED
    BY <2>1, <2>2, <2>3
       DEF Next, Call, SwitchStep, CheckState, AssignState, Measure, CaptureState,
           SetSignal, ReadState, CompareState, SwitchMode, SetFlag, Lock, RunBegin,
           RunStep, ReadValid, ReadValue, UpdateRobotState, RobotFails, Deactivate,
           SendStopEvent, WriteTorques, Stream, vars, genVars
<1>3. QED
  BY <1>1, <1>2, TypeCorrect, PTL DEF Spec

--------------------------------------------------------------------------------

LEMMA SwitchStutters ==
  UNCHANGED <<mode, pc>> => UNCHANGED Switch!vars
BY DEF Switch!vars

\* A step of one thread that keeps the mode and stays inside or outside Computing
LEMMA StaysOutside ==
  ASSUME TypeOK, NEW p \in Threads, UNCHANGED mode,
         NEW from, NEW to, Goto(p, from, to),
         from \in Computing <=> to \in Computing
  PROVE  UNCHANGED Switch!vars
BY DEF TypeOK, Goto, Switch!vars

\* Every step of the threads is a step of the switch or leaves it unchanged.
LEMMA StepRefines == IInv /\ [Next]_vars => [Switch!Next]_(Switch!vars)
<1> SUFFICES ASSUME TypeOK, LockInv, ModeInv, [Next]_vars
             PROVE  [Switch!Next]_(Switch!vars)
  BY DEF IInv
<1> USE Constants DEF Switching, InSetActiveState, Computing
<1>1. ASSUME NEW c \in Callers, NEW isActive \in BOOLEAN, Call(c, isActive)
      PROVE  UNCHANGED Switch!vars
  BY <1>1, StaysOutside DEF Call, robotVars
<1>2. ASSUME NEW p \in Threads, SwitchStep(p)
      PROVE  [Switch!Next]_(Switch!vars)
  <2>0. Return(p) \notin Computing
    BY DEF Return
  <2>1. CASE CheckState(p)
    BY <2>0, <2>1, StaysOutside DEF CheckState, robotVars
  <2>2. CASE AssignState(p)
    BY <2>2, StaysOutside DEF AssignState, robotVars
  <2>3. CASE Measure(p)
    BY <2>3, StaysOutside DEF Measure, robotVars
  <2>4. CASE CaptureState(p)
    BY <2>4, StaysOutside DEF CaptureState, robotVars
  <2>5. CASE SetGenerator(p)
    BY <2>5, StaysOutside DEF SetGenerator, robotVars
  <2>6. CASE SetSignal(p)
    BY <2>6, StaysOutside DEF SetSignal, robotVars
  <2>7. CASE ReadState(p)
    BY <2>7, StaysOutside DEF ReadState, robotVars
  <2>8. CASE CompareState(p)
    BY <2>0, <2>8, StaysOutside DEF CompareState, robotVars
  <2>9. CASE SwitchMode(p)
    <3>1. /\ p \in Callers
          /\ pc[Controller] = "idle"
          /\ pc'[Controller] = "idle"
      BY <2>9 DEF TypeOK, LockInv, SwitchMode, Goto
    <3>2. QED
      BY <2>9, <3>1 DEF TypeOK, Modes, SwitchMode, Switch!Next, Switch!Start,
                        Switch!Stop, Switch!vars
  <2>10. CASE SetFlag(p)
    BY <2>0, <2>10, StaysOutside DEF SetFlag
  <2>11. QED
    BY <1>2, <2>1, <2>2, <2>3, <2>4, <2>5, <2>6, <2>7, <2>8, <2>9, <2>10 DEF SwitchStep
<1>3. ASSUME NEW p \in Threads, Lock(p) PROVE UNCHANGED Switch!vars
  BY <1>3, StaysOutside DEF Lock
<1>4. CASE RunBegin
  BY <1>4 DEF TypeOK, LockInv, ModeInv, RunBegin, Goto, Switch!Next,
              Switch!BeginCycle, Switch!vars
<1>5. CASE RunStep
  <2>1. CASE ReadValid
    BY <2>1 DEF TypeOK, ReadValid, NextReference, Goto, robotVars, Switch!vars
  <2>2. CASE ReadValue
    BY <2>2 DEF TypeOK, ReadValue, NextReference, Switch!vars
  <2>3. CASE UpdateRobotState
    BY <2>3, StaysOutside DEF UpdateRobotState, robotVars
  <2>4. CASE RobotFails
    BY <2>4 DEF TypeOK, RobotFails, Goto, Switch!Next, Switch!Fail, Switch!vars
  <2>5. CASE Deactivate
    BY <2>5, StaysOutside DEF Deactivate
  <2>6. CASE SendStopEvent
    BY <2>6, StaysOutside DEF SendStopEvent
  <2>7. CASE WriteTorques
    BY <2>7 DEF TypeOK, WriteTorques, Goto, Switch!Next, Switch!EndCycle, Switch!vars
  <2>8. QED
    BY <1>5, <2>1, <2>2, <2>3, <2>4, <2>5, <2>6, <2>7 DEF RunStep
<1>6. ASSUME NEW t \in Tasks, GeneratorRun(t) PROVE UNCHANGED Switch!vars
  BY <1>6, SwitchStutters DEF GeneratorRun, robotVars
<1>7. ASSUME NEW t \in StreamedTasks, Stream(t) PROVE UNCHANGED Switch!vars
  BY <1>7, SwitchStutters DEF Stream, robotVars
<1>8. CASE UNCHANGED vars
  BY <1>8, SwitchStutters DEF vars, robotVars
<1>9. QED
  BY <1>1, <1>2, <1>3, <1>4, <1>5, <1>6, <1>7, <1>8 DEF Next

\* The threads of the module implement BalancingSwitch: torque control begins and
\* ends outside a control cycle, or because that cycle found the robot failing.
THEOREM Implementation == Spec => ImplementsSwitch
<1>1. Init => Switch!Init
  BY Constants DEF Init, Computing, Switch!Init
<1>2. QED
  BY <1>1, StepRefines, Invariance, PTL DEF Spec, ImplementsSwitch, Switch!Spec

--------------------------------------------------------------------------------

(***************************************************************************)
(* One caller, and a robot that does not fail.  Then the steps of          *)
(* setControllersActiveState are taken one after the other, and Alone says *)
(* how much of the switch is done before each of them.  Two callers can    *)
(* break each of these facts, and so can a failing robot, whose controller *)
(* deactivates itself: TLC shows both.                                     *)
(***************************************************************************)
Fresh(t) == streamed[t] \/ genRef[t] = Measured(measured)

Alone(c) ==
  /\ pc[Controller] \in {"idle"} \cup Computing
  /\ pc[c] \in {"idle", "check", "assign"} =>
       (ctrlActive <=> active) /\ \A t \in Tasks : (genActive[t] <=> active) /\ (active => Fresh(t))
  /\ pc[c] = "assign" => (request[c] <=> ~active)
  /\ pc[c] \in {"measure", "capture"} =>
       (ctrlActive <=> ~active) /\ \A t \in Tasks : genActive[t] <=> ~active
  /\ pc[c] = "measure" => active
  /\ pc[c] \in {"generator", "signal"} =>
       /\ (captured[c] <=> active) /\ (ctrlActive <=> ~active)
       /\ \A t \in Tasks : /\ t < task[c] => (genActive[t] <=> active) /\ Fresh(t)
                           /\ t > task[c] => (genActive[t] <=> ~active)
  /\ pc[c] = "signal" => (genActive[task[c]] <=> active)
  /\ pc[c] = "generator" => (genActive[task[c]] <=> ~active)
  /\ pc[c] \in {"state", "compare", "lock", "mode", "flag"} =>
       (ctrlActive <=> ~active) /\ \A t \in Tasks : (genActive[t] <=> active) /\ Fresh(t)
  /\ pc[c] \in {"compare", "lock", "mode", "flag"} => (captured[c] <=> active)

\* An active generator follows a signal of this session
CurrentSession ==
  /\ \A t \in Tasks : genActive[t] => genRef[t] = Zero \/ genRef[t][2] = measured
  /\ PublishesCurrentSession

LEMMA AloneSwitch ==
  ASSUME NEW c, Callers = {c}, TypeOK, LockInv, Alone(c), SwitchStep(c)
  PROVE  Alone(c)'
<1> USE DEF TypeOK, Alone, Fresh, Goto
<1>0. /\ c # Controller /\ Return(c) = "idle" /\ task[c] \in Tasks /\ NumTasks \in Nat
      /\ \A t \in Tasks : t \in Int /\ 1 <= t /\ t <= NumTasks
      /\ pc[c] = "assign" => request[c] \in BOOLEAN
  BY Constants DEF Return, Tasks
<1>1. CASE CheckState(c)
  BY <1>0, <1>1 DEF CheckState, robotVars, moduleVars, genVars, localVars
<1>2. CASE AssignState(c)
  BY <1>0, <1>2 DEF AssignState, robotVars, genVars, localVars
<1>3. CASE Measure(c)
  BY <1>0, <1>3 DEF Measure, robotVars, localVars
<1>4. CASE CaptureState(c)
  <2>1. /\ pc[c] = "capture" /\ pc'[c] = "generator" /\ pc'[Controller] = pc[Controller]
        /\ captured'[c] = active /\ task'[c] = 1
        /\ UNCHANGED <<active, ctrlActive, genActive>>
    BY <1>0, <1>4, Constants DEF CaptureState, moduleVars, robotVars, genVars, COM
  <2>2. (ctrlActive <=> ~active) /\ \A t \in Tasks : genActive[t] <=> ~active
    BY <2>1
  <2>3. 1 \in Tasks /\ \A t \in Tasks : ~(t < 1)
    BY <1>0, Constants DEF COM
  <2>4. QED
    BY <2>1, <2>2, <2>3
<1>5. CASE SetGenerator(c)
  BY <1>0, <1>5 DEF SetGenerator, robotVars, moduleVars, localVars
<1>6. CASE SetSignal(c)
  <2> DEFINE last == task[c] = NumTasks
  <2>1. /\ pc[c] = "signal" /\ pc'[c] = (IF last THEN "state" ELSE "generator")
        /\ pc'[Controller] = pc[Controller]
        /\ genRef' = [genRef EXCEPT ![task[c]] = Measured(measured)]
        /\ task'[c] = (IF last THEN task[c] ELSE task[c] + 1)
        /\ UNCHANGED <<active, measured, ctrlActive, genActive, streamed>> /\ captured'[c] = captured[c]
    BY <1>0, <1>6, Constants DEF SetSignal, moduleVars, robotVars
  <2>2. \A t \in Tasks :
          /\ t <= task[c] => (genActive[t] <=> active) /\ Fresh(t)'
          /\ t > task[c] => (genActive[t] <=> ~active)
    BY <1>0, <2>1
  <2>3. (captured[c] <=> active) /\ (ctrlActive <=> ~active)
    BY <2>1
  <2>4. CASE last
    <3>1. pc'[c] = "state" /\ \A t \in Tasks : t <= task[c]
      BY <1>0, <2>1, <2>4
    <3>2. QED
      BY <2>1, <2>2, <2>3, <3>1
  <2>5. CASE ~last
    <3>1. /\ pc'[c] = "generator" /\ task'[c] = task[c] + 1 /\ task'[c] \in Tasks
          /\ \A t \in Tasks : (t < task'[c] <=> t <= task[c]) /\ (t > task'[c] => t > task[c])
          /\ task'[c] > task[c]
      BY <1>0, <2>1, <2>5 DEF Tasks
    <3>2. QED
      BY <2>1, <2>2, <2>3, <3>1
  <2>6. QED
    BY <2>4, <2>5
<1>7. CASE ReadState(c)
  BY <1>0, <1>7 DEF ReadState, robotVars, genVars, moduleVars
<1>8. CASE CompareState(c)
  BY <1>0, <1>8 DEF CompareState, robotVars, moduleVars, genVars, localVars
<1>9. CASE SwitchMode(c)
  BY <1>0, <1>9 DEF SwitchMode, moduleVars, genVars, localVars
<1>10. CASE SetFlag(c)
  BY <1>0, <1>10 DEF SetFlag, moduleVars, genVars, localVars
<1>11. QED
  BY <1>1, <1>2, <1>3, <1>4, <1>5, <1>6, <1>7, <1>8, <1>9, <1>10 DEF SwitchStep

LEMMA AloneInductive ==
  ASSUME NEW c, Callers = {c}, RobotMayFail = FALSE
  PROVE  IInv /\ Alone(c) /\ [Next]_vars => Alone(c)'
<1> SUFFICES ASSUME TypeOK, LockInv, Alone(c), [Next]_vars PROVE Alone(c)'
  BY DEF IInv
<1> USE Constants DEF Goto
<1>1. ASSUME NEW isActive \in BOOLEAN, Call(c, isActive) PROVE Alone(c)'
  BY <1>1 DEF TypeOK, Alone, Fresh, Call, moduleVars, robotVars, genVars
<1>2. ASSUME NEW p \in Threads, SwitchStep(p) PROVE Alone(c)'
  <2>1. p = c
    BY <1>2 DEF Alone, Computing, SwitchStep, CheckState, AssignState, Measure, CaptureState, SetGenerator,
                SetSignal, ReadState, CompareState, SwitchMode, SetFlag
  <2>2. QED
    BY <1>2, <2>1, AloneSwitch
<1>3. ASSUME NEW p \in Threads, Lock(p) PROVE Alone(c)'
  BY <1>3 DEF TypeOK, Alone, Fresh, Computing, Lock, moduleVars, genVars, localVars
<1>4. CASE RunBegin
  BY <1>4 DEF TypeOK, Alone, Fresh, Computing, RunBegin, moduleVars, genVars
<1>5. CASE RunStep
  <2>1. /\ pc'[Controller] \in {"idle"} \cup Computing /\ pc'[c] = pc[c] /\ task'[c] = task[c]
        /\ UNCHANGED <<moduleVars, ctrlActive, genVars, request, captured>>
    BY <1>5
    DEF TypeOK, Alone, Computing, RunStep, ReadValid, ReadValue, NextReference, UpdateRobotState, RobotFails,
        Deactivate, SendStopEvent, WriteTorques, robotVars, localVars
  <2>2. QED
    BY <2>1 DEF Alone, Fresh, moduleVars, genVars
<1>6. ASSUME NEW t \in Tasks, GeneratorRun(t) PROVE Alone(c)'
  BY <1>6 DEF Alone, Fresh, GeneratorRun, moduleVars, robotVars, localVars
<1>7. ASSUME NEW t \in StreamedTasks, Stream(t) PROVE Alone(c)'
  BY <1>7 DEF TypeOK, Alone, Fresh, Stream, moduleVars, robotVars, localVars
<1>8. CASE UNCHANGED vars
  BY <1>8 DEF Alone, Fresh, vars, moduleVars, robotVars, genVars, localVars
<1>9. QED
  BY <1>1, <1>2, <1>3, <1>4, <1>5, <1>6, <1>7, <1>8 DEF Next

LEMMA CurrentInductive ==
  ASSUME NEW c, Callers = {c}, TypeOK, ValidOnlyWhileActive, Alone(c), CurrentSession, [Next]_vars
  PROVE  CurrentSession'
<1> USE DEF TypeOK, CurrentSession, PublishesCurrentSession, Goto
<1>0. /\ \A n \in Nat : Measured(n)[2] = n /\ User(n)[2] = n
      /\ \A t \in Tasks : ReaderSignal(t) = Zero \/ ReaderSignal(t)[2] = measured
  BY DEF Measured, User, ReaderSignal
<1>1. ASSUME UNCHANGED <<measured, genActive, genRef, outValid, outValue>> PROVE CurrentSession'
  BY <1>1
<1>2. ASSUME NEW p \in Threads, Measure(p) PROVE CurrentSession'
  <2>1. p = c /\ UNCHANGED <<genActive, outValid>>
    BY <1>2 DEF Measure, Alone, Computing
  <2>2. \A t \in Tasks : ~genActive[t] /\ ~outValid[t]
    BY <1>2, <2>1 DEF Measure, Alone, ValidOnlyWhileActive
  <2>3. QED
    BY <2>1, <2>2
<1>3. ASSUME NEW p \in Threads, SetGenerator(p) PROVE CurrentSession'
  BY <1>0, <1>3 DEF SetGenerator, moduleVars
<1>4. ASSUME NEW p \in Threads, SetSignal(p) PROVE CurrentSession'
  BY <1>0, <1>4 DEF SetSignal, moduleVars
<1>5. ASSUME NEW t \in Tasks, GeneratorRun(t) PROVE CurrentSession'
  BY <1>5 DEF GeneratorRun, moduleVars
<1>6. ASSUME NEW t \in StreamedTasks, Stream(t) PROVE CurrentSession'
  BY <1>0, <1>6, Constants DEF Stream, moduleVars
<1>7. QED
  BY <1>1, <1>2, <1>3, <1>4, <1>5, <1>6
  DEF Next, Call, SwitchStep, CheckState, AssignState, CaptureState, ReadState, CompareState, SwitchMode,
      SetFlag, Lock, RunBegin, RunStep, ReadValid, ReadValue, UpdateRobotState, RobotFails, Deactivate,
      SendStopEvent, WriteTorques, vars, moduleVars, genVars

LEMMA AloneAlways ==
  ASSUME NEW c, Callers = {c}, RobotMayFail = FALSE
  PROVE  Spec => [](TypeOK /\ Alone(c) /\ CurrentSession)
<1>1. Init => Alone(c) /\ CurrentSession
  <2> SUFFICES ASSUME Init PROVE Alone(c) /\ CurrentSession
    OBVIOUS
  <2>1. Alone(c)
    BY DEF Init, Alone, Fresh
  <2>2. CurrentSession
    BY DEF Init, CurrentSession, PublishesCurrentSession
  <2>3. QED
    BY <2>1, <2>2
<1>2. TypeOK /\ ValidOnlyWhileActive /\ Alone(c) /\ CurrentSession /\ [Next]_vars => CurrentSession'
  BY CurrentInductive
<1>3. QED
  BY <1>1, <1>2, AloneInductive, Invariance, TypeCorrect, ValidOnlyWhileActiveHolds, PTL DEF Spec

\* With one caller and a robot that does not fail, start and stop leave the module, its
\* generators and its controller all active or all inactive, for any number of tasks.
THEOREM AllThreadsAgreeWithOneCaller ==
  ASSUME NEW c, Callers = {c}, RobotMayFail = FALSE
  PROVE  Spec => []AllThreadsAgree
<1>1. TypeOK /\ Alone(c) => AllThreadsAgree
  <2> SUFFICES ASSUME TypeOK, Alone(c), Quiet PROVE ctrlActive = active /\ \A t \in Tasks : genActive[t] = active
    BY DEF AllThreadsAgree
  <2>1. (ctrlActive <=> active) /\ \A t \in Tasks : genActive[t] <=> active
    BY DEF Alone, Quiet
  <2>2. QED
    BY <2>1, Zenon DEF TypeOK
<1>2. QED
  BY <1>1, AloneAlways, PTL

\* Then a start leaves no generator on a reference of an earlier session.
THEOREM DiscardsOldReferencesWithOneCaller ==
  ASSUME NEW c, Callers = {c}, RobotMayFail = FALSE
  PROVE  Spec => []DiscardsOldReferences
<1>1. Alone(c) => DiscardsOldReferences
  BY DEF Alone, Fresh, Quiet, DiscardsOldReferences
<1>2. QED
  BY <1>1, AloneAlways, PTL

\* And no output that is marked valid is of an earlier session.
THEOREM PublishesCurrentSessionWithOneCaller ==
  ASSUME NEW c, Callers = {c}, RobotMayFail = FALSE
  PROVE  Spec => []PublishesCurrentSession
<1>1. CurrentSession => PublishesCurrentSession
  BY DEF CurrentSession
<1>2. QED
  BY <1>1, AloneAlways, PTL

================================================================================
