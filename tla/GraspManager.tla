------------------------------ MODULE GraspManager -----------------------------
(***************************************************************************)
(* torqueGraspManager: the thread that follows a target with the nearest   *)
(* arm, grasps it when it stands still, and goes home when there is none,  *)
(* and the RPC commands that enable and disable it.                        *)
(*                                                                         *)
(* run() and the commands hold runMutex from beginning to end, so each is  *)
(* one step.  run() is a pipeline: every method works on what the previous *)
(* one left, so it is written as a composition of functions of the state   *)
(* of the thread, which is the record `m'.                                 *)
(*                                                                         *)
(* Both arms are in use: with one, the initial homing of both hands in     *)
(* threadInit uses the driver that was not created.                        *)
(***************************************************************************)
EXTENDS Naturals

Arms == {"left_arm", "right_arm"}
Other(a) == IF a = "left_arm" THEN "right_arm" ELSE "left_arm"

States == {"disabled", "idle", "reach", "checkmotiondone", "release", "wait", "off"}
Parts == Arms \cup {"torso"}
Requested == {"home", "reach", "grasp", "hold", "old"}

VARIABLES
  m,       \* the state of the thread
  event    \* the last event sent

\* What run() finds when it asks: is there a new target, on which side of the robot (or
\* near the middle, within the hysteresis), out of the sphere it was still in; is the
\* robot where it was sent (asked in two states, of which one run visits one), is the arm
\* near the target; does stopControl write an old message in place of the measures
Inputs ==
  [target : {TRUE}, side : Arms \cup {"middle"}, moved : BOOLEAN, there : BOOLEAN,
   near : BOOLEAN, recycled : BOOLEAN]
  \cup [target : {FALSE}, there : BOOLEAN, near : BOOLEAN, recycled : BOOLEAN]

Machines ==
  [state : States,
   disabling : BOOLEAN,                  \* disablingRequested
   wentHome : BOOLEAN,
   arm : Arms,                           \* armSel
   idle : 0..2,                          \* idleTimer: just set, more than 1 s ago, more than idleTmo
   latch : BOOLEAN,                      \* latchTimer: is the timeout of this state over?
   side : Arms \cup {"middle"},          \* targetPos, relative to the hysteresis
   moved : BOOLEAN,                      \* targetPos, relative to sphereCenter
   closed : [Arms -> BOOLEAN],           \* is the hand closed?
   sent : [Parts -> Requested],          \* the last configuration sent for each part
   breathing : BOOLEAN]                  \* were the breathers started last?

TypeOK == m \in Machines /\ event \in {"none", "e_grasping_disabled", "e_grasping_enabled"}

--------------------------------------------------------------------------------
(* Motions *)

\* steerTorsoToHome; steerArmToHome, which opens the hand
TorsoHome(s) == [s EXCEPT !.sent["torso"] = "home"]
ArmHome(s, a) == [s EXCEPT !.sent[a] = "home", !.closed[a] = FALSE]
AllHome(s) ==
  [s EXCEPT !.sent = [p \in Parts |-> "home"], !.closed = [a \in Arms |-> FALSE]]

\* stopControl fills in a copy of the message: the port writes the message it had, which is
\* empty or an older one
StopControl(s, recycled) ==
  IF recycled THEN [s EXCEPT !.sent["torso"] = "old", !.sent[s.arm] = "old"] ELSE s

\* stopArmJoints: the arm selected stays where it is
StopArmJoints(s) == [s EXCEPT !.sent[s.arm] = "hold"]

\* resetTargetBall: the sphere is centred on the target, and the time starts again
ResetTargetBall(s) == [s EXCEPT !.moved = FALSE, !.latch = FALSE]

--------------------------------------------------------------------------------
(* The methods of run, in its order *)

NewTarget(s, in) ==
  LET seen == [s EXCEPT !.side = in.side, !.moved = in.moved]
  IN IF s.disabling THEN seen
     ELSE IF s.state = "idle"
          THEN [ResetTargetBall(seen) EXCEPT !.idle = 0, !.breathing = FALSE,
                                             !.wentHome = FALSE, !.state = "reach"]
          ELSE [seen EXCEPT !.idle = 0]

\* nothing seen for idleTmo, or grasping is being disabled.
\* Wrong variants: the arms stay where they are, and the hysteresis makes no difference
GoHome(s, homed) ==
  IF /\ s.state \in {"idle", "reach"}
     /\ s.idle = 2 \/ s.disabling
     /\ ~s.wentHome
  THEN [homed EXCEPT !.wentHome = TRUE,
                     !.state = IF s.disabling THEN "disabled" ELSE "idle",
                     !.disabling = FALSE]
  ELSE s
Seen(s, in) == IF in.target THEN NewTarget(s, in) ELSE s
GetSensorDataTorsoOnly(s, in) ==
  IF in.target /\ ~s.disabling THEN Seen(s, in) ELSE GoHome(Seen(s, in), TorsoHome(Seen(s, in)))
GetSensorData(s, in) ==
  IF in.target /\ ~s.disabling THEN Seen(s, in) ELSE GoHome(Seen(s, in), AllHome(Seen(s, in)))

\* breathers start once the robot is home.  Wrong variant: in every state
DoIdleAlways(s, in) == IF ~s.breathing /\ in.there THEN [s EXCEPT !.breathing = TRUE] ELSE s
DoIdle(s, in) ==
  IF s.state = "idle" /\ ~s.breathing /\ in.there THEN [s EXCEPT !.breathing = TRUE] ELSE s

\* the other arm goes on, once this one is still or has been waited for long enough.
\* Wrong variant: the arm is sent home after the interfaces are swapped
ChangeArmLate(s, in) ==
  LET swapped == [StopControl(s, in.recycled) EXCEPT !.arm = Other(s.arm), !.state = "reach"]
  IN StopArmJoints(ArmHome(swapped, swapped.arm))
ChangeArm(s, in) ==
  LET homed == ArmHome(StopControl(s, in.recycled), s.arm)
  IN StopArmJoints([homed EXCEPT !.arm = Other(s.arm), !.state = "reach"])
SelectArm(s, in) ==
  IF s.state = "reach" /\ s.side = Other(s.arm)
  THEN [s EXCEPT !.state = "checkmotiondone", !.latch = FALSE]
  ELSE IF s.state = "checkmotiondone" /\ (in.there \/ s.latch) THEN ChangeArm(s, in) ELSE s

DoReach(s) ==
  IF s.state = "reach" THEN [s EXCEPT !.sent["torso"] = "reach", !.sent[s.arm] = "reach"] ELSE s

\* checkTargetForGrasp starts again when the target has moved; it must have been still for
\* sphereTmo, and seen less than 1 s ago
DoGrasp(s, in) ==
  IF s.state # "reach" THEN s
  ELSE IF s.moved THEN ResetTargetBall(s)
  ELSE IF s.latch /\ s.idle = 0 /\ in.near
       THEN [s EXCEPT !.sent["torso"] = "grasp", !.sent[s.arm] = "grasp", !.closed[s.arm] = TRUE,
                      !.latch = FALSE, !.state = "release"]
       ELSE s

\* Wrong variant: the hand stays closed
DoReleaseClosed(s) ==
  IF s.state = "release" /\ s.latch THEN [s EXCEPT !.latch = FALSE, !.state = "wait"] ELSE s
DoRelease(s) ==
  IF s.state = "release" /\ s.latch
  THEN [s EXCEPT !.closed[s.arm] = FALSE, !.latch = FALSE, !.state = "wait"] ELSE s
\* Wrong variant: the wait never ends
DoWaitForEver(s) == s
DoWait(s) == IF s.state = "wait" /\ s.latch THEN [s EXCEPT !.state = "idle"] ELSE s

\* commandHead and commandFace change nothing here
RunFrom(s, in) ==
  LET sensed == GetSensorData(s, in)
      idled == DoIdle(sensed, in)
      selected == SelectArm(idled, in)
      reached == DoReach(selected)
      grasped == DoGrasp(reached, in)
      released == DoRelease(grasped)
  IN DoWait(released)

--------------------------------------------------------------------------------
(* The thread, its timers and the commands *)

\* threadInit has returned
FirstArm == CHOOSE a \in Arms : TRUE
Init ==
  /\ m = [state |-> "idle", disabling |-> FALSE, wentHome |-> FALSE, arm |-> FirstArm,
          idle |-> 0, latch |-> FALSE, side |-> "middle", moved |-> FALSE,
          closed |-> [a \in Arms |-> FALSE], sent |-> [p \in Parts |-> "home"],
          breathing |-> FALSE]
  /\ event = "none"

SendEvents == event' = IF m'.state = "disabled" THEN "e_grasping_disabled" ELSE "e_grasping_enabled"

Run ==
  /\ m.state # "off"
  /\ \E in \in Inputs : m' = RunFrom(m, in)
  /\ SendEvents

\* time passes
IdleElapses ==
  /\ m.idle < 2 /\ m.state # "off"
  /\ m' = [m EXCEPT !.idle = @ + 1]
  /\ UNCHANGED event
LatchElapses ==
  /\ ~m.latch /\ m.state # "off"
  /\ m' = [m EXCEPT !.latch = TRUE]
  /\ UNCHANGED event

\* the RPC commands start and stop
EnableGrasping ==
  /\ m.state = "disabled"
  /\ m' = [m EXCEPT !.state = "idle"]
  /\ UNCHANGED event
DisableGrasping ==
  /\ m.state \notin {"disabled", "off"}
  /\ m' = [m EXCEPT !.disabling = TRUE]
  /\ UNCHANGED event

\* the module closes: threadRelease sends everything home
ThreadRelease ==
  /\ m.state # "off"
  /\ m' = [AllHome(m) EXCEPT !.state = "off"]
  /\ UNCHANGED event

Next == Run \/ IdleElapses \/ LatchElapses \/ EnableGrasping \/ DisableGrasping \/ ThreadRelease

vars == <<m, event>>
Spec == Init /\ [][Next]_vars

\* the thread is periodic, and time passes
FairSpec == Spec /\ WF_vars(Run) /\ WF_vars(IdleElapses) /\ WF_vars(LatchElapses)

--------------------------------------------------------------------------------
(* Properties *)

\* Only the selected arm is away from home: an arm is sent home before the other takes over
\* (ManagerThread.cpp:779-855), also when the target changes side while one of them moves
OtherArmAtHome == \A a \in Arms \ {m.arm} : m.sent[a] = "home" /\ ~m.closed[a]

\* A hand is closed only between the grasp and the release, and it is that of the selected
\* arm: no change of arm, timeout or stop leaves a hand closed behind (892-960)
ClosedOnlyToRelease == \A a \in Arms : m.closed[a] => m.arm = a /\ m.state = "release"

\* While grasping is disabled, and after an idle timeout until a target comes, the robot was
\* asked to be at home, with open hands (432-461)
HomeWhenIdle ==
  m.wentHome \/ m.state = "disabled" =>
    \A p \in Parts : m.sent[p] = "home" /\ (p \in Arms => ~m.closed[p])

\* The breathers never run while the arms follow a target (422-430, 464-472)
BreathesOnlyAtRest == m.breathing => m.state \in {"idle", "disabled", "off"}

\* A closed hand opens again, whatever targets and commands come (943-960)
HandsOpen == \A a \in Arms : m.closed[a] ~> ~m.closed[a]

\* A stop that arrives when the robot has moved since it was last at home disables grasping
StopDisablesAfterMotion == m.disabling /\ ~m.wentHome ~> m.state \in {"disabled", "off"}

================================================================================
