-------------------------- MODULE Applications_proofs --------------------------
(***************************************************************************)
(* The grasp, the balancing module, the mapping of a grid and the estimators *)
(* keep their invariants: for every value of the constants, in every behaviour *)
(* of the applications.                                                    *)
(*                                                                         *)
(* For the grasp, Good is what every stage of a run hands over to the      *)
(* next one.  For the balancing module the order of configure and of close *)
(* is what matters: what the phases before have made, and the phases after *)
(* have deleted, is a set that the proof computes once (MadeAsSet,         *)
(* WhatIsUndone).  The positions of a grid are lists of a set that is closed *)
(* under concatenation (GridsJoin).  What the search through a message finds is *)
(* the last package of each kind (ExtractedIs).                            *)
(***************************************************************************)
EXTENDS Applications, SequenceTheorems, WellFoundedInduction, TLAPS

--------------------------------------------------------------------------------
(* GraspManager *)

AtHome(s) == \A p \in G!Parts : s.sent[p] = "home" /\ (p \in G!Arms => ~s.closed[p])

Good(s) ==
  /\ s \in G!Machines
  /\ \A a \in G!Arms \ {s.arm} : s.sent[a] = "home" /\ ~s.closed[a]
  /\ \A a \in G!Arms : s.closed[a] => s.arm = a /\ s.state = "release"
  /\ s.wentHome => s.state \in {"idle", "disabled", "off"}
  /\ s.wentHome \/ s.state = "disabled" => AtHome(s)
  /\ s.breathing => s.state \in {"idle", "disabled", "off"}

\* Sending everything home is safe in any state.
LEMMA HomeIsGood ==
  ASSUME NEW s, Good(s)
  PROVE  Good(G!AllHome(s)) /\ AtHome(G!AllHome(s)) /\ G!AllHome(s).state = s.state
BY DEF Good, AtHome, G!AllHome, G!Machines, G!States, G!Parts, G!Requested, G!Arms

\* A target that appears, or is lost for long enough, moves no arm but the selected one (413-431).
LEMMA SeenIsGood ==
  ASSUME NEW s, NEW in \in G!Inputs, Good(s)
  PROVE  Good(G!Seen(s, in))
<1> DEFINE t == [s EXCEPT !.side = in.side, !.moved = in.moved]
<1>1. s \in G!Machines
  BY DEF Good
<1>2. CASE in.target
  <2>1. t \in G!Machines
    BY <1>1, <1>2 DEF G!Machines, G!Inputs
  <2>2. /\ t.arm = s.arm /\ t.state = s.state /\ t.closed = s.closed /\ t.wentHome = s.wentHome
        /\ t.breathing = s.breathing /\ t.sent = s.sent
    BY <1>1 DEF G!Machines
  <2>3. Good(t)
    BY <2>1, <2>2 DEF Good, AtHome
  <2> DEFINE u == [G!ResetTargetBall(t) EXCEPT !.idle = 0, !.breathing = FALSE,
                                             !.wentHome = FALSE, !.state = "reach"]
             v == [t EXCEPT !.idle = 0]
  <2> HIDE DEF t
  <2>4. CASE s.state = "idle"
    <3> DEFINE q == G!ResetTargetBall(t)
               r == [q EXCEPT !.idle = 0]
    <3>0. q \in G!Machines /\ q.arm = t.arm /\ q.closed = t.closed /\ q.sent = t.sent
      BY <2>1 DEF G!ResetTargetBall, G!Machines
    <3> HIDE DEF q
    <3>1. r \in G!Machines /\ r.arm = t.arm /\ r.closed = t.closed /\ r.sent = t.sent
      BY <3>0 DEF G!Machines
    <3>2. u = [r EXCEPT !.breathing = FALSE, !.wentHome = FALSE, !.state = "reach"]
      BY <3>0 DEF q, G!Machines
    <3> HIDE DEF r, u
    <3>3. u \in G!Machines
      BY <3>1, <3>2 DEF G!Machines, G!States
    <3>4. u.arm = r.arm /\ u.state = "reach" /\ u.closed = r.closed /\ u.sent = r.sent
      BY <3>1, <3>2 DEF G!Machines
    <3>5. ~u.wentHome /\ ~u.breathing
      BY <3>1, <3>2 DEF G!Machines
    <3>6. \A a \in G!Arms : ~u.closed[a]
      BY <2>2, <2>3, <2>4, <3>1, <3>4 DEF Good
    <3>7. Good(u)
      BY <2>3, <3>1, <3>3, <3>4, <3>5, <3>6 DEF Good
    <3>8. QED
      BY <1>2, <2>3, <2>4, <3>7 DEF G!Seen, G!NewTarget, t, u
  <2>5. CASE s.state # "idle"
    <3>1. /\ v \in G!Machines /\ v.arm = t.arm /\ v.state = t.state /\ v.closed = t.closed
          /\ v.wentHome = t.wentHome /\ v.breathing = t.breathing /\ v.sent = t.sent
      BY <2>1 DEF G!Machines
    <3> HIDE DEF v
    <3>2. Good(v)
      BY <2>3, <3>1 DEF Good, AtHome
    <3>3. QED
      BY <1>2, <2>3, <2>5, <3>2 DEF G!Seen, G!NewTarget, t, v
  <2>6. QED
    BY <2>4, <2>5
<1>3. QED
  BY <1>2 DEF G!Seen

\* getSensorData leaves a good state, whatever is on the ports (347-462).
LEMMA SensedIsGood ==
  ASSUME NEW s, NEW in \in G!Inputs, Good(s)
  PROVE  Good(G!GetSensorData(s, in))
<1> DEFINE t == G!Seen(s, in)
           home == G!AllHome(t)
           u == [home EXCEPT !.wentHome = TRUE, !.state = IF t.disabling THEN "disabled" ELSE "idle",
                             !.disabling = FALSE]
<1>1. Good(t) /\ Good(home) /\ AtHome(home) /\ home \in G!Machines
  BY SeenIsGood, HomeIsGood DEF Good
<1> HIDE DEF t, home
<1>2. /\ u \in G!Machines /\ u.arm = home.arm /\ u.state \in {"disabled", "idle"}
      /\ u.closed = home.closed /\ u.sent = home.sent /\ u.breathing = home.breathing
  BY <1>1 DEF G!Machines, G!States
<1> HIDE DEF u
<1>3. \A a \in G!Arms : ~u.closed[a]
  BY <1>1, <1>2 DEF AtHome, G!Parts
<1>4. Good(u)
  BY <1>1, <1>2, <1>3 DEF Good, AtHome
<1>5. G!GetSensorData(s, in) \in {t, u}
  BY DEF G!GetSensorData, G!GoHome, t, u, home
<1>6. QED
  BY <1>1, <1>4, <1>5

\* doIdle closes nothing and starts the breathers only from rest (464-511).
LEMMA IdledIsGood ==
  ASSUME NEW s, NEW in, Good(s)
  PROVE  Good(G!DoIdle(s, in))
<1>1. CASE G!DoIdle(s, in) = s
  BY <1>1
<1>2. CASE s.state = "idle" /\ G!DoIdle(s, in) = [s EXCEPT !.breathing = TRUE]
  <2> DEFINE t == [s EXCEPT !.breathing = TRUE]
  <2>1. s \in G!Machines
    BY DEF Good
  <2>2. t \in G!Machines /\ t.breathing /\ t.state = "idle" /\ t.arm = s.arm /\ t.sent = s.sent
        /\ t.closed = s.closed /\ t.wentHome = s.wentHome
    BY <1>2, <2>1 DEF G!Machines
  <2> HIDE DEF t
  <2>3. Good(t)
    BY <1>2, <2>2 DEF Good, AtHome
  <2>4. QED
    BY <1>2, <2>3 DEF t
<1>3. QED
  BY <1>1, <1>2 DEF G!DoIdle

\* The arm that is left is home before the other one is selected.
LEMMA SelectedIsGood ==
  ASSUME NEW s, NEW in \in G!Inputs, Good(s)
  PROVE  Good(G!SelectArm(s, in))
<1>1. s \in G!Machines
  BY DEF Good
<1>2. CASE s.state = "reach" /\ s.side = G!Other(s.arm)
  <2> DEFINE t == [s EXCEPT !.state = "checkmotiondone", !.latch = FALSE]
  <2>1. t \in G!Machines
    BY <1>1 DEF G!Machines, G!States
  <2>2. /\ t.arm = s.arm /\ t.state = "checkmotiondone" /\ t.closed = s.closed
        /\ t.wentHome = s.wentHome /\ t.breathing = s.breathing /\ t.sent = s.sent
    BY <1>1 DEF G!Machines
  <2>3. QED
    BY <1>2, <2>1, <2>2 DEF G!SelectArm, Good
<1>3. CASE s.state = "checkmotiondone"
  <2> DEFINE t == G!StopControl(s, in.recycled)
             u == G!ArmHome(t, s.arm)
             w == [u EXCEPT !.arm = G!Other(s.arm), !.state = "reach"]
             v == G!ChangeArm(s, in)
  <2>1. t \in G!Machines
    BY <1>1 DEF G!StopControl, G!Machines, G!Parts, G!Requested
  <2>2. /\ t.arm = s.arm /\ t.state = s.state /\ t.closed = s.closed
        /\ t.wentHome = s.wentHome /\ t.breathing = s.breathing
        /\ \A a \in G!Arms \ {s.arm} : t.sent[a] = s.sent[a]
    BY <1>1 DEF G!StopControl, G!Machines, G!Parts, G!Arms
  <2>3. u \in G!Machines
    BY <1>1, <2>1 DEF G!ArmHome, G!Machines, G!Parts, G!Requested
  <2>4. /\ u.state = s.state /\ u.wentHome = s.wentHome /\ u.breathing = s.breathing
        /\ \A a \in G!Arms : u.sent[a] = "home" /\ ~u.closed[a]
    BY <1>1, <2>1, <2>2 DEF G!ArmHome, G!Machines, G!Parts, G!Arms, Good
  <2>5. G!Other(s.arm) \in G!Arms
    BY DEF G!Other, G!Arms
  <2>6. /\ w \in G!Machines /\ w.arm = G!Other(s.arm) /\ w.state = "reach"
        /\ w.wentHome = u.wentHome
        /\ w.breathing = u.breathing /\ w.closed = u.closed /\ w.sent = u.sent
    BY <2>3, <2>5 DEF G!Machines, G!States
  <2>7. v = [w EXCEPT !.sent[w.arm] = "hold"]
    BY DEF G!ChangeArm, G!StopArmJoints
  <2> HIDE DEF w, v
  <2>8. v \in G!Machines
    BY <2>6, <2>7 DEF G!Machines, G!Parts, G!Requested
  <2>9. /\ v.arm = G!Other(s.arm) /\ v.state = "reach" /\ v.wentHome = u.wentHome
        /\ v.breathing = u.breathing /\ v.closed = u.closed
        /\ \A a \in G!Arms \ {G!Other(s.arm)} : v.sent[a] = u.sent[a]
    BY <2>5, <2>6, <2>7 DEF G!Machines, G!Parts
  <2> HIDE DEF u, v
  <2>10. ~v.wentHome /\ ~v.breathing /\ \A a \in G!Arms : ~v.closed[a]
    BY <1>3, <2>4, <2>9 DEF Good
  <2>11. Good(v)
    BY <2>4, <2>8, <2>9, <2>10 DEF Good
  <2>12. QED
    BY <1>3, <2>11 DEF G!SelectArm, v
<1>4. QED
  BY <1>2, <1>3 DEF G!SelectArm

\* Reaching moves the selected arm only (856-890).
LEMMA ReachedIsGood ==
  ASSUME NEW s, Good(s)
  PROVE  Good(G!DoReach(s))
<1>1. CASE s.state = "reach"
  <2> DEFINE t == [s EXCEPT !.sent["torso"] = "reach", !.sent[s.arm] = "reach"]
  <2>0. s \in G!Machines
    BY DEF Good
  <2>1. t \in G!Machines
    BY <2>0 DEF G!Machines, G!States, G!Parts, G!Requested, G!Arms
  <2>2. /\ t.arm = s.arm /\ t.state = s.state /\ t.closed = s.closed /\ t.wentHome = s.wentHome
        /\ t.breathing = s.breathing /\ \A a \in G!Arms \ {s.arm} : t.sent[a] = s.sent[a]
    BY <2>0 DEF G!Machines, G!Parts, G!Arms
  <2>3. Good(t)
    BY <1>1, <2>1, <2>2 DEF Good
  <2>4. QED
    BY <1>1, <2>3 DEF G!DoReach
<1>2. QED
  BY <1>1 DEF G!DoReach

\* A hand closes in the state from which it is released, and opens when it is left.
LEMMA GraspedIsGood ==
  ASSUME NEW s, NEW in, Good(s)
  PROVE  Good(G!DoGrasp(s, in))
<1> DEFINE t == G!ResetTargetBall(s)
           u == [s EXCEPT !.sent["torso"] = "grasp", !.sent[s.arm] = "grasp", !.closed[s.arm] = TRUE,
                          !.latch = FALSE, !.state = "release"]
<1>1. s \in G!Machines
  BY DEF Good
<1>2. /\ t \in G!Machines /\ t.arm = s.arm /\ t.state = s.state /\ t.closed = s.closed
      /\ t.wentHome = s.wentHome /\ t.breathing = s.breathing /\ t.sent = s.sent
  BY <1>1 DEF G!ResetTargetBall, G!Machines
<1>3. u \in G!Machines
  BY <1>1 DEF G!Machines, G!States, G!Parts, G!Requested
<1>4. /\ u.arm = s.arm /\ u.state = "release" /\ u.wentHome = s.wentHome
      /\ u.breathing = s.breathing
      /\ \A a \in G!Arms \ {s.arm} : u.sent[a] = s.sent[a] /\ u.closed[a] = s.closed[a]
  BY <1>1 DEF G!Machines, G!Parts, G!Arms
<1>5. G!DoGrasp(s, in) \in {s, t} \/ (s.state = "reach" /\ G!DoGrasp(s, in) = u)
  BY DEF G!DoGrasp
<1> HIDE DEF t, u
<1>6. Good(t)
  BY <1>2 DEF Good, AtHome
<1>7. s.state = "reach" => Good(u)
  BY <1>3, <1>4 DEF Good
<1>8. QED
  BY <1>5, <1>6, <1>7

\* Releasing opens the hand of the selected arm (943-960).
LEMMA ReleasedIsGood ==
  ASSUME NEW s, Good(s)
  PROVE  Good(G!DoRelease(s)) /\ Good(G!DoWait(s))
<1> DEFINE t == [s EXCEPT !.closed[s.arm] = FALSE, !.latch = FALSE, !.state = "wait"]
           u == [s EXCEPT !.state = "idle"]
<1>1. s \in G!Machines
  BY DEF Good
<1>2. /\ t \in G!Machines /\ t.arm = s.arm /\ t.state = "wait" /\ ~t.closed[s.arm]
      /\ \A a \in G!Arms \ {s.arm} : t.closed[a] = s.closed[a]
      /\ t.wentHome = s.wentHome /\ t.breathing = s.breathing /\ t.sent = s.sent
  BY <1>1 DEF G!Machines, G!States
<1>3. /\ u \in G!Machines /\ u.arm = s.arm /\ u.state = "idle" /\ u.closed = s.closed
      /\ u.wentHome = s.wentHome /\ u.breathing = s.breathing /\ u.sent = s.sent
  BY <1>1 DEF G!Machines, G!States
<1>4. G!DoRelease(s) = s \/ (s.state = "release" /\ G!DoRelease(s) = t)
  BY DEF G!DoRelease
<1>5. G!DoWait(s) = s \/ (s.state = "wait" /\ G!DoWait(s) = u)
  BY DEF G!DoWait
<1> HIDE DEF t, u
<1>6. s.state = "release" => Good(t)
  BY <1>2 DEF Good
<1>7. s.state = "wait" => Good(u)
  BY <1>3 DEF Good, AtHome
<1>8. QED
  BY <1>4, <1>5, <1>6, <1>7

\* A run is its steps in their order (1533-1547): each leaves a good state to the next one.
LEMMA RunIsGood ==
  ASSUME NEW s, NEW in \in G!Inputs, Good(s)
  PROVE  Good(G!RunFrom(s, in))
<1> DEFINE sensed == G!GetSensorData(s, in)
           idled == G!DoIdle(sensed, in)
           selected == G!SelectArm(idled, in)
           reached == G!DoReach(selected)
           grasped == G!DoGrasp(reached, in)
           released == G!DoRelease(grasped)
<1>1. Good(sensed)
  BY SensedIsGood
<1>2. Good(idled)
  BY <1>1, IdledIsGood
<1>3. Good(selected)
  BY <1>2, SelectedIsGood
<1>4. Good(reached)
  BY <1>3, ReachedIsGood
<1>5. Good(grasped)
  BY <1>4, GraspedIsGood
<1>6. Good(G!DoWait(released))
  BY <1>5, ReleasedIsGood
<1>7. QED
  BY <1>6 DEF G!RunFrom


GraspKept == Good(grasp_m) /\ grasp_event \in {"none", "e_grasping_disabled", "e_grasping_enabled"}

\* threadInit leaves all at home.
LEMMA GraspInit == G!Init => GraspKept
<1> SUFFICES ASSUME G!Init PROVE GraspKept
  OBVIOUS
<1>1. G!FirstArm \in G!Arms
  BY DEF G!FirstArm, G!Arms
<1>2. QED
  BY <1>1 DEF G!Init, GraspKept, Good, AtHome, G!Machines, G!States, G!Parts, G!Requested, G!Arms

\* Runs, the time that passes, the commands and threadRelease keep the invariant.
LEMMA GraspNext == GraspKept /\ [G!Next]_(G!vars) => GraspKept'
<1> SUFFICES ASSUME GraspKept, [G!Next]_(G!vars) PROVE GraspKept'
  OBVIOUS
<1>1. CASE G!Run
  BY <1>1, RunIsGood DEF G!Run, G!SendEvents, GraspKept
<1>2. CASE G!IdleElapses
  BY <1>2 DEF G!IdleElapses, GraspKept, Good, AtHome, G!Machines, G!States, G!Parts, G!Requested,
     G!Arms
<1>3. CASE G!LatchElapses
  BY <1>3 DEF G!LatchElapses, GraspKept, Good, AtHome, G!Machines, G!States, G!Parts, G!Requested,
     G!Arms
<1>4. CASE G!EnableGrasping
  BY <1>4 DEF G!EnableGrasping, GraspKept, Good, AtHome, G!Machines, G!States, G!Parts,
     G!Requested, G!Arms
<1>5. CASE G!DisableGrasping
  BY <1>5 DEF G!DisableGrasping, GraspKept, Good, AtHome, G!Machines, G!States, G!Parts,
     G!Requested, G!Arms
<1>6. CASE G!ThreadRelease
  <2>1. Good(G!AllHome(grasp_m)) /\ AtHome(G!AllHome(grasp_m))
      /\ grasp_m' = [G!AllHome(grasp_m) EXCEPT !.state = "off"]
    BY <1>6, HomeIsGood DEF G!ThreadRelease, GraspKept
  <2>2. QED
    BY <1>6, <2>1 DEF G!ThreadRelease, GraspKept, Good, AtHome, G!Machines, G!States, G!Parts,
       G!Requested, G!Arms
<1>7. CASE UNCHANGED G!vars
  BY <1>7 DEF G!vars, GraspKept
<1>8. QED
  BY <1>1, <1>2, <1>3, <1>4, <1>5, <1>6, <1>7 DEF G!Next

\* The invariant of the grasp.
LEMMA GraspAlways == G!Spec => []GraspKept
BY GraspInit, GraspNext, PTL DEF G!Spec

\* The state of the thread stays in its type.
THEOREM GraspTypes == G!Spec => []G!TypeOK
<1>1. GraspKept => G!TypeOK
  BY DEF GraspKept, Good, G!TypeOK
<1>2. QED
  BY <1>1, GraspAlways, PTL

\* Only the selected arm is away from home (ManagerThread.cpp:779-855).
THEOREM OnlyOneArmIsAway == G!Spec => []G!OtherArmAtHome
<1>1. GraspKept => G!OtherArmAtHome
  BY DEF GraspKept, Good, G!OtherArmAtHome
<1>2. QED
  BY <1>1, GraspAlways, PTL

\* A hand is closed only from the grasp to the release, and is the selected arm's (892-960).
THEOREM ClosedIsReleased == G!Spec => []G!ClosedOnlyToRelease
<1>1. GraspKept => G!ClosedOnlyToRelease
  BY DEF GraspKept, Good, G!ClosedOnlyToRelease
<1>2. QED
  BY <1>1, GraspAlways, PTL

\* Disabled or after an idle timeout, the robot was asked to be at home, with open hands (432-461).
THEOREM IdleIsHome == G!Spec => []G!HomeWhenIdle
<1>1. GraspKept => G!HomeWhenIdle
  BY DEF GraspKept, Good, AtHome, G!HomeWhenIdle
<1>2. QED
  BY <1>1, GraspAlways, PTL

\* The breathers never run while the arms follow a target (422-430, 464-472).
THEOREM BreathingIsRest == G!Spec => []G!BreathesOnlyAtRest
<1>1. GraspKept => G!BreathesOnlyAtRest
  BY DEF GraspKept, Good, G!BreathesOnlyAtRest
<1>2. QED
  BY <1>1, GraspAlways, PTL

\* A behaviour of all the components is one of GraspManager, which takes its steps or none.
LEMMA GraspBehaves == AllSpec => G!Spec
<1>1. AllInit => G!Init
  BY DEF AllInit
<1>2. [AllNext]_allVars => [G!Next]_(G!vars)
  BY DEF AllNext, allVars, graspVars, G!vars, GraspManagerRuns, CoordinatorRuns, JointSplitRuns,
         WalkPlayerRuns, BalancingModuleRuns, ReferencesGeneratorRuns, GridMappingRuns,
         WholeBodyEstimatorRuns
<1>3. QED
  BY <1>1, <1>2, PTL DEF AllSpec, G!Spec

--------------------------------------------------------------------------------
(* BalancingModule *)

\* The phases in the order of the code, as sets.
Closing == {"deactivated", "restored", "helper deleted", "rpc closed", "constraints closed",
            "events closed", "controller deleted", "generators deleted", "generators cleared", "done"}

\* The phases before the constraints are read.
Early == {"created", "helper", "rpc", "constraints port", "robot", "generators", "controller", "commands"}

\* The phases of configure, by number.
LEMMA MakingPhases ==
  /\ B!Making[1] = "created" /\ B!Making[2] = "helper" /\ B!Making[3] = "rpc"
  /\ B!Making[4] = "constraints port" /\ B!Making[5] = "robot" /\ B!Making[6] = "generators"
  /\ B!Making[7] = "controller" /\ B!Making[8] = "commands" /\ B!Making[9] = "constraints"
  /\ B!Making[10] = "threads" /\ B!Making[11] = "ready"
BY DEF B!Making

\* The phases of close, by number.
LEMMA UndoingPhases ==
  /\ B!Undoing[1] = "deactivated" /\ B!Undoing[2] = "restored" /\ B!Undoing[3] = "helper deleted"
  /\ B!Undoing[4] = "rpc closed" /\ B!Undoing[5] = "constraints closed"
  /\ B!Undoing[6] = "events closed"
  /\ B!Undoing[7] = "controller deleted" /\ B!Undoing[8] = "generators deleted"
  /\ B!Undoing[9] = "generators cleared" /\ B!Undoing[10] = "done"
BY DEF B!Undoing

\* What the phases of configure lead to.
LEMMA MakingSteps ==
  ASSUME NEW i \in 1..10
  PROVE  /\ B!Making[i + 1] = "constraints" => B!Making[i] = "commands"
         /\ B!Making[i + 1] \in Early => B!Making[i] \in Early
         /\ B!Making[i + 1] \notin {"threads", "ready"} => B!Making[i] \notin {"threads", "ready"}
         /\ B!Making[i] \in {"threads", "ready"} => B!Making[i + 1] \in {"threads", "ready"}
<1>1. \/ (i = 1 /\ i + 1 = 2) \/ (i = 2 /\ i + 1 = 3) \/ (i = 3 /\ i + 1 = 4) \/ (i = 4 /\ i + 1 = 5)
      \/ (i = 5 /\ i + 1 = 6) \/ (i = 6 /\ i + 1 = 7) \/ (i = 7 /\ i + 1 = 8) \/ (i = 8 /\ i + 1 = 9)
      \/ (i = 9 /\ i + 1 = 10) \/ (i = 10 /\ i + 1 = 11)
  OBVIOUS
<1>2. \/ B!Making[i] \in Early /\ B!Making[i + 1] \in Early
      \/ B!Making[i] = "commands" /\ B!Making[i + 1] = "constraints"
      \/ B!Making[i] = "constraints" /\ B!Making[i + 1] = "threads"
      \/ B!Making[i] = "threads" /\ B!Making[i + 1] = "ready"
  BY <1>1, MakingPhases, Zenon DEF Early
<1>3. QED
  BY <1>2 DEF Early

\* The phases of close, as a set.
LEMMA UndoneAsSet == {B!Undoing[i] : i \in 1..10} = Closing
<1>1. \A i \in 1..10 : B!Undoing[i] \in Closing
  <2>1. 1..10 = {1, 2, 3, 4, 5, 6, 7, 8, 9, 10}
    OBVIOUS
  <2>2. QED
    BY <2>1, UndoingPhases DEF Closing
<1>2. \A x \in Closing : \E i \in 1..10 : x = B!Undoing[i]
  <2>1. {1, 2, 3, 4, 5, 6, 7, 8, 9, 10} \subseteq 1..10
    OBVIOUS
  <2>2. QED
    BY <2>1, UndoingPhases DEF Closing
<1>3. QED
  BY <1>1, <1>2

\* The phases of configure, as a set.
LEMMA MadeAsSet ==
  {B!Making[i] : i \in 1..11} =
    {"created", "helper", "rpc", "constraints port", "robot", "generators", "controller", "commands",
     "constraints", "threads", "ready"}
<1> DEFINE S == {"created", "helper", "rpc", "constraints port", "robot", "generators", "controller",
                 "commands", "constraints", "threads", "ready"}
<1>1. \A i \in 1..11 : B!Making[i] \in S
  <2>1. 1..11 = {1, 2, 3, 4, 5, 6, 7, 8, 9, 10, 11}
    OBVIOUS
  <2>2. QED
    BY <2>1, MakingPhases
<1>2. \A x \in S : \E i \in 1..11 : x = B!Making[i]
  <2>1. {1, 2, 3, 4, 5, 6, 7, 8, 9, 10, 11} \subseteq 1..11
    OBVIOUS
  <2>2. QED
    BY <2>1, MakingPhases
<1> HIDE DEF S
<1>3. {B!Making[i] : i \in 1..11} = S
  BY <1>1, <1>2
<1>4. QED
  BY <1>3 DEF S

\* What is deleted in each phase of close.
LEMMA WhatIsUndone ==
  /\ B!Undone("deactivated") = Closing
  /\ B!Undone("restored") = Closing \ {"deactivated"}
  /\ B!Made("threads") = {"threads", "ready"}
  /\ B!After(B!Undoing, 6, "deactivated") \subseteq Closing
<1>1. 1..10 = {1, 2, 3, 4, 5, 6, 7, 8, 9, 10} /\ 1..11 = {1, 2, 3, 4, 5, 6, 7, 8, 9, 10, 11}
  OBVIOUS
<1>2. B!Undone("deactivated") = Closing
  <2>1. \A i \in 1..10 : \E j \in 1..i : B!Undoing[j] = "deactivated"
    <3>1. \A i \in 1..10 : 1 \in 1..i
      OBVIOUS
    <3>2. QED
      BY <3>1, UndoingPhases
  <2>2. B!Undone("deactivated") = {B!Undoing[i] : i \in 1..10}
    BY <2>1 DEF B!Undone, B!After
  <2>3. QED
    BY <2>2, UndoneAsSet
<1>3. B!Undone("restored") = Closing \ {"deactivated"}
  <2>1. \A i \in 2..10 : 2 \in 1..i
    OBVIOUS
  <2>2. \A j \in 1..1 : j = 1
    OBVIOUS
  <2>3. \A i \in 1..10 : (\E j \in 1..i : B!Undoing[j] = "restored") <=> i # 1
    <3> TAKE i \in 1..10
    <3>1. CASE i = 1
      BY <3>1, <2>2, UndoingPhases
    <3>2. CASE i # 1
      <4>1. i \in 2..10
        BY <3>2
      <4>2. QED
        BY <3>2, <4>1, <2>1, UndoingPhases
    <3>3. QED
      BY <3>1, <3>2
  <2>4. \A i \in 1..10 : B!Undoing[i] # "deactivated" <=> i # 1
    BY <1>1, UndoingPhases
  <2>5. B!Undone("restored") = {B!Undoing[i] : i \in 1..10} \ {"deactivated"}
    <3> DEFINE later == {k \in 1..10 : \E j \in 1..k : B!Undoing[j] = "restored"}
    <3>1. \A i : i \in later <=> i \in 1..10 /\ B!Undoing[i] # "deactivated"
      BY <2>3, <2>4
    <3>2. B!Undone("restored") = {B!Undoing[i] : i \in later}
      BY DEF B!Undone, B!After
    <3> HIDE DEF later
    <3>3. QED
      BY <3>1, <3>2
  <2>6. QED
    BY <2>5, UndoneAsSet
<1>4. B!Made("threads") = {"threads", "ready"}
  <2>1. \A j \in 1..11 : B!Making[j] = "threads" <=> j = 10
    BY <1>1, MakingPhases
  <2>2. \A i \in 1..11 : (\E j \in 1..i : B!Making[j] = "threads") <=> i \in {10, 11}
    <3>1. \A i \in 1..11 : 10 \in 1..i <=> i \in {10, 11}
      OBVIOUS
    <3>2. \A i \in 1..11 : 1..i \subseteq 1..11
      OBVIOUS
    <3>3. QED
      BY <2>1, <3>1, <3>2
  <2>3. B!Made("threads") = {B!Making[i] : i \in {10, 11}}
    BY <1>1, <2>2 DEF B!Made, B!After
  <2>4. QED
    BY <2>3, MakingPhases
<1>5. B!After(B!Undoing, 6, "deactivated") \subseteq Closing
  <2>1. 1..6 \subseteq 1..10
    OBVIOUS
  <2>2. QED
    BY <2>1, UndoneAsSet DEF B!After
<1>6. QED
  BY <1>2, <1>3, <1>4, <1>5

\* No phase of configure is one of close.
LEMMA PhasesAreApart ==
  B!Phases = {"created", "helper", "rpc", "constraints port", "robot", "generators", "controller",
            "commands", "constraints", "threads", "ready", "failed"} \cup Closing
BY MadeAsSet, UndoneAsSet DEF B!Phases

\* Before the controller runs there are no forces, and before configure has read the constraints
\* there are none.
NothingYet ==
  /\ bal_phase \in Early => bal_constraints = B!Empty
  /\ bal_phase \notin {"threads", "ready", "failed"} \cup Closing => bal_forces = {}

\* Without configured gains the boards keep theirs; a closing module is not active unless a command
\* came meanwhile.
Rested ==
  /\ ~bal_plan.pids => bal_boards = "initial"
  /\ bal_phase \in Closing /\ ~bal_late => ~bal_active

\* A command that has not called back has written the linked variable.
LinkedIsAsked == bal_setting /\ ~bal_overlapped => bal_linked = bal_asked

BalancingKept == /\ B!TypeOK /\ NothingYet /\ Rested /\ LinkedIsAsked
        /\ B!LiftedFootIsUnloaded /\ B!ClosedAtRest /\ B!SetGainIsUsed

\* The weights stay in their range, and only the feet of the set have any.
LEMMA InterpolatedWeights ==
  ASSUME bal_constraints.weight \in [bal_Feet -> 0..bal_FullWeight]
  PROVE  /\ B!Interpolated \in [bal_Feet -> 0..bal_FullWeight]
         /\ \A f \in bal_constraints.feet \cap bal_Feet :
              /\ B!Interpolated[f] <= bal_constraints.weight[f] + 1
              /\ bal_constraints.weight[f] <= B!Interpolated[f] + 1
         /\ B!Heavy(B!Interpolated) \subseteq bal_constraints.feet
<1>1. \A f \in bal_Feet : bal_constraints.weight[f] \in 0..bal_FullWeight
  OBVIOUS
<1>2. \A f \in bal_Feet : /\ B!Moved(f) \in 0..bal_FullWeight
                          /\ B!Moved(f) <= bal_constraints.weight[f] + 1
                          /\ bal_constraints.weight[f] <= B!Moved(f) + 1
  BY <1>1, BalancingAssumption DEF B!Moved
<1>3. 0 \in 0..bal_FullWeight
  BY BalancingAssumption
<1>4. \A f \in bal_Feet : B!Interpolated[f] = IF f \in bal_constraints.feet THEN B!Moved(f) ELSE 0
  BY DEF B!Interpolated
<1>5. B!Interpolated \in [bal_Feet -> 0..bal_FullWeight]
  BY <1>2, <1>3 DEF B!Interpolated
<1>6. \A f \in B!Heavy(B!Interpolated) : f \in bal_Feet /\ B!Interpolated[f] > 0
  BY DEF B!Heavy
<1>7. \A f \in B!Heavy(B!Interpolated) : f \in bal_constraints.feet
  BY <1>4, <1>6
<1>8. QED
  BY <1>2, <1>4, <1>5, <1>7

\* The module starts with nothing made.
LEMMA BalancingInit == B!Init => BalancingKept
<1> SUFFICES ASSUME B!Init PROVE BalancingKept
  OBVIOUS
<1>1. B!Empty \in [feet : SUBSET bal_Feet, held : SUBSET bal_Feet, weight : [bal_Feet -> 0..bal_FullWeight]]
  BY BalancingAssumption DEF B!Empty
<1>2. B!TypeOK
  <2>1. bal_phase \in B!Phases
    BY PhasesAreApart DEF B!Init
  <2>2. bal_plan \in [fails : 0..10, pids : BOOLEAN, feet : SUBSET bal_Feet]
    <3>1. {0, 9, 10} \subseteq 0..10
      OBVIOUS
    <3>2. QED
      BY <3>1 DEF B!Init
  <2>3. 0 \in 0..bal_MaxCommands
    BY BalancingAssumption
  <2>4. QED
    BY <1>1, <2>1, <2>2, <2>3 DEF B!Init, B!TypeOK, B!Gains, B!Keys
<1>3. bal_phase \notin Closing
  BY DEF B!Init, Closing
<1>4. NothingYet /\ Rested /\ LinkedIsAsked /\ B!SetGainIsUsed
  BY <1>3 DEF B!Init, NothingYet, Rested, LinkedIsAsked, B!SetGainIsUsed
<1>5. B!LiftedFootIsUnloaded /\ B!ClosedAtRest
  BY <1>3, WhatIsUndone DEF B!Init, B!LiftedFootIsUnloaded, B!ClosedAtRest
<1>6. QED
  BY <1>2, <1>4, <1>5 DEF BalancingKept

\* A message of the constraints port changes feet and weights only within their bounds.
LEMMA BalancingServe ==
  ASSUME BalancingKept, B!Serve
  PROVE  bal_served' \in 0..bal_MaxCommands /\ bal_late' \in BOOLEAN
      /\ (~bal_late' => ~bal_late /\ bal_phase \notin Closing)
<1>1. bal_served' \in 0..bal_MaxCommands
  BY BalancingAssumption DEF BalancingKept, B!TypeOK, B!Serve
<1>2. bal_late' \in BOOLEAN /\ (~bal_late' => ~bal_late /\ bal_phase \notin Closing)
  BY WhatIsUndone DEF BalancingKept, B!TypeOK, B!Serve
<1>3. QED
  BY <1>1, <1>2

\* configure makes one thing after the other (70-219).
LEMMA BalancingConfigure == BalancingKept /\ B!Configure => BalancingKept'
<1> SUFFICES ASSUME BalancingKept, B!Configure PROVE BalancingKept'
  OBVIOUS
<1>1. PICK i \in 1..10 :
        /\ bal_phase = B!Making[i]
        /\ bal_phase' = "failed" \/ bal_phase' = B!Making[i + 1]
        /\ bal_constraints' = IF B!Making[i + 1] =
             "constraints" THEN B!InitialConstraints ELSE bal_constraints
        /\ bal_boards' = IF i = 10 /\ bal_plan.pids THEN "loaded" ELSE bal_boards
        /\ UNCHANGED <<bal_plan, bal_quit, bal_served, bal_late, bal_active, B!gains, bal_forces,
                       bal_misuse>>
  BY DEF B!Configure
<1>2. bal_phase \notin Closing /\ bal_phase' \notin Closing /\ bal_phase' \in B!Phases
  <2>1. i \in 1..11 /\ i + 1 \in 1..11
    OBVIOUS
  <2>2. QED
    BY <1>1, <2>1, MadeAsSet, PhasesAreApart DEF Closing
<1>3. B!Making[i + 1] = "constraints" => bal_phase = "commands"
  BY <1>1, MakingSteps
<1>4. bal_constraints' \in [feet : SUBSET bal_Feet, held : SUBSET bal_Feet, weight : [bal_Feet -> 0..bal_FullWeight]]
  <2>1. B!InitialConstraints \in [feet : SUBSET bal_Feet, held : SUBSET bal_Feet, weight : [bal_Feet -> 0..bal_FullWeight]]
    BY BalancingAssumption DEF B!InitialConstraints, BalancingKept, B!TypeOK
  <2>2. QED
    BY <1>1, <2>1 DEF BalancingKept, B!TypeOK
<1>5. bal_constraints' # bal_constraints => bal_forces = {}
  BY <1>1, <1>3 DEF BalancingKept, NothingYet, Closing
<1>6. B!TypeOK'
  BY <1>1, <1>2, <1>4, <1>5 DEF BalancingKept, B!TypeOK, B!gains, B!Keys
<1>7. NothingYet'
  <2>1. bal_phase' \in Early => bal_constraints' = B!Empty
    BY <1>1, MakingSteps DEF BalancingKept, NothingYet, Early
  <2>2. bal_phase' \notin {"threads", "ready", "failed"} \cup Closing => bal_forces' = {}
    <3>1. bal_phase' # "failed" =>
          bal_phase \notin {"threads", "ready"} \/ bal_phase' \in {"threads", "ready"}
      BY <1>1, MakingSteps
    <3>2. bal_phase' \notin {"threads", "ready", "failed"} =>
          bal_phase \notin {"threads", "ready", "failed"}
      <4>1. bal_phase # "failed"
        <5>1. i \in 1..11
          OBVIOUS
        <5>2. QED
          BY <1>1, <5>1, MadeAsSet
      <4>2. QED
        BY <3>1, <4>1
    <3>3. QED
      BY <1>1, <1>2, <3>2 DEF BalancingKept, NothingYet
  <2>3. QED
    BY <2>1, <2>2 DEF NothingYet
<1>8. B!LiftedFootIsUnloaded'
  BY <1>1, <1>5 DEF BalancingKept, B!LiftedFootIsUnloaded, B!Heavy
<1>9. Rested' /\ B!ClosedAtRest' /\ LinkedIsAsked' /\ B!SetGainIsUsed'
  BY <1>1, <1>2, WhatIsUndone DEF BalancingKept, Rested, B!ClosedAtRest, LinkedIsAsked,
     B!SetGainIsUsed, B!gains
<1>10. QED
  BY <1>6, <1>7, <1>8, <1>9 DEF BalancingKept

\* close deletes one thing after the other (433-495).
LEMMA BalancingClose == BalancingKept /\ B!Close => BalancingKept'
<1> SUFFICES ASSUME BalancingKept, B!Close PROVE BalancingKept'
  OBVIOUS
<1>1. PICK i \in 1..9 :
        /\ bal_phase = B!Undoing[i]
        /\ bal_phase' = B!Undoing[i + 1]
        /\ bal_boards' = IF i = 1 THEN B!Restored ELSE bal_boards
        /\ bal_active' = (bal_active /\ bal_phase' \notin B!Undone("controller deleted"))
        /\ UNCHANGED <<bal_plan, bal_quit, bal_served, bal_late, B!gains, B!control, bal_misuse>>
  BY DEF B!Close
<1>2. bal_phase \in Closing /\ bal_phase' \in Closing /\ bal_phase' \in B!Phases
    /\ (i # 1 => bal_phase # "deactivated")
  <2>1. i \in 1..10 /\ i + 1 \in 1..10
    OBVIOUS
  <2>2. bal_phase \in Closing /\ bal_phase' \in Closing
    BY <1>1, <2>1, UndoneAsSet
  <2>3. i # 1 => bal_phase # "deactivated"
    <3>1. i = 1 \/ i = 2 \/ i = 3 \/ i = 4 \/ i = 5 \/ i = 6 \/ i = 7 \/ i = 8 \/ i = 9
      OBVIOUS
    <3>2. QED
      BY <1>1, <3>1, UndoingPhases
  <2>4. QED
    BY <2>2, <2>3, PhasesAreApart
<1>3. B!TypeOK'
  BY <1>1, <1>2 DEF BalancingKept, B!TypeOK, B!gains, B!control, B!Keys, B!Restored
<1>4. NothingYet' /\ B!LiftedFootIsUnloaded' /\ LinkedIsAsked' /\ B!SetGainIsUsed'
  <2>1. NothingYet'
    BY <1>1, <1>2 DEF NothingYet, Closing, Early
  <2>2. B!LiftedFootIsUnloaded'
    BY <1>1 DEF BalancingKept, B!LiftedFootIsUnloaded, B!Heavy, B!control
  <2>3. LinkedIsAsked' /\ B!SetGainIsUsed'
    BY <1>1 DEF BalancingKept, LinkedIsAsked, B!SetGainIsUsed, B!gains
  <2>4. QED
    BY <2>1, <2>2, <2>3
<1>5. Rested'
  BY <1>1, <1>2 DEF BalancingKept, Rested, B!Restored
<1>6. B!ClosedAtRest'
  BY <1>1, <1>2, <1>5, WhatIsUndone DEF BalancingKept, Rested, B!ClosedAtRest, B!Restored
<1>7. QED
  BY <1>3, <1>4, <1>5, <1>6 DEF BalancingKept

\* A control cycle moves each weight by one step and leaves no force on a foot that is not heavy.
LEMMA BalancingCycle == BalancingKept /\ B!Cycle => BalancingKept'
<1> SUFFICES ASSUME BalancingKept, B!Cycle PROVE BalancingKept'
  OBVIOUS
<1>1. /\ bal_constraints' = [bal_constraints EXCEPT !.weight = B!Interpolated]
      /\ bal_forces' = B!Heavy(bal_constraints'.weight)
      /\ UNCHANGED <<bal_phase, bal_plan, bal_quit, bal_served, bal_late, bal_active, bal_boards,
                     B!gains, bal_misuse>>
  BY DEF B!Cycle, B!Forces
<1>2. bal_constraints \in [feet : SUBSET bal_Feet, held : SUBSET bal_Feet, weight : [bal_Feet -> 0..bal_FullWeight]]
  BY DEF BalancingKept, B!TypeOK
<1>3. /\ B!Interpolated \in [bal_Feet -> 0..bal_FullWeight]
      /\ B!Heavy(B!Interpolated) \subseteq bal_constraints.feet
  BY <1>2, InterpolatedWeights
<1>4. /\ bal_constraints' \in [feet : SUBSET bal_Feet, held : SUBSET bal_Feet, weight : [bal_Feet -> 0..bal_FullWeight]]
      /\ bal_constraints'.feet = bal_constraints.feet /\ bal_constraints'.weight = B!Interpolated
  BY <1>1, <1>2, <1>3
<1>5. bal_forces' = B!Heavy(B!Interpolated) /\ bal_forces' \subseteq bal_constraints'.feet
  BY <1>1, <1>3, <1>4
<1>6. B!TypeOK'
  BY <1>1, <1>4, <1>5 DEF BalancingKept, B!TypeOK, B!gains
<1>7. bal_phase \in {"threads", "ready"} \cup Closing
  BY WhatIsUndone DEF B!Cycle, B!Running
<1>8. NothingYet'
  BY <1>1, <1>7 DEF NothingYet, Closing, Early
<1>9. B!LiftedFootIsUnloaded'
  BY <1>4, <1>5 DEF B!LiftedFootIsUnloaded, B!Heavy
<1>10. Rested' /\ B!ClosedAtRest' /\ LinkedIsAsked' /\ B!SetGainIsUsed'
  BY <1>1, WhatIsUndone DEF BalancingKept, Rested, B!ClosedAtRest, LinkedIsAsked, B!SetGainIsUsed,
     B!gains
<1>11. QED
  BY <1>6, <1>8, <1>9, <1>10 DEF BalancingKept

\* The commands, but for those that move the contacts, leave the control alone.
LEMMA BalancingCommands ==
  ASSUME BalancingKept,
         \/ B!CommandAfterHelper \/ B!Quit \/ B!Stream
         \/ \E state \in BOOLEAN : B!Switch(state)
         \/ \E key \in B!Keys : B!SwitchGains(key)
         \/ \E g \in B!Gains : B!SetParam(g)
  PROVE  BalancingKept'
<1>1. B!Serve /\ UNCHANGED <<bal_phase, bal_plan, B!control>>
  BY DEF B!CommandAfterHelper, B!Quit, B!Stream, B!Switch, B!SwitchGains, B!SetParam
<1>2. bal_served' \in 0..bal_MaxCommands /\ bal_late' \in BOOLEAN
    /\ (~bal_late' => ~bal_late /\ bal_phase \notin Closing)
  BY <1>1, BalancingServe
<1>3. /\ bal_quit' \in BOOLEAN /\ bal_active' \in BOOLEAN /\ bal_boards' \in B!Keys
      /\ bal_misuse' \subseteq {"helper", "controller", "events", "generators"}
      /\ (~bal_plan.pids => bal_boards' = bal_boards)
  BY DEF BalancingKept, B!TypeOK, B!CommandAfterHelper, B!Quit, B!Stream, B!Switch, B!SwitchGains,
     B!SetParam
<1>4. /\ bal_gain' \in B!Gains /\ bal_linked' \in B!Gains /\ bal_asked' \in B!Gains
      /\ bal_setting' \in BOOLEAN /\ bal_overlapped' \in BOOLEAN
      /\ bal_synced' \in B!Gains \cup {"nothing"}
      /\ LinkedIsAsked' /\ B!SetGainIsUsed'
  <2>1. CASE UNCHANGED B!gains
    BY <2>1 DEF B!gains, BalancingKept, B!TypeOK, LinkedIsAsked, B!SetGainIsUsed
  <2>2. CASE \E g \in B!Gains : B!SetParam(g)
    BY <2>2 DEF BalancingKept, B!TypeOK, LinkedIsAsked, B!SetGainIsUsed, B!SetParam
  <2>3. QED
    BY <2>1, <2>2 DEF B!CommandAfterHelper, B!Quit, B!Stream, B!Switch, B!SwitchGains
<1>5. B!TypeOK'
  BY <1>1, <1>2, <1>3, <1>4 DEF BalancingKept, B!TypeOK, B!control
<1>6. NothingYet' /\ B!LiftedFootIsUnloaded'
  BY <1>1 DEF BalancingKept, NothingYet, B!LiftedFootIsUnloaded, B!Heavy, B!control
<1>7. Rested' /\ B!ClosedAtRest'
  BY <1>1, <1>2, <1>3, WhatIsUndone DEF BalancingKept, Rested, B!ClosedAtRest
<1>8. QED
  BY <1>4, <1>5, <1>6, <1>7 DEF BalancingKept

\* A message adds or removes a contact, whose weight then moves (531-549).
LEMMA BalancingConstrain ==
  ASSUME BalancingKept, NEW f \in bal_Feet, NEW holds \in BOOLEAN, B!Constrain(f, holds)
  PROVE  BalancingKept'
<1>1. B!Serve /\ UNCHANGED <<bal_phase, bal_plan, bal_quit, bal_active, bal_boards, B!gains,
                             bal_forces>>
  BY DEF B!Constrain
<1>2. bal_served' \in 0..bal_MaxCommands /\ bal_late' \in BOOLEAN
    /\ (~bal_late' => ~bal_late /\ bal_phase \notin Closing)
  BY <1>1, BalancingServe
<1>3. bal_constraints \in [feet : SUBSET bal_Feet, held : SUBSET bal_Feet, weight : [bal_Feet -> 0..bal_FullWeight]]
  BY DEF BalancingKept, B!TypeOK
<1>4. /\ bal_constraints' \in [feet : SUBSET bal_Feet, held : SUBSET bal_Feet, weight : [bal_Feet -> 0..bal_FullWeight]]
      /\ bal_constraints'.feet = bal_constraints.feet
      /\ bal_constraints'.weight = bal_constraints.weight
      /\ f \notin bal_constraints.feet => bal_constraints' = bal_constraints
      /\ bal_misuse' \subseteq {"helper", "controller", "events", "generators"}
  <2>1. bal_misuse' \subseteq {"helper", "controller", "events", "generators"}
    BY DEF B!Constrain, BalancingKept, B!TypeOK
  <2>2. CASE bal_constraints' = bal_constraints
    BY <1>3, <2>1, <2>2
  <2>3. CASE B!ControllerMade
    <3> DEFINE held == IF f \notin bal_constraints.feet THEN bal_constraints.held
                       ELSE IF holds THEN bal_constraints.held \cup {f} ELSE bal_constraints.held \ {f}
    <3>1. bal_constraints' = [bal_constraints EXCEPT !.held = held]
      BY <2>3 DEF B!Constrain
    <3>2. held \subseteq bal_Feet /\ (f \notin bal_constraints.feet => held = bal_constraints.held)
      BY <1>3
    <3> HIDE DEF held
    <3>3. QED
      BY <1>3, <2>1, <3>1, <3>2
  <2>4. QED
    BY <2>2, <2>3 DEF B!Constrain
<1>5. B!TypeOK'
  BY <1>1, <1>2, <1>4 DEF BalancingKept, B!TypeOK, B!gains
<1>6. NothingYet'
  BY <1>1, <1>4 DEF BalancingKept, NothingYet, B!Empty
<1>7. B!LiftedFootIsUnloaded'
  BY <1>1, <1>4 DEF BalancingKept, B!LiftedFootIsUnloaded, B!Heavy
<1>8. Rested' /\ B!ClosedAtRest' /\ LinkedIsAsked' /\ B!SetGainIsUsed'
  BY <1>1, <1>2, WhatIsUndone DEF BalancingKept, Rested, B!ClosedAtRest, LinkedIsAsked,
     B!SetGainIsUsed, B!gains
<1>9. QED
  BY <1>5, <1>6, <1>7, <1>8 DEF BalancingKept

\* The linked variables, a failing cycle and a stop keep the invariant.
LEMMA BalancingOthers ==
  ASSUME BalancingKept,
         B!Stop \/ B!SyncBegin \/ B!SyncEnd \/ B!ParameterUpdated \/ B!CycleFails \/ UNCHANGED B!moduleVars
  PROVE  BalancingKept'
<1>1. UNCHANGED <<bal_plan, bal_served, bal_late, bal_boards, B!control>>
  BY DEF B!Stop, B!SyncBegin, B!SyncEnd, B!ParameterUpdated, B!ParameterUpdatedWith, B!CycleFails,
     B!moduleVars, B!gains,
     B!control
<1>2. /\ bal_phase' = bal_phase \/ (bal_phase = "ready" /\ bal_phase' = "deactivated" /\ ~bal_active')
      /\ bal_active' = bal_active \/ ~bal_active'
  BY DEF B!Stop, B!SyncBegin, B!SyncEnd, B!ParameterUpdated, B!ParameterUpdatedWith, B!CycleFails,
     B!moduleVars
<1>3. /\ bal_quit' \in BOOLEAN /\ bal_active' \in BOOLEAN
      /\ bal_misuse' \subseteq {"helper", "controller", "events", "generators"}
  BY DEF BalancingKept, B!TypeOK, B!Stop, B!SyncBegin, B!SyncEnd, B!ParameterUpdated,
     B!ParameterUpdatedWith, B!CycleFails,
     B!moduleVars
<1>4. /\ bal_gain' \in B!Gains /\ bal_linked' \in B!Gains /\ bal_asked' \in B!Gains
      /\ bal_setting' \in BOOLEAN /\ bal_overlapped' \in BOOLEAN
      /\ bal_synced' \in B!Gains \cup {"nothing"}
      /\ LinkedIsAsked' /\ B!SetGainIsUsed'
  <2>1. CASE UNCHANGED B!gains
    BY <2>1 DEF B!gains, BalancingKept, B!TypeOK, LinkedIsAsked, B!SetGainIsUsed
  <2>2. CASE B!SyncBegin \/ B!SyncEnd \/ B!ParameterUpdated
    <3>1. CASE B!SyncBegin
      BY <3>1 DEF BalancingKept, B!TypeOK, LinkedIsAsked, B!SetGainIsUsed, B!SyncBegin
    <3>2. CASE B!SyncEnd
      BY <3>2 DEF BalancingKept, B!TypeOK, LinkedIsAsked, B!SetGainIsUsed, B!SyncEnd
    <3>3. CASE B!ParameterUpdated
      BY <3>3 DEF BalancingKept, B!TypeOK, LinkedIsAsked, B!SetGainIsUsed, B!ParameterUpdated,
         B!ParameterUpdatedWith
    <3>4. QED
      BY <2>2, <3>1, <3>2, <3>3
  <2>3. QED
    BY <2>1, <2>2 DEF B!Stop, B!CycleFails, B!moduleVars, B!gains
<1>5. bal_phase' \in B!Phases
  BY <1>2, PhasesAreApart DEF BalancingKept, B!TypeOK, Closing
<1>6. B!TypeOK'
  BY <1>1, <1>3, <1>4, <1>5 DEF BalancingKept, B!TypeOK, B!control
<1>7. NothingYet' /\ B!LiftedFootIsUnloaded'
  BY <1>1, <1>2 DEF BalancingKept, NothingYet, B!LiftedFootIsUnloaded, B!Heavy, B!control, Early,
     Closing
<1>8. Rested'
  BY <1>1, <1>2 DEF BalancingKept, Rested
<1>9. B!ClosedAtRest'
  BY <1>1, <1>2, WhatIsUndone DEF BalancingKept, B!ClosedAtRest
<1>10. QED
  BY <1>4, <1>6, <1>7, <1>8, <1>9 DEF BalancingKept

\* Every step keeps the invariant.
LEMMA BalancingNext == BalancingKept /\ [B!Next]_(B!moduleVars) => BalancingKept'
BY BalancingConfigure, BalancingClose, BalancingCycle, BalancingCommands, BalancingConstrain,
   BalancingOthers DEF B!Next

\* The invariant of the balancing module.
LEMMA BalancingAlways == B!Spec => []BalancingKept
BY BalancingInit, BalancingNext, PTL DEF B!Spec

\* No control cycle moves the weight of a contact by more than one step of the transition, whatever
\* messages come and whether or not the controller was off meanwhile
\* (DynamicConstraint::updateStateInterpolation).
THEOREM ContactsMoveGraduallyHolds == B!Spec => B!ContactsMoveGradually
<1>1. BalancingKept /\ [B!Next]_(B!moduleVars) =>
        [bal_forces' # bal_forces \/ bal_constraints'.weight # bal_constraints.weight =>
           \A f \in bal_constraints.feet :
             /\ bal_constraints'.weight[f] <= bal_constraints.weight[f] + 1
             /\ bal_constraints.weight[f] <= bal_constraints'.weight[f] + 1]_(B!moduleVars)
  <2> SUFFICES ASSUME BalancingKept, B!Next, bal_forces' # bal_forces \/ bal_constraints'.weight # bal_constraints.weight,
                      NEW f \in bal_constraints.feet
               PROVE  /\ bal_constraints'.weight[f] <= bal_constraints.weight[f] + 1
                      /\ bal_constraints.weight[f] <= bal_constraints'.weight[f] + 1
    OBVIOUS
  <2>0. bal_constraints \in [feet : SUBSET bal_Feet, held : SUBSET bal_Feet, weight : [bal_Feet -> 0..bal_FullWeight]]
    BY DEF BalancingKept, B!TypeOK
  <2>1. CASE B!Cycle
    <3>1. bal_constraints'.weight = B!Interpolated
      BY <2>0, <2>1 DEF B!Cycle
    <3>2. QED
      BY <2>0, <3>1, InterpolatedWeights
  <2>2. CASE B!Configure
    <3>1. bal_forces' = bal_forces /\ (bal_constraints' = bal_constraints \/ bal_phase \in Early)
      BY <2>2, MakingSteps DEF B!Configure, Early
    <3>2. bal_constraints.feet = {}
      BY <3>1 DEF BalancingKept, NothingYet, B!Empty
    <3>3. QED
      BY <3>2
  <2>3. CASE \E g \in bal_Feet, holds \in BOOLEAN : B!Constrain(g, holds)
    BY <2>0, <2>3 DEF B!Constrain
  <2>4. CASE UNCHANGED B!control
    BY <2>4 DEF B!control
  <2>5. QED
    BY <2>1, <2>2, <2>3, <2>4 DEF B!Next, B!Stop, B!Close, B!SyncBegin, B!SyncEnd,
       B!CommandAfterHelper, B!Quit,
       B!ParameterUpdated, B!ParameterUpdatedWith, B!Stream, B!Switch, B!SwitchGains, B!SetParam, B!CycleFails
<1>2. QED
  BY <1>1, BalancingAlways, PTL DEF B!Spec, B!ContactsMoveGradually

\* From the return of configure until close begins nothing is used before it is made or after it is
\* deleted (TorqueBalancingModule.cpp:70-219 and 433-495).
THEOREM NoMisuseWhileReadyHolds == B!Spec => B!NoMisuseWhileReady
<1>1. [B!Next]_(B!moduleVars) => [bal_misuse' # bal_misuse => bal_phase # "ready"]_(B!moduleVars)
  BY DEF B!Next, B!moduleVars, B!Configure, B!Stop, B!Close, B!SyncBegin, B!SyncEnd,
     B!CommandAfterHelper, B!Quit,
     B!ParameterUpdated, B!ParameterUpdatedWith, B!Stream, B!Switch, B!SwitchGains, B!SetParam, B!Constrain,
     B!ControllerMade, B!Cycle, B!CycleFails, B!control, B!gains
<1>2. QED
  BY <1>1, PTL DEF B!Spec, B!NoMisuseWhileReady

\* A behaviour of all the components is one of BalancingModule, which takes its steps or none.
LEMMA BalancingBehaves == AllSpec => B!Spec
<1>1. AllInit => B!Init
  BY DEF AllInit
<1>2. [AllNext]_allVars => [B!Next]_(B!moduleVars)
  BY DEF AllNext, allVars, balVars, B!moduleVars, GraspManagerRuns, CoordinatorRuns,
         JointSplitRuns, WalkPlayerRuns, BalancingModuleRuns, ReferencesGeneratorRuns,
         GridMappingRuns, WholeBodyEstimatorRuns
<1>3. QED
  BY <1>1, <1>2, PTL DEF AllSpec, B!Spec

--------------------------------------------------------------------------------
(* GridMapping *)

\* A set of natural numbers has a least member.
LEMMA LeastNatural ==
  ASSUME NEW S \in SUBSET Nat, S # {}
  PROVE  \E m \in S : \A k \in S : m <= k
<1> DEFINE less == OpToRel(<, Nat)
<1>1. IsWellFoundedOn(less, Nat)
  BY NatLessThanWellFounded
<1>2. \A x, y \in Nat : <<x, y>> \in less <=> x < y
  BY DEF OpToRel
<1> HIDE DEF less
<1>3. PICK m \in S : \A y \in S : ~(<<y, m>> \in less)
  BY <1>1, WFMin
<1>4. \A k \in S : k \in Nat /\ ~(k < m)
  BY <1>2, <1>3
<1>5. QED
  BY <1>4

\* A set of natural numbers up to a bound has a greatest member.
LEMMA GreatestOfNaturals ==
  ASSUME NEW n \in Nat, NEW naturals \in SUBSET Nat, naturals # {}, \A i \in naturals : i <= n
  PROVE  \E i \in naturals : \A k \in naturals : k <= i
<1> DEFINE above == {k \in Nat : \A i \in naturals : i <= k}
<1>1. above # {} /\ above \subseteq Nat
  OBVIOUS
<1>2. PICK m \in above : \A k \in above : m <= k
  BY <1>1, LeastNatural
<1>3. CASE m \in naturals
  BY <1>3
<1>4. CASE m \notin naturals
  <2>1. m \in Nat /\ m > 0
    <3>1. PICK i : i \in naturals
      OBVIOUS
    <3>2. i \in Nat /\ m \in Nat /\ i <= m
      BY <3>1
    <3>3. QED
      BY <1>4, <3>1, <3>2
  <2>2. m - 1 \in above
    <3>1. \A i \in naturals : i \in Nat /\ i <= m /\ i # m
      BY <1>4
    <3>2. \A i \in naturals : i <= m - 1
      BY <2>1, <3>1
    <3>3. QED
      BY <2>1, <3>2
  <2>3. QED
    BY <1>2, <2>2
<1>5. QED
  BY <1>3, <1>4

GridConfigs ==
  [mode : M!Modes, half : [1..2 -> grid_Halves], delta : [1..2 -> grid_Deltas], two : BOOLEAN, ports : SUBSET M!Ports]

\* Where a joint may be: in its range, or further out by part of a step.
GridRange(c, j) == {x \in Int : x < c.half[j] + c.delta[j] /\ x > -c.half[j] - c.delta[j]}

\* A position that lies in the range or near it; only the centre is a return point.
GridPoints(c) ==
  {p \in [pos : [1..2 -> Int], time : {grid_StaticPeriod, grid_ReturnPeriod}, flag : BOOLEAN,
          boundary : {"start", "in", "stop", "out"}] :
     /\ \A j \in 1..2 : p.pos[j] \in GridRange(c, j)
     /\ p.flag => p.pos = M!Center}

\* Between the start and the stop of a row one of the joints stays still.
JointStaysStill(s, i, j) ==
  /\ i < Len(s) /\ s[i + 1].pos[j] = s[i].pos[j]
  /\ s[i].boundary = "in" => i > 1 /\ s[i].pos[j] = s[i - 1].pos[j]
Grids(c) ==
  {s \in Seq(GridPoints(c)) :
     \A i \in 1..Len(s) : s[i].boundary \in {"start", "in"} =>
           \E j \in 1..2 : JointStaysStill(s, i, j)}

GridKept ==
  /\ M!TypeOK /\ grid_config \in GridConfigs /\ M!WaitsOnlyAtRest
  /\ grid_returnPoint => grid_next > 1
  /\ grid_next > 1 => /\ grid_returnPoint = M!Positions(grid_config)[grid_next - 1].flag
                      /\ grid_keepFitting =
                           (M!Positions(grid_config)[grid_next - 1].boundary \in {"start", "in"})

\* Lists that are of a set closed under concatenation give one of that set.
LEMMA FlattenIn ==
  ASSUME NEW S, <<>> \in S, \A u, v \in S : u \o v \in S,
         NEW n \in Nat, NEW seqs \in [1..n -> S]
  PROVE  M!FlattenSeq(seqs) \in S
<1> DEFINE Step(f) == [i \in 1..Len(seqs) |-> IF i = 1 THEN seqs[i] ELSE f[i - 1] \o seqs[i]]
           Flat == CHOOSE f : f = Step(f)
           Partial(k) == {f \in [1..k -> S] :
                            \A i \in 1..k : f[i] = IF i = 1 THEN seqs[i] ELSE f[i - 1] \o seqs[i]}
           missing == {k \in 1..n : Partial(k) = {}}
<1>1. Len(seqs) = n /\ seqs \in Seq(S)
  OBVIOUS
<1>2. CASE n = 0
  <2>1. seqs = <<>>
    BY <1>2
  <2>2. QED
    BY <1>1, <1>2, <2>1 DEF M!FlattenSeq
<1>3. CASE n # 0
  <2>1. missing = {}
    <3>1. SUFFICES ASSUME missing # {} PROVE FALSE
      OBVIOUS
    <3>2. PICK m \in missing : \A k \in missing : m <= k
      <4>1. missing \in SUBSET Nat
        OBVIOUS
      <4> HIDE DEF missing
      <4>2. QED
        BY <3>1, <4>1, LeastNatural
    <3>3. m \in 1..n /\ Partial(m) = {}
      BY <3>2
    <3>4. m # 1
      <4>1. [i \in 1..1 |-> seqs[i]] \in Partial(1)
        BY <1>3
      <4> HIDE DEF Partial
      <4>2. QED
        BY <3>3, <4>1
    <3>5. m - 1 \in 1..n /\ m - 1 \notin missing
      <4>1. missing \subseteq Nat
        OBVIOUS
      <4> HIDE DEF missing
      <4>2. QED
        BY <3>2, <3>3, <3>4, <4>1
    <3>6. PICK f : f \in Partial(m - 1)
      BY <3>5
    <3> DEFINE g == [i \in 1..m |-> IF i = m THEN f[m - 1] \o seqs[m] ELSE f[i]]
    <3>7. f[m - 1] \in S /\ seqs[m] \in S
      BY <3>3, <3>4, <3>6
    <3>8. f[m - 1] \o seqs[m] \in S
      <4> HIDE DEF Partial, g
      <4>1. QED
        BY <3>7
    <3>9. g \in [1..m -> S]
      BY <3>3, <3>6, <3>8
    <3>10. \A i \in 1..m : g[i] = IF i = 1 THEN seqs[i] ELSE g[i - 1] \o seqs[i]
      <4> SUFFICES ASSUME NEW i \in 1..m PROVE g[i] = IF i = 1 THEN seqs[i] ELSE g[i - 1] \o seqs[i]
        OBVIOUS
      <4>1. CASE i = m
        <5>1. g[i] = f[m - 1] \o seqs[m]
          BY <4>1
        <5>2. m - 1 \in 1..m /\ m - 1 # m
          BY <3>3, <3>4
        <5>3. g[m - 1] = f[m - 1]
          BY <5>2
        <5> HIDE DEF g
        <5>4. QED
          BY <3>4, <4>1, <5>1, <5>3
      <4>2. CASE i # m
        <5>1. i \in 1..(m - 1) /\ g[i] = f[i]
          BY <3>3, <4>2
        <5>2. f[i] = IF i = 1 THEN seqs[i] ELSE f[i - 1] \o seqs[i]
          BY <3>6, <5>1
        <5>3. i # 1 => i - 1 \in 1..m /\ i - 1 # m
          BY <3>3, <5>1
        <5>4. i # 1 => g[i - 1] = f[i - 1]
          BY <5>3
        <5> HIDE DEF g
        <5>5. QED
          BY <5>1, <5>2, <5>4
      <4>3. QED
        BY <4>1, <4>2
    <3>11. g \in Partial(m)
      <4> HIDE DEF g
      <4>1. QED
        BY <3>9, <3>10
    <3>12. QED
      BY <3>3, <3>11
  <2>2. PICK f : f \in Partial(n)
    <3>1. n \in 1..n
      BY <1>3
    <3>2. QED
      BY <2>1, <3>1
  <2>3. f = Step(f)
    BY <1>1, <2>2
  <2>4. Flat = Step(Flat)
    <3> HIDE DEF Step
    <3>1. QED
      BY <2>3
  <2>5. M!FlattenSeq(seqs) = Flat[n]
    BY <1>1, <1>3 DEF M!FlattenSeq
  <2> HIDE DEF Flat
  <2> DEFINE outside == {k \in 1..n : Flat[k] \notin S}
  <2>6. \A i \in 1..n : Flat[i] = IF i = 1 THEN seqs[i] ELSE Flat[i - 1] \o seqs[i]
    <3> DEFINE F == Flat
    <3>1. F = Step(F)
      BY <2>4
    <3> HIDE DEF F
    <3>2. \A i \in 1..n : F[i] = IF i = 1 THEN seqs[i] ELSE F[i - 1] \o seqs[i]
      BY <1>1, <3>1
    <3>3. QED
      BY <3>2 DEF F
  <2>7. outside = {}
    <3>1. SUFFICES ASSUME outside # {} PROVE FALSE
      OBVIOUS
    <3>2. PICK m \in outside : \A k \in outside : m <= k
      <4>1. outside \in SUBSET Nat
        OBVIOUS
      <4> HIDE DEF outside
      <4>2. QED
        BY <3>1, <4>1, LeastNatural
    <3>3. m \in 1..n /\ Flat[m] \notin S /\ seqs[m] \in S
      BY <3>2
    <3>4. m # 1
      <4>1. m = 1 => Flat[m] = seqs[m]
        BY <2>6, <3>3
      <4>2. QED
        BY <3>3, <4>1
    <3>5. m - 1 \in 1..n /\ m - 1 \notin outside
      <4>1. outside \subseteq Nat
        OBVIOUS
      <4> HIDE DEF outside
      <4>2. QED
        BY <3>2, <3>3, <3>4, <4>1
    <3>6. Flat[m - 1] \in S
      BY <3>5
    <3>7. Flat[m] = Flat[m - 1] \o seqs[m]
      BY <2>6, <3>3, <3>4
    <3>8. QED
      BY <3>3, <3>6, <3>7
  <2>8. n \in 1..n
    BY <1>3
  <2>9. QED
    BY <2>5, <2>7, <2>8
<1>4. QED
  BY <1>2, <1>3

\* Two grids behind each other are one.
LEMMA GridsJoin ==
  ASSUME NEW c, NEW u \in Grids(c), NEW v \in Grids(c)
  PROVE  u \o v \in Grids(c)
<1> DEFINE w == u \o v
<1>1. u \in Seq(GridPoints(c)) /\ v \in Seq(GridPoints(c))
  BY DEF Grids
<1>2. /\ w \in Seq(GridPoints(c)) /\ Len(w) = Len(u) + Len(v) /\ Len(u) \in Nat /\ Len(v) \in Nat
      /\ \A i \in 1..Len(u) : w[i] = u[i]
      /\ \A i \in 1..Len(v) : w[Len(u) + i] = v[i]
  BY <1>1
<1>3. ASSUME NEW i \in 1..Len(w), w[i].boundary \in {"start", "in"}
      PROVE  \E j \in 1..2 : JointStaysStill(w, i, j)
  <2> HIDE DEF w
  <2>1. CASE i <= Len(u)
    <3>1. i \in 1..Len(u) /\ w[i] = u[i]
      BY <1>2, <1>3, <2>1
    <3>2. PICK j \in 1..2 : JointStaysStill(u, i, j)
      BY <1>3, <3>1 DEF Grids
    <3>3. i < Len(u) /\ u[i + 1].pos[j] = u[i].pos[j]
      BY <3>2 DEF JointStaysStill
    <3>4. w[i + 1] = u[i + 1] /\ i < Len(w)
      BY <1>2, <3>1, <3>3
    <3>5. w[i].boundary = "in" => i > 1 /\ w[i].pos[j] = w[i - 1].pos[j]
      <4>1. w[i].boundary = "in" => i > 1 /\ u[i].pos[j] = u[i - 1].pos[j]
        BY <3>1, <3>2 DEF JointStaysStill
      <4>2. i > 1 => w[i - 1] = u[i - 1]
        BY <1>2, <3>1
      <4>3. QED
        BY <3>1, <4>1, <4>2
    <3>6. QED
      BY <3>1, <3>3, <3>4, <3>5 DEF JointStaysStill
  <2>2. CASE i > Len(u)
    <3> DEFINE k == i - Len(u)
    <3>1. k \in 1..Len(v) /\ i = Len(u) + k /\ w[i] = v[k]
      BY <1>2, <1>3, <2>2
    <3>2. PICK j \in 1..2 : JointStaysStill(v, k, j)
      BY <1>3, <3>1 DEF Grids
    <3>3. k < Len(v) /\ v[k + 1].pos[j] = v[k].pos[j]
      BY <3>2 DEF JointStaysStill
    <3>4. w[i + 1] = v[k + 1] /\ i < Len(w)
      <4>1. k + 1 \in 1..Len(v) /\ i + 1 = Len(u) + (k + 1)
        BY <1>2, <3>1, <3>3
      <4>2. w[Len(u) + (k + 1)] = v[k + 1]
        BY <1>2, <4>1
      <4>3. i < Len(w)
        BY <1>2, <3>1, <3>3
      <4>4. QED
        BY <4>1, <4>2, <4>3
    <3>5. w[i].boundary = "in" => i > 1 /\ w[i].pos[j] = w[i - 1].pos[j]
      <4>1. w[i].boundary = "in" => k > 1 /\ v[k].pos[j] = v[k - 1].pos[j]
        BY <3>1, <3>2 DEF JointStaysStill
      <4>2. ASSUME k > 1 PROVE w[i - 1] = v[k - 1] /\ i > 1
        <5>1. k - 1 \in 1..Len(v) /\ i - 1 = Len(u) + (k - 1) /\ i > 1
          BY <1>2, <3>1, <4>2
        <5>2. w[Len(u) + (k - 1)] = v[k - 1]
          BY <1>2, <5>1
        <5>3. QED
          BY <5>1, <5>2
      <4>3. QED
        BY <3>1, <4>1, <4>2
    <3>6. QED
      BY <3>1, <3>3, <3>4, <3>5 DEF JointStaysStill
  <2>3. QED
    BY <1>2, <1>3, <2>1, <2>2
<1>4. QED
  BY <1>2, <1>3 DEF Grids

\* No position is a grid, too.
LEMMA EmptyGrid == \A c : <<>> \in Grids(c)
  BY DEF Grids

\* The position at the centre, where the robot returns to.
LEMMA HomeIsAGrid ==
  ASSUME NEW c \in GridConfigs, NEW flag \in BOOLEAN
  PROVE  <<M!Home(flag)>> \in Grids(c)
<1> DEFINE p == M!Home(flag)
<1>1. \A j \in 1..2 : c.half[j] \in Nat /\ c.delta[j] \in Nat \ {0}
  BY GridAssumption DEF GridConfigs
<1>2. p = [pos |-> M!Center, time |-> grid_ReturnPeriod, flag |-> flag, boundary |-> "out"]
  BY DEF M!Home, M!Point
<1>3. M!Center \in [1..2 -> Int] /\ \A j \in 1..2 : M!Center[j] = 0
  BY DEF M!Center
<1> HIDE DEF p
<1>4. p \in GridPoints(c)
  <2>1. p \in [pos : [1..2 -> Int], time : {grid_StaticPeriod, grid_ReturnPeriod}, flag : BOOLEAN,
               boundary : {"start", "in", "stop", "out"}]
    BY <1>2, <1>3
  <2>2. \A j \in 1..2 : p.pos[j] \in GridRange(c, j)
    BY <1>1, <1>2, <1>3 DEF GridRange
  <2>3. p.flag => p.pos = M!Center
    BY <1>2
  <2>4. QED
    BY <2>1, <2>2, <2>3 DEF GridPoints
<1>5. <<p>> \in Seq(GridPoints(c)) /\ Len(<<p>>) = 1 /\ <<p>>[1] = p
  BY <1>4
<1>6. \A i \in 1..1 : i = 1
  OBVIOUS
<1>7. p.boundary = "out"
  BY <1>2
<1>8. QED
  BY <1>5, <1>6, <1>7 DEF Grids, p

\* The outermost row lies within a step of the range (module.cpp: ceil of the range over the step).
LEMMA RowsWithin ==
  ASSUME NEW c \in GridConfigs, NEW j \in 1..2, NEW step \in Int,
         -M!Lines(c, j) <= step, step <= M!Lines(c, j)
  PROVE  step * c.delta[j] \in GridRange(c, j)
<1>1. c.half[j] \in Nat /\ c.delta[j] \in Nat \ {0}
  BY GridAssumption DEF GridConfigs
<1> DEFINE h == c.half[j]
           d == c.delta[j]
           q == (h + d - 1) \div d
<1>2. M!Lines(c, j) = q
  BY DEF M!Lines
<1>3. q \in Int /\ d * q <= h + d - 1
  <2> HIDE DEF h, d
  <2>1. \A a \in Int : a \div d \in Int /\ d * (a \div d) <= a
    BY <1>1 DEF h, d
  <2>2. QED
    BY <1>1, <2>1 DEF h, d
<1> HIDE DEF q
<1>4. \A x, y \in Int, e \in Nat : x <= y => e * x <= e * y
  <2> SUFFICES ASSUME NEW x \in Int, NEW y \in Int, NEW e \in Nat, x <= y PROVE e * x <= e * y
    OBVIOUS
  <2>1. y - x \in Nat
    OBVIOUS
  <2>2. e * (y - x) >= 0
    BY <2>1
  <2>3. e * (y - x) = e * y - e * x
    OBVIOUS
  <2>4. QED
    BY <2>2, <2>3
<1>5. d * step <= d * q /\ d * (-q) <= d * step
  BY <1>1, <1>2, <1>3, <1>4
<1>6. d * (-q) = -(d * q) /\ step * d = d * step
  BY <1>1, <1>3
<1>7. QED
  BY <1>1, <1>3, <1>5, <1>6 DEF GridRange

\* A position of a row, whose boundary says where in the row it is.
LEMMA PointOfRow ==
  ASSUME NEW c \in GridConfigs, NEW moving \in 1..2, NEW other \in 1..2, moving # other,
         NEW m \in GridRange(c, moving), NEW still \in GridRange(c, other),
         NEW b \in {"start", "in", "stop", "out"}
  PROVE  M!Point(M!At(moving, m, still), grid_StaticPeriod, FALSE, b) \in GridPoints(c)
<1> DEFINE p == M!Point(M!At(moving, m, still), grid_StaticPeriod, FALSE, b)
<1>1. m \in Int /\ still \in Int /\ \A j \in 1..2 : j = moving \/ j = other
  BY DEF GridRange
<1>2. p = [pos |-> M!At(moving, m, still), time |-> grid_StaticPeriod, flag |-> FALSE, boundary |-> b]
  BY DEF M!Point
<1>3. M!At(moving, m, still) \in [1..2 -> Int] /\ M!At(moving, m, still)[moving] = m
      /\ M!At(moving, m, still)[other] = still
  BY <1>1 DEF M!At
<1> HIDE DEF p
<1>4. p \in [pos : [1..2 -> Int], time : {grid_StaticPeriod, grid_ReturnPeriod}, flag : BOOLEAN,
             boundary : {"start", "in", "stop", "out"}]
  BY <1>2, <1>3
<1>5. \A j \in 1..2 : p.pos[j] \in GridRange(c, j)
  BY <1>1, <1>2, <1>3
<1>6. p \in GridPoints(c)
  BY <1>2, <1>4, <1>5 DEF GridPoints
<1>7. QED
  BY <1>6 DEF p

\* A row is driven along with the other joint still, up to its stop.
LEMMA RowAtAGrid ==
  ASSUME NEW c, NEW other \in 1..2, NEW still,
         NEW p1 \in GridPoints(c), p1.pos[other] = still, p1.boundary = "start",
         NEW p2 \in GridPoints(c), p2.pos[other] = still, p2.boundary = "in",
         NEW p3 \in GridPoints(c), p3.pos[other] = still, p3.boundary = "in",
         NEW p4 \in GridPoints(c), p4.pos[other] = still, p4.boundary = "stop"
  PROVE  <<p1, p2, p3, p4>> \in Grids(c)
<1> DEFINE row == <<p1, p2, p3, p4>>
<1>1. Len(row) = 4 /\ DOMAIN row = 1..4 /\ \A i \in 1..4 : i = 1 \/ i = 2 \/ i = 3 \/ i = 4
  OBVIOUS
<1>2. row \in Seq(GridPoints(c)) /\ row[1] = p1 /\ row[2] = p2 /\ row[3] = p3 /\ row[4] = p4
  OBVIOUS
<1> HIDE DEF row
<1>3. \A i \in 1..4 : row[i].pos[other] = still
  BY <1>1, <1>2
<1>4. ASSUME NEW i \in 1..4, row[i].boundary \in {"start", "in"}
      PROVE  JointStaysStill(row, i, other)
  <2>1. i \in 1..3 /\ (row[i].boundary = "in" => i > 1)
    BY <1>1, <1>2, <1>4
  <2>2. i + 1 \in 1..4 /\ (i > 1 => i - 1 \in 1..4)
    BY <2>1
  <2>3. QED
    BY <1>1, <1>3, <2>1, <2>2 DEF JointStaysStill
<1>5. row \in Grids(c)
  BY <1>1, <1>2, <1>4 DEF Grids
<1>6. QED
  BY <1>5 DEF row

\* A row, with the way back to the centre where the mode asks for it (module.cpp: the rows of a grid).
LEMMA RowIsAGrid ==
  ASSUME NEW c \in GridConfigs, NEW moving \in 1..2, NEW step \in Int, NEW flag \in BOOLEAN,
         -M!Lines(c, 3 - moving) <= step, step <= M!Lines(c, 3 - moving)
  PROVE  M!DrawRow(c, moving, step, flag) \in Grids(c)
<1> DEFINE other == 3 - moving
           still == step * c.delta[other]
           one(m, b) == M!Point(M!At(moving, m, still), grid_StaticPeriod, FALSE, b)
           end == IF c.mode = "mappingWithReturn" THEN <<M!Home(flag)>> ELSE <<>>
<1>1. M!DrawRow(c, moving, step, flag)
        = <<one(0, "start"), one(-c.half[moving], "in"), one(c.half[moving], "in"), one(0, "stop")>> \o end
  BY DEF M!DrawRow, M!Row
<1>2. end \in Grids(c)
  BY HomeIsAGrid, EmptyGrid
<1>3. other \in 1..2 /\ moving # other
  OBVIOUS
<1>4. still \in GridRange(c, other)
  <2> HIDE DEF other
  <2>1. -M!Lines(c, other) <= step /\ step <= M!Lines(c, other)
    BY DEF other
  <2>2. QED
    BY <1>3, <2>1, RowsWithin
<1>5. 0 \in GridRange(c, moving) /\ c.half[moving] \in GridRange(c, moving)
    /\ -c.half[moving] \in GridRange(c, moving)
  <2>1. c.half[moving] \in Nat /\ c.delta[moving] \in Nat \ {0}
    BY GridAssumption DEF GridConfigs
  <2>2. QED
    BY <2>1 DEF GridRange
<1> HIDE DEF still, other
<1>6. ASSUME NEW m \in GridRange(c, moving), NEW b \in {"start", "in", "stop", "out"}
      PROVE  one(m, b) \in GridPoints(c) /\ one(m, b).pos[other] = still /\ one(m, b).boundary = b
  <2>1. M!Point(M!At(moving, m, still), grid_StaticPeriod, FALSE, b) \in GridPoints(c)
    BY <1>3, <1>4, <1>6, PointOfRow
  <2>2. M!Point(M!At(moving, m, still), grid_StaticPeriod, FALSE, b).pos[other] = still
    BY <1>3 DEF M!Point, M!At
  <2>3. M!Point(M!At(moving, m, still), grid_StaticPeriod, FALSE, b).boundary = b
    BY DEF M!Point
  <2>4. QED
    BY <2>1, <2>2, <2>3
<1> HIDE DEF one
<1>7. <<one(0, "start"), one(-c.half[moving], "in"), one(c.half[moving], "in"), one(0, "stop")>> \in Grids(c)
  BY <1>3, <1>5, <1>6, RowAtAGrid
<1> HIDE DEF end
<1>8. QED
  BY <1>1, <1>2, <1>7, GridsJoin

\* All the positions that configure draws.
LEMMA PositionsAreAGrid ==
  ASSUME NEW c \in GridConfigs
  PROVE  M!Positions(c) \in Grids(c)
<1>1. ASSUME NEW moving \in 1..2
      PROVE  M!Rows(c, moving) \in Grids(c)
  <2> DEFINE n == M!Lines(c, 3 - moving)
             pair == [i \in 1..n |-> M!DrawRow(c, moving, i, TRUE) \o M!DrawRow(c, moving, -i, FALSE)]
  <2>1. n \in Nat
    <3>1. 3 - moving \in 1..2
      OBVIOUS
    <3>2. c.half[3 - moving] \in Nat /\ c.delta[3 - moving] \in Nat \ {0}
      BY <3>1, GridAssumption DEF GridConfigs
    <3>3. \A a \in Nat, d \in Nat \ {0} : a \div d \in Nat
      OBVIOUS
    <3>4. c.half[3 - moving] + c.delta[3 - moving] - 1 \in Nat
      BY <3>2
    <3>5. QED
      BY <3>2, <3>3, <3>4 DEF M!Lines
  <2>2. ASSUME NEW i \in 1..n PROVE pair[i] \in Grids(c)
    <3>1. i \in Int /\ -i \in Int /\ -n <= i /\ i <= n /\ -n <= -i /\ -i <= n
      BY <2>1
    <3>2. M!DrawRow(c, moving, i, TRUE) \in Grids(c) /\ M!DrawRow(c, moving, -i, FALSE) \in Grids(c)
      BY <3>1, RowIsAGrid
    <3>3. QED
      BY <3>2, GridsJoin
  <2> HIDE DEF n
  <2>3. pair \in [1..n -> Grids(c)]
    BY <2>2
  <2> HIDE DEF pair
  <2>4. M!FlattenSeq(pair) \in Grids(c)
    <3>1. \A u, v \in Grids(c) : u \o v \in Grids(c)
      BY GridsJoin
    <3>2. QED
      BY <2>1, <2>3, <3>1, EmptyGrid, FlattenIn
  <2>5. M!DrawRow(c, moving, 0, FALSE) \in Grids(c)
    <3>1. -n <= 0 /\ 0 <= n /\ 0 \in Int
      BY <2>1
    <3>2. QED
      BY <3>1, RowIsAGrid DEF n
  <2>6. M!Rows(c, moving) = M!DrawRow(c, moving, 0, FALSE) \o M!FlattenSeq(pair)
    BY DEF M!Rows, pair, n
  <2>7. QED
    BY <2>4, <2>5, <2>6, GridsJoin
<1>2. M!Rows(c, 1) \in Grids(c) /\ M!Rows(c, 2) \in Grids(c)
  BY <1>1
<1> DEFINE home == <<M!Home(TRUE)>>
<1>6. home \in Grids(c)
  BY HomeIsAGrid
<1> HIDE DEF home
<1>3. \A s1, s2, s3, s4, s5 \in Grids(c) : s1 \o s2 \o s3 \o s4 \o s5 \in Grids(c)
  BY GridsJoin
<1>4. M!Positions(c) = home \o M!Rows(c, 2) \o home \o M!Rows(c, 1) \o home
  BY DEF M!Positions, home
<1>5. QED
  BY <1>2, <1>6, <1>3, <1>4

\* The list of the positions, as the module uses it.
LEMMA ListOfPositions ==
  ASSUME NEW c \in GridConfigs
  PROVE  /\ Len(M!Positions(c)) \in Nat /\ DOMAIN M!Positions(c) = 1..Len(M!Positions(c))
         /\ \A i \in 1..Len(M!Positions(c)) :
              /\ M!Positions(c)[i] \in GridPoints(c)
              /\ M!Positions(c)[i].time \in {grid_StaticPeriod, grid_ReturnPeriod}
              /\ M!Positions(c)[i].flag \in BOOLEAN
              /\ M!Positions(c)[i].flag => M!Positions(c)[i].pos = M!Center
              /\ \A j \in 1..2 : M!Positions(c)[i].pos[j] \in GridRange(c, j)
<1> DEFINE list == M!Positions(c)
<1>1. list \in Seq(GridPoints(c))
  BY PositionsAreAGrid DEF Grids
<1> HIDE DEF list
<1>2. \A p \in GridPoints(c) : /\ p.time \in {grid_StaticPeriod, grid_ReturnPeriod}
                               /\ p.flag \in BOOLEAN
                               /\ p.flag => p.pos = M!Center
                               /\ \A j \in 1..2 : p.pos[j] \in GridRange(c, j)
  BY DEF GridPoints
<1>3. Len(list) \in Nat /\ DOMAIN list = 1..Len(list)
    /\ \A i \in 1..Len(list) : list[i] \in GridPoints(c)
  BY <1>1
<1>4. QED
  BY <1>2, <1>3 DEF list

\* Before configure there is no position.
LEMMA GridInit == M!Init => GridKept
<1> SUFFICES ASSUME M!Init PROVE GridKept
  OBVIOUS
<1>1. grid_config \in GridConfigs /\ grid_next = 1 /\ grid_elapsed = 0 /\ grid_returnPoint = FALSE
    /\ grid_wait \in Nat
  BY GridAssumption DEF M!Init, GridConfigs
<1>2. Len(M!Positions(grid_config)) \in Nat
  BY <1>1, ListOfPositions
<1>3. M!TypeOK
  <2>1. grid_next \in 1..(Len(M!Positions(grid_config)) + 1) /\ grid_elapsed \in 0..grid_wait
    BY <1>1, <1>2
  <2>2. /\ grid_phase = "configuring" /\ grid_awaited = {}
        /\ grid_wait \in {0, grid_ReturnPeriod, grid_Forever}
        /\ grid_keepFitting \in BOOLEAN /\ grid_arrived = TRUE /\ grid_unread = FALSE
        /\ grid_drivers = "none" /\ grid_homed = FALSE
    BY DEF M!Init
  <2>3. QED
    BY <1>1, <2>1, <2>2 DEF M!TypeOK
<1>4. QED
  BY <1>1, <1>3 DEF GridKept, M!WaitsOnlyAtRest

\* configure, the wait for the ports, and the ways to end leave the positions alone.
LEMMA GridOthers ==
  ASSUME GridKept,
         M!OpenFails \/ M!Configure \/ (\E connected \in BOOLEAN : M!WaitForPort(connected)) \/ M!Arrive
           \/ M!Interrupt \/ M!UpdateInterrupted \/ M!Close \/ UNCHANGED M!gridVars
  PROVE  GridKept'
<1>1. /\ UNCHANGED <<grid_config, grid_next, grid_wait, grid_elapsed, grid_returnPoint,
                     grid_keepFitting, grid_unread>>
      /\ grid_arrived' \in {TRUE, grid_arrived}
  BY DEF M!OpenFails, M!Configure, M!WaitForPort, M!Arrive, M!Interrupt, M!UpdateInterrupted,
     M!Close, M!CloseDrivers, M!gridVars
<1>2. /\ grid_phase' \in {grid_phase, "running", "closed"}
      /\ grid_drivers' \in {grid_drivers, "open", "closed", "dangling"}
      /\ grid_homed' \in {grid_homed, TRUE}
  BY DEF M!OpenFails, M!Configure, M!WaitForPort, M!Arrive, M!Interrupt, M!UpdateInterrupted,
     M!Close, M!CloseDrivers, M!gridVars
<1>3. grid_awaited' \in {grid_awaited, grid_config.ports} \/ grid_awaited' \subseteq grid_awaited
  BY DEF M!OpenFails, M!Configure, M!WaitForPort, M!Arrive, M!Interrupt, M!UpdateInterrupted,
     M!Close, M!CloseDrivers, M!gridVars
<1>4. M!TypeOK /\ grid_config \in GridConfigs /\ grid_config.ports \subseteq M!Ports
  BY DEF GridKept, GridConfigs
<1>5. M!TypeOK'
  BY <1>1, <1>2, <1>3, <1>4 DEF M!TypeOK
<1>6. M!WaitsOnlyAtRest'
  BY <1>1 DEF GridKept, M!WaitsOnlyAtRest
<1>7. QED
  BY <1>1, <1>5, <1>6 DEF GridKept

\* A period at a position.
LEMMA GridStays ==
  ASSUME GridKept, NEW reads \in BOOLEAN, M!UpdateStays(reads)
  PROVE  GridKept'
<1>1. /\ UNCHANGED <<grid_config, grid_phase, grid_awaited, grid_next, grid_wait, grid_returnPoint,
                     grid_keepFitting, grid_arrived, grid_drivers, grid_homed>>
      /\ grid_elapsed' = IF grid_wait = grid_Forever THEN grid_elapsed ELSE M!Counted(reads)
      /\ grid_unread' = (grid_unread \/ ~reads)
      /\ ~M!Over(reads)
  BY DEF M!UpdateStays
<1>2. M!TypeOK /\ grid_wait \in Nat /\ grid_elapsed \in 0..grid_wait
  BY GridAssumption DEF GridKept, M!TypeOK
<1>3. grid_elapsed' \in 0..grid_wait
  BY <1>1, <1>2 DEF M!Over, M!Counted
<1>4. M!TypeOK'
  BY <1>1, <1>2, <1>3 DEF M!TypeOK
<1>5. M!WaitsOnlyAtRest'
  <2>1. grid_elapsed > 0 => grid_arrived \/ grid_unread
    BY DEF GridKept, M!WaitsOnlyAtRest
  <2>2. CASE grid_arrived \/ ~reads
    BY <1>1, <2>2 DEF M!WaitsOnlyAtRest
  <2>3. CASE ~grid_arrived /\ reads
    <3>1. grid_elapsed' = grid_elapsed
      BY <1>1, <2>3 DEF M!Counted
    <3>2. QED
      BY <1>1, <2>1, <3>1 DEF M!WaitsOnlyAtRest
  <2>4. QED
    BY <2>2, <2>3
<1>6. QED
  BY <1>1, <1>4, <1>5 DEF GridKept

\* The next position is commanded, or there is none.
LEMMA GridMoves ==
  ASSUME GridKept, NEW reads \in BOOLEAN, M!UpdateMoves(reads)
  PROVE  GridKept'
<1> DEFINE list == M!Positions(grid_config)
<1>1. UNCHANGED <<grid_config, grid_awaited, grid_drivers, grid_homed>> /\ grid_elapsed' = 0
    /\ M!NextDesired(Len(list))
  BY DEF M!UpdateMoves, M!MoveOn
<1>2. M!TypeOK /\ grid_config \in GridConfigs
  BY DEF GridKept
<1>3. /\ Len(list) \in Nat
      /\ \A i \in 1..Len(list) : list[i].time \in {grid_StaticPeriod, grid_ReturnPeriod}
         /\ list[i].flag \in BOOLEAN
  BY <1>2, ListOfPositions
<1>4. list' = list
  BY <1>1
<1>5. M!WaitsOnlyAtRest'
  BY <1>1 DEF M!WaitsOnlyAtRest
<1>6. grid_next \in 1..(Len(list) + 1) /\ grid_wait \in Nat
  BY <1>2, GridAssumption DEF M!TypeOK
<1> HIDE DEF list
<1>7. CASE M!Mapping(grid_config) /\ grid_next <= Len(list)
  <2>1. /\ grid_wait' = list[grid_next].time /\ grid_returnPoint' = list[grid_next].flag
        /\ grid_keepFitting' = (list[grid_next].boundary \in {"start", "in"})
        /\ grid_next' = grid_next + 1 /\ grid_arrived' = FALSE /\ grid_unread' = FALSE
        /\ grid_phase' = grid_phase
    BY <1>1, <1>7 DEF M!NextDesired, list
  <2>2. grid_next \in 1..Len(list)
    BY <1>3, <1>6, <1>7
  <2>3. grid_wait' \in {grid_StaticPeriod, grid_ReturnPeriod} /\ grid_wait' \in Nat
      /\ grid_returnPoint' \in BOOLEAN
    BY <1>3, <2>1, <2>2, GridAssumption
  <2>4. grid_next' \in 1..(Len(list) + 1) /\ grid_next' > 1 /\ grid_next' - 1 = grid_next
    BY <1>3, <2>1, <2>2
  <2>5. M!TypeOK'
    <3>1. grid_next' \in 1..(Len(M!Positions(grid_config)) + 1)'
      BY <1>4, <2>4 DEF list
    <3>2. grid_elapsed' \in 0..grid_wait'
      BY <1>1, <2>3
    <3>3. grid_keepFitting' \in BOOLEAN
      BY <2>1
    <3>4. QED
      BY <1>1, <1>2, <2>1, <2>3, <3>1, <3>2, <3>3 DEF M!TypeOK
  <2>6. grid_returnPoint' = M!Positions(grid_config)'[grid_next' - 1].flag
        /\ grid_keepFitting' =
             (M!Positions(grid_config)'[grid_next' - 1].boundary \in {"start", "in"})
    BY <1>4, <2>1, <2>4 DEF list
  <2>7. QED
    BY <1>1, <1>2, <1>5, <2>4, <2>5, <2>6 DEF GridKept
<1>8. CASE ~(M!Mapping(grid_config) /\ grid_next <= Len(list))
  <2>1. grid_phase' = "ended"
      /\ UNCHANGED <<grid_next, grid_wait, grid_returnPoint, grid_keepFitting, grid_arrived,
                     grid_unread>>
    BY <1>1, <1>8 DEF M!NextDesired, list
  <2>2. M!TypeOK'
    <3>1. grid_elapsed' \in 0..grid_wait'
      BY <1>1, <1>6, <2>1
    <3>2. QED
      BY <1>1, <1>2, <2>1, <3>1 DEF M!TypeOK
  <2>3. QED
    BY <1>1, <1>5, <2>1, <2>2 DEF GridKept
<1>9. QED
  BY <1>7, <1>8

\* Every step keeps the invariant.
LEMMA GridNext == GridKept /\ [M!Next]_(M!gridVars) => GridKept'
<1> SUFFICES ASSUME GridKept, [M!Next]_(M!gridVars) PROVE GridKept'
  OBVIOUS
<1>1. CASE \E reads \in BOOLEAN : M!UpdateStays(reads)
  BY <1>1, GridStays
<1>2. CASE \E reads \in BOOLEAN : M!UpdateMoves(reads)
  BY <1>2, GridMoves
<1>3. CASE M!OpenFails \/ M!Configure \/ (\E connected \in BOOLEAN : M!WaitForPort(connected)) \/ M!Arrive
             \/ M!Interrupt \/ M!UpdateInterrupted \/ M!Close \/ UNCHANGED M!gridVars
  BY <1>3, GridOthers
<1>4. QED
  BY <1>1, <1>2, <1>3 DEF M!Next

\* The invariant of the mapping.
LEMMA GridAlways == M!Spec => []GridKept
<1>1. QED
  BY GridInit, GridNext, PTL DEF M!Spec

\* The positions of a row are used while one joint stays still, a return point is the centre, and no
\* row lies further out than part of a step.
LEMMA GridIsRight == GridKept => M!FittingAlongARow /\ M!ReturnsToTheCentre /\ M!RowsWithinAStep
<1> SUFFICES ASSUME GridKept PROVE M!FittingAlongARow /\ M!ReturnsToTheCentre /\ M!RowsWithinAStep
  OBVIOUS
<1> DEFINE list == M!Positions(grid_config)
<1>1. grid_config \in GridConfigs /\ grid_next \in 1..(Len(list) + 1)
  BY DEF GridKept, M!TypeOK
<1>2. /\ Len(list) \in Nat /\ DOMAIN list = 1..Len(list)
      /\ \A i \in 1..Len(list) : /\ list[i].flag => list[i].pos = M!Center
                                 /\ \A j \in 1..2 : list[i].pos[j] \in GridRange(grid_config, j)
  BY <1>1, ListOfPositions
<1>3. list \in Grids(grid_config)
  BY <1>1, PositionsAreAGrid
<1>4. /\ grid_returnPoint => grid_next > 1
      /\ grid_next > 1 => grid_returnPoint = list[grid_next - 1].flag
         /\ grid_keepFitting = (list[grid_next - 1].boundary \in {"start", "in"})
  BY DEF GridKept
<1> HIDE DEF list
<1>5. grid_next > 1 => grid_next - 1 \in 1..Len(list)
  BY <1>1, <1>2
<1>6. M!ReturnsToTheCentre
  BY <1>2, <1>4, <1>5 DEF M!ReturnsToTheCentre, list
<1>7. M!RowsWithinAStep
  BY <1>2 DEF M!RowsWithinAStep, GridRange, list
<1>8. M!FittingAlongARow
  <2> DEFINE move(i) == [j \in 1..2 |-> list[i].pos[j] - list[i - 1].pos[j]]
  <2>1. SUFFICES ASSUME grid_keepFitting, grid_next \in 2..Len(list)
                 PROVE  \E still \in 1..2 : /\ move(grid_next)[still] = 0
                                            /\ list[grid_next - 1].boundary = "in" =>
                                                 move(grid_next - 1)[still] = 0
    BY DEF M!FittingAlongARow, list
  <2>2. grid_next - 1 \in 1..Len(list) /\ list[grid_next - 1].boundary \in {"start", "in"}
      /\ (grid_next - 1) + 1 = grid_next
    <3>1. grid_next > 1 /\ grid_next \in Nat
      BY <1>2, <2>1
    <3>2. grid_next - 1 \in 1..Len(list) /\ (grid_next - 1) + 1 = grid_next
      BY <1>5, <3>1
    <3>3. grid_keepFitting = (list[grid_next - 1].boundary \in {"start", "in"}) /\ grid_keepFitting
      BY <1>4, <2>1, <3>1
    <3>4. QED
      BY <3>2, <3>3
  <2>3. PICK j \in 1..2 : JointStaysStill(list, grid_next - 1, j)
    BY <1>3, <2>2 DEF Grids
  <2>4. /\ list[grid_next].pos[j] = list[grid_next - 1].pos[j]
        /\ list[grid_next - 1].boundary = "in" => grid_next - 1 > 1
           /\ list[grid_next - 1].pos[j] = list[grid_next - 1 - 1].pos[j]
    BY <2>2, <2>3 DEF JointStaysStill
  <2>5. \A i \in 1..Len(list) : list[i].pos[j] \in Int
    BY <1>2 DEF GridRange
  <2>6. move(grid_next)[j] = 0
    <3>1. list[grid_next].pos[j] \in Int
      BY <2>1, <2>5
    <3>2. QED
      BY <2>4, <3>1
  <2>7. list[grid_next - 1].boundary = "in" => move(grid_next - 1)[j] = 0
    <3>1. list[grid_next - 1].pos[j] \in Int
      BY <2>2, <2>5
    <3>2. QED
      BY <2>4, <3>1
  <2>8. QED
    BY <2>6, <2>7
<1>9. QED
  BY <1>6, <1>7, <1>8

\* A behaviour of all the components is one of GridMapping, which takes its steps or none.
LEMMA GridBehaves == AllSpec => M!Spec
<1>1. AllInit => M!Init
  BY DEF AllInit
<1>2. [AllNext]_allVars => [M!Next]_(M!gridVars)
  BY DEF AllNext, allVars, gridVars, M!gridVars, GraspManagerRuns, CoordinatorRuns,
         JointSplitRuns, WalkPlayerRuns, BalancingModuleRuns, ReferencesGeneratorRuns,
         GridMappingRuns, WholeBodyEstimatorRuns
<1>3. QED
  BY <1>1, <1>2, PTL DEF AllSpec, M!Spec

--------------------------------------------------------------------------------
(* WholeBodyEstimator *)

\* The position of a package in a message, and the last of the packages from there on that are of a kind.
StartOfPackage(j) == 6 * j - 3
PackagesBehind(m, i, k) == {j \in N!Of(m, k) : StartOfPackage(j) >= i}
LastThree(p) == <<p[4], p[5], p[6]>>
LastBehind(m, i) ==
  [k \in {N!Acc, N!Gyro} |-> IF PackagesBehind(m, i, k) = {} THEN <<>> ELSE LastThree(m[N!Max(PackagesBehind(m, i, k))])]

\* Where the board is named in the numbers of a message, and what one step of the search finds.
FoundIn(numbers, i) == {k \in i .. Len(numbers) : numbers[k] = estim_Board}
NumberAt(numbers, beyond, i) == IF i <= Len(numbers) THEN numbers[i] ELSE beyond
StepOf(numbers, beyond, later, p) ==
  [k \in {N!Acc, N!Gyro} |->
     IF later[k] = <<>> /\ NumberAt(numbers, beyond, p + 1) = k
     THEN <<NumberAt(numbers, beyond, p + 3), NumberAt(numbers, beyond, p + 4), NumberAt(numbers, beyond, p + 5)>>
     ELSE later[k]]

\* The last of the places of a list.
LEMMA EstimGreatest ==
  ASSUME NEW n \in Nat, NEW places \in SUBSET (1..n), places # {}
  PROVE  N!Max(places) \in places /\ \A k \in places : k <= N!Max(places)
<1>1. PICK i \in places : \A k \in places : k <= i
  <2>1. places \in SUBSET Nat /\ \A k \in places : k <= n
    OBVIOUS
  <2>2. QED
    BY <2>1, GreatestOfNaturals
<1>2. i \in Int /\ \A k \in places : k \in Int
  OBVIOUS
<1>3. \A k \in places : i >= k
  BY <1>1, <1>2
<1>4. QED
  BY <1>1, <1>2, <1>3 DEF N!Max

\* The first of a set of places.
LEMMA EstimLeast ==
  ASSUME NEW places \in SUBSET Nat, places # {}
  PROVE  N!Min(places) \in places /\ \A k \in places : N!Min(places) <= k
<1>1. PICK i \in places : \A k \in places : i <= k
  BY LeastNatural
<1>2. QED
  BY <1>1 DEF N!Min

\* all message is its packages.
LEMMA MessageIs ==
  ASSUME NEW m \in N!Messages
  PROVE  /\ Len(m) \in Nat /\ DOMAIN m = 1..Len(m)
         /\ \A j \in 1..Len(m) : m[j] \in [1..6 -> Int]
<1>1. PICK n \in 0..estim_MaxPackages : m \in [1..n -> estim_Packages]
  BY DEF N!Messages
<1>2. n \in Nat /\ DOMAIN m = 1..n /\ Len(m) = n
  BY <1>1
<1>3. QED
  BY <1>1, <1>2, EstimatorsAssumption

\* The packages come one behind the other.
LEMMA NumbersAre ==
  ASSUME NEW m \in N!Messages
  PROVE  /\ Len(N!Numbers(m)) = 6 * Len(m) + 2
         /\ \A j \in 1..Len(m), n \in 1..6 : N!Numbers(m)[StartOfPackage(j) + (n - 1)] = m[j][n]
         /\ \A i \in 3..(6 * Len(m) + 2) :
              \E j \in 1..Len(m), n \in 1..6 : i = StartOfPackage(j) + (n - 1)
<1>1. Len(m) \in Nat
  BY MessageIs
<1> DEFINE numbers == N!Numbers(m)
<1>2. numbers = [i \in 1..(6 * Len(m) + 2) |->
             IF i <= 2 THEN 0 ELSE m[(i + 3) \div 6][((i + 3) % 6) + 1]]
  BY DEF N!Numbers, N!PackageSize
<1> HIDE DEF numbers
<1>3. Len(numbers) = 6 * Len(m) + 2
  BY <1>1, <1>2
<1>4. ASSUME NEW j \in 1..Len(m), NEW n \in 1..6
      PROVE  numbers[StartOfPackage(j) + (n - 1)] = m[j][n]
  <2> DEFINE i == StartOfPackage(j) + (n - 1)
  <2>1. i \in 1..(6 * Len(m) + 2) /\ i > 2 /\ i + 3 = 6 * j + (n - 1)
    BY <1>1, <1>4 DEF StartOfPackage
  <2>2. (6 * j + (n - 1)) \div 6 = j /\ (6 * j + (n - 1)) % 6 = n - 1
    BY <1>1, <1>4
  <2> HIDE DEF i
  <2>3. numbers[i] = m[(i + 3) \div 6][((i + 3) % 6) + 1]
    BY <1>2, <2>1
  <2>4. (i + 3) \div 6 = j /\ ((i + 3) % 6) + 1 = n
    BY <2>1, <2>2
  <2>5. QED
    BY <2>3, <2>4 DEF i
<1>5. ASSUME NEW i \in 3..(6 * Len(m) + 2)
      PROVE  \E j \in 1..Len(m), n \in 1..6 : i = StartOfPackage(j) + (n - 1)
  <2> DEFINE j == (i + 3) \div 6
             n == ((i + 3) % 6) + 1
  <2>1. j \in 1..Len(m) /\ n \in 1..6 /\ i = 6 * j - 3 + (n - 1)
    BY <1>1, <1>5
  <2> HIDE DEF j, n
  <2>2. QED
    BY <2>1 DEF StartOfPackage
<1>6. QED
  BY <1>3, <1>4, <1>5 DEF numbers

\* In a message without clashes the board is named where a package of the board starts.
LEMMA FoundAtTheStart ==
  ASSUME NEW m \in N!Messages, ~N!Clashes(m), NEW i \in 3..(6 * Len(m) + 8), NEW q \in FoundIn(N!Numbers(m), i)
  PROVE  \E j \in 1..Len(m) : q = StartOfPackage(j) /\ m[j][1] = estim_Board
<1>1. Len(m) \in Nat /\ DOMAIN m = 1..Len(m)
  BY MessageIs
<1>2. q \in i..(6 * Len(m) + 2) /\ N!Numbers(m)[q] = estim_Board
  BY NumbersAre DEF FoundIn
<1>3. q \in 3..(6 * Len(m) + 2)
  BY <1>1, <1>2
<1>4. PICK j \in 1..Len(m), n \in 1..6 : q = StartOfPackage(j) + (n - 1)
  BY <1>3, NumbersAre
<1>5. m[j][n] = estim_Board
  BY <1>2, <1>4, NumbersAre
<1>6. n \notin 2..6
  BY <1>1, <1>5 DEF N!Clashes, N!PackageSize
<1>7. n = 1 /\ StartOfPackage(j) \in Int
  BY <1>6, <1>1 DEF StartOfPackage
<1>8. QED
  BY <1>4, <1>5, <1>7

\* A package of the board is found where it starts.
LEMMA StartsAreFound ==
  ASSUME NEW m \in N!Messages, NEW i \in 3..(6 * Len(m) + 8),
         NEW j \in 1..Len(m), m[j][1] = estim_Board, StartOfPackage(j) >= i
  PROVE  StartOfPackage(j) \in FoundIn(N!Numbers(m), i)
<1>1. Len(m) \in Nat
  BY MessageIs
<1>2. StartOfPackage(j) \in i..(6 * Len(m) + 2) /\ StartOfPackage(j) + (1 - 1) = StartOfPackage(j)
  BY <1>1 DEF StartOfPackage
<1>3. N!Numbers(m)[StartOfPackage(j)] = estim_Board
  BY <1>2, NumbersAre
<1>4. QED
  BY <1>2, <1>3, NumbersAre DEF FoundIn

\* The packages of a kind from a position on: the first one found, and those behind it.
LEMMA BehindTheFirst ==
  ASSUME NEW m \in N!Messages, ~N!Clashes(m), NEW i \in 3..(6 * Len(m) + 8), FoundIn(N!Numbers(m), i) # {}
  PROVE  LET p == N!Min(FoundIn(N!Numbers(m), i))
         IN  \E j \in 1..Len(m) :
               /\ p = StartOfPackage(j) /\ p >= i
               /\ \A k \in {N!Acc, N!Gyro} :
                    /\ PackagesBehind(m, i, k) =
                         PackagesBehind(m, p + 6, k) \cup (IF m[j][2] = k THEN {j} ELSE {})
                    /\ \A l \in PackagesBehind(m, p + 6, k) : l > j
<1>1. Len(m) \in Nat /\ DOMAIN m = 1..Len(m)
  BY MessageIs
<1> DEFINE found == FoundIn(N!Numbers(m), i)
           p == N!Min(found)
<1>2. found \subseteq Nat
  <2>1. found \subseteq i..(6 * Len(m) + 2)
    BY NumbersAre DEF FoundIn
  <2>2. QED
    BY <1>1, <2>1
<1>3. p \in found /\ \A q \in found : p <= q
  BY <1>2, EstimLeast
<1>4. PICK j \in 1..Len(m) : p = StartOfPackage(j) /\ m[j][1] = estim_Board
  BY <1>3, FoundAtTheStart
<1>5. p \in Nat /\ p >= i
  BY <1>2, <1>3, NumbersAre DEF FoundIn
<1>6. \A k \in {N!Acc, N!Gyro} : \A l \in PackagesBehind(m, i, k) :
        l \in 1..Len(m) /\ m[l][1] = estim_Board /\ StartOfPackage(l) >= i /\ StartOfPackage(l) >= p
  <2> TAKE k \in {N!Acc, N!Gyro}
  <2> TAKE l \in PackagesBehind(m, i, k)
  <2>1. l \in 1..Len(m) /\ m[l][1] = estim_Board /\ StartOfPackage(l) >= i
    BY <1>1 DEF PackagesBehind, N!Of
  <2>2. StartOfPackage(l) \in found
    BY <2>1, StartsAreFound
  <2>3. p <= StartOfPackage(l) /\ StartOfPackage(l) \in Int
    BY <1>3, <2>2, <2>1 DEF StartOfPackage
  <2>4. QED
    BY <2>1, <2>3, <1>5
<1> HIDE DEF p, found
<1>7. ASSUME NEW k \in {N!Acc, N!Gyro}
      PROVE  /\ PackagesBehind(m, i, k) =
                  PackagesBehind(m, p + 6, k) \cup (IF m[j][2] = k THEN {j} ELSE {})
             /\ \A l \in PackagesBehind(m, p + 6, k) : l > j
  <2>1. \A l \in 1..Len(m) : StartOfPackage(l) >= p + 6 <=> l > j
    BY <1>1, <1>4, <1>5 DEF StartOfPackage
  <2>2. \A l \in 1..Len(m) : StartOfPackage(l) >= p <=> l >= j
    BY <1>1, <1>4, <1>5 DEF StartOfPackage
  <2>3. \A l \in 1..Len(m) : StartOfPackage(l) >= p + 6 => StartOfPackage(l) >= i
    BY <1>1, <1>4, <1>5 DEF StartOfPackage
  <2>4. \A l \in PackagesBehind(m, p + 6, k) : l > j /\ l \in PackagesBehind(m, i, k)
    BY <1>1, <2>1, <2>3 DEF PackagesBehind, N!Of
  <2>5. j \in PackagesBehind(m, i, k) <=> m[j][2] = k
    BY <1>1, <1>4, <1>5 DEF PackagesBehind, N!Of
  <2>6. \A l \in PackagesBehind(m, i, k) : l = j \/ l \in PackagesBehind(m, p + 6, k)
    <3> TAKE l \in PackagesBehind(m, i, k)
    <3>1. l \in 1..Len(m) /\ StartOfPackage(l) >= p
      BY <1>6
    <3>2. l = j \/ l > j
      BY <1>1, <2>2, <3>1
    <3>3. QED
      BY <1>1, <2>1, <3>1, <3>2 DEF PackagesBehind
  <2>7. QED
    BY <2>4, <2>5, <2>6
<1>8. QED
  BY <1>4, <1>5, <1>7 DEF p, found

\* One step of the search: the package found first counts where none behind it is of its kind.
LEMMA StepOfTheSearch ==
  ASSUME NEW m \in N!Messages, ~N!Clashes(m), NEW i \in 3..(6 * Len(m) + 8), NEW beyond,
         FoundIn(N!Numbers(m), i) # {}
  PROVE  LET p == N!Min(FoundIn(N!Numbers(m), i))
         IN  LastBehind(m, i) = StepOf(N!Numbers(m), beyond, LastBehind(m, p + 6), p)
<1> DEFINE p == N!Min(FoundIn(N!Numbers(m), i))
<1>1. Len(m) \in Nat /\ DOMAIN m = 1..Len(m)
  BY MessageIs
<1>2. PICK j \in 1..Len(m) :
        /\ p = StartOfPackage(j) /\ p >= i
        /\ \A k \in {N!Acc, N!Gyro} :
             /\ PackagesBehind(m, i, k) =
                  PackagesBehind(m, p + 6, k) \cup (IF m[j][2] = k THEN {j} ELSE {})
             /\ \A l \in PackagesBehind(m, p + 6, k) : l > j
  BY BehindTheFirst
<1> HIDE DEF p
<1>3. /\ NumberAt(N!Numbers(m), beyond, p + 1) = m[j][2]
      /\ NumberAt(N!Numbers(m), beyond, p + 3) = m[j][4]
      /\ NumberAt(N!Numbers(m), beyond, p + 4) = m[j][5]
      /\ NumberAt(N!Numbers(m), beyond, p + 5) = m[j][6]
  <2>1. /\ p + 1 <= 6 * Len(m) + 2 /\ p + 3 <= 6 * Len(m) + 2
        /\ p + 4 <= 6 * Len(m) + 2 /\ p + 5 <= 6 * Len(m) + 2
        /\ p + 1 = StartOfPackage(j) + (2 - 1) /\ p + 3 = StartOfPackage(j) + (4 - 1)
        /\ p + 4 = StartOfPackage(j) + (5 - 1) /\ p + 5 = StartOfPackage(j) + (6 - 1)
    BY <1>1, <1>2 DEF StartOfPackage
  <2>2. /\ N!Numbers(m)[StartOfPackage(j) + (2 - 1)] = m[j][2]
        /\ N!Numbers(m)[StartOfPackage(j) + (4 - 1)] = m[j][4]
        /\ N!Numbers(m)[StartOfPackage(j) + (5 - 1)] = m[j][5]
        /\ N!Numbers(m)[StartOfPackage(j) + (6 - 1)] = m[j][6]
    BY NumbersAre
  <2>3. Len(N!Numbers(m)) = 6 * Len(m) + 2
    BY NumbersAre
  <2>4. QED
    BY <2>1, <2>2, <2>3 DEF NumberAt
<1>4. ASSUME NEW k \in {N!Acc, N!Gyro}
      PROVE  LastBehind(m, i)[k] = StepOf(N!Numbers(m), beyond, LastBehind(m, p + 6), p)[k]
  <2> DEFINE all == PackagesBehind(m, i, k)
             later == PackagesBehind(m, p + 6, k)
  <2>1. /\ LastBehind(m, i)[k] = IF all = {} THEN <<>> ELSE LastThree(m[N!Max(all)])
        /\ LastBehind(m, p + 6)[k] = IF later = {} THEN <<>> ELSE LastThree(m[N!Max(later)])
    BY DEF LastBehind
  <2>2. /\ all \in SUBSET (1..Len(m)) /\ later \in SUBSET (1..Len(m))
    BY <1>1 DEF PackagesBehind, N!Of
  <2>3. all = later \cup (IF m[j][2] = k THEN {j} ELSE {}) /\ \A l \in later : l > j
    BY <1>2
  <2>4. StepOf(N!Numbers(m), beyond, LastBehind(m, p + 6), p)[k] =
          IF LastBehind(m, p + 6)[k] = <<>> /\ m[j][2] = k
          THEN <<m[j][4], m[j][5], m[j][6]>> ELSE LastBehind(m, p + 6)[k]
    BY <1>3 DEF StepOf
  <2> HIDE DEF all, later
  <2>5. CASE later = {}
    <3>1. LastBehind(m, p + 6)[k] = <<>>
      BY <2>1, <2>5
    <3>2. CASE m[j][2] = k
      <4>1. all = {j} /\ j \in 1..Len(m)
        BY <2>3, <2>5, <3>2
      <4>2. N!Max(all) \in all
        BY <1>1, <4>1, <2>2, EstimGreatest
      <4>3. N!Max(all) = j
        BY <4>1, <4>2
      <4>4. QED
        BY <4>1, <4>3, <2>1, <2>4, <3>1, <3>2 DEF LastThree
    <3>3. CASE m[j][2] # k
      BY <2>1, <2>3, <2>4, <2>5, <3>1, <3>3
    <3>4. QED
      BY <3>2, <3>3
  <2>6. CASE later # {}
    <3>1. N!Max(later) \in later /\ \A l \in later : l <= N!Max(later)
      BY <1>1, <2>2, <2>6, EstimGreatest
    <3>2. all # {} /\ \A l \in all : l = j \/ l \in later
      BY <2>3, <2>6
    <3>3. N!Max(all) \in all /\ \A l \in all : l <= N!Max(all)
      BY <1>1, <2>2, <3>2, EstimGreatest
    <3>4. N!Max(later) \in all /\ N!Max(later) > j
      BY <2>3, <3>1
    <3> DEFINE a == N!Max(all)
               b == N!Max(later)
    <3>5. a \in 1..Len(m) /\ b \in 1..Len(m) /\ b <= a /\ a \in all /\ b > j
        /\ \A l \in later : l <= b
      BY <3>1, <3>3, <3>4, <2>2
    <3> HIDE DEF a, b
    <3>6. a = b
      <4>1. a # j
        BY <3>5, <1>1
      <4>2. a \in later
        BY <4>1, <3>2, <3>5
      <4>3. QED
        BY <4>2, <3>5, <1>1
    <3>7. LastBehind(m, p + 6)[k] = LastThree(m[N!Max(later)])
      BY <2>1, <2>6
    <3>8. LastThree(m[N!Max(later)]) # <<>>
      BY DEF LastThree
    <3>9. QED
      BY <2>1, <2>4, <3>2, <3>6, <3>7, <3>8 DEF a, b
  <2>7. QED
    BY <2>5, <2>6
<1>5. QED
  BY <1>4 DEF p, LastBehind, StepOf

\* What is extracted from a message without clashes: the last package of each kind.
THEOREM ExtractedIs ==
  ASSUME NEW m \in N!Messages, ~N!Clashes(m), NEW beyond, NEW k \in {N!Acc, N!Gyro}
  PROVE  N!Extracted(N!Numbers(m), beyond)[k] =
           IF N!Of(m, k) = {} THEN <<>> ELSE LastThree(m[N!Max(N!Of(m, k))])
<1> DEFINE numbers == N!Numbers(m)
           Places == 1..(6 * Len(m) + 8)
           Nothing == [n \in {N!Acc, N!Gyro} |-> <<>>]
           Body(f) == [i \in Places |->
                         IF FoundIn(numbers, i) = {} THEN Nothing
                         ELSE StepOf(numbers, beyond, f[N!Min(FoundIn(numbers, i)) + 6], N!Min(FoundIn(numbers, i)))]
           h == [i \in Places |->
                   IF i >= 3 THEN LastBehind(m, i)
                   ELSE IF FoundIn(numbers, i) = {} THEN Nothing
                   ELSE StepOf(numbers, beyond, LastBehind(m, N!Min(FoundIn(numbers, i)) + 6), N!Min(FoundIn(numbers, i)))]
<1>1. Len(m) \in Nat /\ DOMAIN m = 1..Len(m) /\ Len(numbers) = 6 * Len(m) + 2
  BY MessageIs, NumbersAre
<1>2. N!Extracted(numbers, beyond) = (CHOOSE f : f = Body(f))[3]
  BY <1>1 DEF N!Extracted, StepOf, NumberAt, FoundIn, N!PackageSize
<1>3. ASSUME NEW i \in Places, FoundIn(numbers, i) # {}
      PROVE  /\ N!Min(FoundIn(numbers, i)) \in i..(6 * Len(m) + 2)
             /\ N!Min(FoundIn(numbers, i)) \in Nat
             /\ N!Min(FoundIn(numbers, i)) >= i
  <2>1. FoundIn(numbers, i) \subseteq i..(6 * Len(m) + 2)
    BY <1>1 DEF FoundIn
  <2>2. i..(6 * Len(m) + 2) \subseteq Nat
    BY <1>1
  <2>3. N!Min(FoundIn(numbers, i)) \in FoundIn(numbers, i)
    BY <2>1, <2>2, <1>3, EstimLeast
  <2> HIDE DEF numbers
  <2>4. QED
    BY <2>1, <2>2, <2>3, <1>1
<1>4. ASSUME NEW i \in 3..(6 * Len(m) + 8)
      PROVE  LastBehind(m, i) = IF FoundIn(numbers, i) = {} THEN Nothing
                                ELSE StepOf(numbers, beyond, LastBehind(m, N!Min(FoundIn(numbers, i)) + 6), N!Min(FoundIn(numbers, i)))
  <2>1. CASE FoundIn(numbers, i) # {}
    BY <2>1, StepOfTheSearch
  <2>2. CASE FoundIn(numbers, i) = {}
    <3>1. \A n \in {N!Acc, N!Gyro} : PackagesBehind(m, i, n) = {}
      <4>1. ASSUME NEW n \in {N!Acc, N!Gyro}, NEW j \in PackagesBehind(m, i, n)
            PROVE  FALSE
        BY <1>1, <2>2, StartsAreFound DEF PackagesBehind, N!Of
      <4>2. QED
        BY <4>1
    <3>2. QED
      BY <2>2, <3>1 DEF LastBehind
  <2>3. QED
    BY <2>1, <2>2
<1> HIDE DEF numbers
<1>5. h = Body(h)
  <2>1. ASSUME NEW i \in Places
        PROVE  h[i] = IF FoundIn(numbers, i) = {} THEN Nothing
                      ELSE StepOf(numbers, beyond, h[N!Min(FoundIn(numbers, i)) + 6], N!Min(FoundIn(numbers, i)))
    <3>1. CASE FoundIn(numbers, i) # {}
      <4> DEFINE p == N!Min(FoundIn(numbers, i))
      <4>1. p \in i..(6 * Len(m) + 2) /\ p \in Nat
        BY <1>3, <3>1
      <4> HIDE DEF p
      <4>2. p + 6 \in Places /\ p + 6 >= 3
        BY <4>1, <1>1
      <4>3. h[p + 6] = LastBehind(m, p + 6)
        BY <4>2
      <4>4. CASE i >= 3
        <5>1. h[i] = LastBehind(m, i) /\ i \in 3..(6 * Len(m) + 8)
          BY <4>4, <1>1
        <5>2. QED
          BY <5>1, <1>4, <3>1, <4>3 DEF p
      <4>5. CASE ~(i >= 3)
        <5>1. h[i] = StepOf(numbers, beyond, LastBehind(m, p + 6), p)
          BY <4>5, <3>1 DEF p
        <5>2. QED
          BY <5>1, <3>1, <4>3 DEF p
      <4>6. QED
        BY <4>4, <4>5
    <3>2. CASE FoundIn(numbers, i) = {}
      <4>1. CASE i >= 3
        <5>1. h[i] = LastBehind(m, i) /\ i \in 3..(6 * Len(m) + 8)
          BY <4>1, <1>1
        <5>2. QED
          BY <5>1, <1>4, <3>2
      <4>2. CASE ~(i >= 3)
        BY <4>2, <3>2
      <4>3. QED
        BY <4>1, <4>2
    <3>3. QED
      BY <3>1, <3>2
  <2> DEFINE Rest(i) == IF FoundIn(numbers, i) = {} THEN Nothing
                        ELSE StepOf(numbers, beyond, h[N!Min(FoundIn(numbers, i)) + 6], N!Min(FoundIn(numbers, i)))
  <2>2. h = [i \in Places |-> h[i]]
    OBVIOUS
  <2>3. \A i \in Places : h[i] = Rest(i)
    BY <2>1
  <2>4. Body(h) = [i \in Places |-> Rest(i)]
    OBVIOUS
  <2> HIDE DEF h, Rest, Body
  <2>5. QED
    BY <2>2, <2>3, <2>4
<1> DEFINE f == CHOOSE f : f = Body(f)
<1> HIDE DEF h
<1>6. f = Body(f)
  <2> HIDE DEF Body
  <2>1. QED
    BY <1>5
<1>7. \A i \in Places : f[i] = IF FoundIn(numbers, i) = {} THEN Nothing
                              ELSE StepOf(numbers, beyond, f[N!Min(FoundIn(numbers, i)) + 6], N!Min(FoundIn(numbers, i)))
  <2> HIDE DEF f
  <2>1. QED
    BY <1>6
<1>8. N!Extracted(numbers, beyond) = f[3]
  BY <1>2
<1> HIDE DEF f, Body
<1>9. f[3] = LastBehind(m, 3)
  <2> DEFINE wrong == {i \in 3..(6 * Len(m) + 8) : f[i] # LastBehind(m, i)}
  <2>1. SUFFICES ASSUME wrong # {} PROVE FALSE
    <3>1. 3 \in 3..(6 * Len(m) + 8)
      BY <1>1
    <3>2. QED
      BY <3>1
  <2>2. wrong \subseteq Nat /\ (6 * Len(m) + 8) \in Nat /\ \A i \in wrong : i <= 6 * Len(m) + 8
    BY <1>1
  <2>3. PICK i \in wrong : \A q \in wrong : q <= i
    <3> DEFINE last == 6 * Len(m) + 8
    <3>1. wrong \in SUBSET Nat /\ last \in Nat /\ \A i \in wrong : i <= last
      BY <2>2
    <3> HIDE DEF wrong, last
    <3>2. QED
      BY <2>1, <3>1, GreatestOfNaturals
  <2>4. i \in 3..(6 * Len(m) + 8) /\ i \in Places /\ f[i] # LastBehind(m, i)
    BY <1>1, <2>3
  <2>5. FoundIn(numbers, i) # {}
    BY <2>4, <1>4, <1>7
  <2> DEFINE p == N!Min(FoundIn(numbers, i))
  <2>6. p \in i..(6 * Len(m) + 2) /\ p \in Nat
    BY <1>3, <2>4, <2>5
  <2> HIDE DEF p
  <2>7. p + 6 \in 3..(6 * Len(m) + 8) /\ ~(p + 6 <= i)
    BY <1>1, <2>4, <2>6
  <2>8. f[p + 6] = LastBehind(m, p + 6)
    BY <2>3, <2>7
  <2>9. f[i] = StepOf(numbers, beyond, f[p + 6], p)
    BY <1>7, <2>4, <2>5 DEF p
  <2>10. LastBehind(m, i) = StepOf(numbers, beyond, LastBehind(m, p + 6), p)
    BY <1>4, <2>4, <2>5 DEF p
  <2>11. QED
    BY <2>4, <2>8, <2>9, <2>10
<1>10. PackagesBehind(m, 3, k) = N!Of(m, k)
  BY <1>1 DEF PackagesBehind, N!Of, StartOfPackage
<1>11. QED
  BY <1>8, <1>9, <1>10 DEF LastBehind, numbers

\* What counts of the messages read, once one more is: its last package of each kind, or what
\* counted before, converted once more.
LEMMA SentByStep ==
  ASSUME NEW messages \in Seq(N!Messages), NEW m \in N!Messages, NEW k \in {N!Acc, N!Gyro}
  PROVE  N!SentBy(Append(messages, m), k) =
           N!Convert(N!SentBy(messages, k), IF N!Of(m, k) = {} THEN <<>> ELSE LastThree(m[N!Max(N!Of(m, k))]))
<1> DEFINE longer == Append(messages, m)
           With(s) == {n \in DOMAIN s : N!Of(s[n], k) # {}}
           Last(s) == s[N!Max(With(s))][N!Max(N!Of(s[N!Max(With(s))], k))]
<1>1. /\ Len(messages) \in Nat /\ DOMAIN messages = 1..Len(messages)
      /\ longer \in Seq(N!Messages) /\ Len(longer) = Len(messages) + 1
      /\ DOMAIN longer = 1..(Len(messages) + 1)
      /\ \A n \in 1..Len(messages) : longer[n] = messages[n]
      /\ longer[Len(messages) + 1] = m
  OBVIOUS
<1>2. \A s : N!SentBy(s, k) = IF With(s) = {} THEN [raw |-> <<0, 0, 0>>, times |-> Len(s)]
                           ELSE [raw |-> LastThree(Last(s)), times |-> 1 + Len(s) - N!Max(With(s))]
  BY DEF N!SentBy, LastThree
<1> DEFINE n == Len(messages) + 1
<1>3. With(longer) = With(messages) \cup (IF N!Of(m, k) = {} THEN {} ELSE {n})
  BY <1>1
<1>4. With(messages) \in SUBSET (1..Len(messages)) /\ With(longer) \in SUBSET (1..n) /\ n \in Nat
  BY <1>1
<1> HIDE DEF longer, With, Last
<1>5. CASE N!Of(m, k) = {}
  <2>1. With(longer) = With(messages)
    BY <1>3, <1>5
  <2>2. CASE With(messages) = {}
    <3>1. /\ N!SentBy(messages, k) = [raw |-> <<0, 0, 0>>, times |-> Len(messages)]
          /\ N!SentBy(longer, k) = [raw |-> <<0, 0, 0>>, times |-> Len(messages) + 1]
      BY <1>1, <1>2, <2>1, <2>2
    <3>2. QED
      BY <3>1, <1>5 DEF N!Convert, longer
  <2>3. CASE With(messages) # {}
    <3> DEFINE l == N!Max(With(messages))
    <3>1. l \in With(messages)
      BY <1>1, <1>4, <2>3, EstimGreatest
    <3>2. l \in 1..Len(messages)
      BY <1>4, <3>1
    <3>3. Last(longer) = Last(messages)
      BY <1>1, <2>1, <3>2 DEF Last
    <3> HIDE DEF l
    <3>4. 1 + (Len(messages) + 1) - l = (1 + Len(messages) - l) + 1
      BY <1>1, <3>2
    <3>5. /\ N!SentBy(messages, k) =
               [raw |-> LastThree(Last(messages)), times |-> 1 + Len(messages) - l]
          /\ N!SentBy(longer, k) =
               [raw |-> LastThree(Last(messages)), times |-> 1 + (Len(messages) + 1) - l]
      BY <1>1, <1>2, <2>1, <2>3, <3>3 DEF l
    <3>6. QED
      BY <3>4, <3>5, <1>5 DEF N!Convert, longer
  <2>4. QED
    BY <2>2, <2>3
<1>6. CASE N!Of(m, k) # {}
  <2>1. n \in With(longer) /\ With(longer) # {}
    BY <1>3, <1>6
  <2> DEFINE l == N!Max(With(longer))
  <2>2. l \in With(longer) /\ \A q \in With(longer) : q <= l
    BY <1>4, <2>1, EstimGreatest
  <2>3. l \in 1..n /\ n <= l
    BY <1>4, <2>1, <2>2
  <2>4. l = n
    <3> HIDE DEF l
    <3>1. QED
      BY <2>3, <1>4
  <2>5. Last(longer) = m[N!Max(N!Of(m, k))]
    BY <2>4, <1>1 DEF Last
  <2>6. 1 + Len(longer) - n = 1
    BY <1>1
  <2>7. N!SentBy(longer, k) = [raw |-> LastThree(m[N!Max(N!Of(m, k))]), times |-> 1]
    BY <1>2, <2>1, <2>4, <2>5, <2>6
  <2>8. LastThree(m[N!Max(N!Of(m, k))]) # <<>>
    BY DEF LastThree
  <2>9. QED
    BY <2>7, <2>8, <1>6 DEF N!Convert, longer
<1>7. QED
  BY <1>5, <1>6

(* The invariant *)

\* The first estimator from a place on is listed, or there is none; none between is listed.
LEMMA FirstListed ==
  ASSUME NEW i \in 1..(Len(N!Keys) + 1)
  PROVE  /\ N!From(i) \in i..(Len(N!Keys) + 1) /\ N!From(i) \in Nat /\ N!From(i) >= i
         /\ N!From(i) >= 1
         /\ N!From(i) \in DOMAIN N!Keys => N!Keys[N!From(i)] \in N!Estimators
         /\ \A j \in DOMAIN N!Keys : i <= j /\ j < N!From(i) => N!Keys[j] \notin N!Estimators
<1>1. Len(N!Keys) \in Nat /\ DOMAIN N!Keys = 1..Len(N!Keys) /\ i \in Nat /\ i >= 1
  BY EstimatorsAssumption DEF N!Keys
<1> DEFINE places == {j \in i..(Len(N!Keys) + 1) : j \in DOMAIN N!Keys => N!Keys[j] \in N!Estimators}
<1>2. places \in SUBSET Nat /\ Len(N!Keys) + 1 \in places
  BY <1>1
<1>3. N!Min(places) \in places /\ \A j \in places : N!Min(places) <= j
  BY <1>2, EstimLeast
<1>4. N!From(i) = N!Min(places)
  BY DEF N!From
<1>5. N!From(i) \in i..(Len(N!Keys) + 1)
    /\ (N!From(i) \in DOMAIN N!Keys => N!Keys[N!From(i)] \in N!Estimators)
  BY <1>3, <1>4
<1>6. ASSUME NEW j \in DOMAIN N!Keys, i <= j, j < N!From(i)
      PROVE  N!Keys[j] \notin N!Estimators
  <2>1. j \in i..(Len(N!Keys) + 1)
    BY <1>1, <1>6
  <2>2. j \notin places
    BY <1>1, <1>3, <1>4, <1>5, <1>6
  <2>3. QED
    BY <2>1, <2>2
<1>7. QED
  BY <1>1, <1>5, <1>6

\* What an estimator has opened: ports of its own, and the odometry's when it is done.
LEMMA PortsAreOwn ==
  ASSUME NEW e
  PROVE  /\ \A p \in N!Initialised(e).ports : p[1] = e /\ e \in N!Known
         /\ e = "LeggedOdometry" /\ N!Initialised(e).how = "done" =>
              N!OdometryPort \in N!Initialised(e).ports
         /\ N!Initialised(e).how \in {"done", "refused", "crashed"}
<1>1. CASE e = "DirectFiltering"
  BY <1>1 DEF N!Initialised, N!InitDirect, N!Ends, N!Sensor, N!Outputs, N!Known, N!Filters
<1>2. CASE e = "LeggedOdometry"
  BY <1>2 DEF N!Initialised, N!InitOdometry, N!Ends, N!Outputs, N!Known, N!Filters, N!OdometryPort
<1>3. CASE e = "QuaternionEKF"
  BY <1>3 DEF N!Initialised, N!InitFilter, N!Ends, N!Sensor, N!Outputs, N!Known, N!Filters
<1>4. CASE e \notin N!Known
  BY <1>4 DEF N!Initialised, N!Ends, N!Known, N!Filters
<1>5. QED
  BY <1>1, <1>2, <1>3, <1>4 DEF N!Known, N!Filters

\* An estimator that does not start lacks something, or is the filter without the port of the odometry.
LEMMA RefusedLacks ==
  ASSUME NEW e, N!Initialised(e).how # "done"
  PROVE  N!Lacks(e) \/ (e = "QuaternionEKF" /\ N!OdometryPort \notin estim_open)
<1>1. CASE e = "DirectFiltering"
  BY <1>1 DEF N!Initialised, N!InitDirect, N!Ends, N!Lacks, N!Known, N!Filters
<1>2. CASE e = "LeggedOdometry"
  BY <1>2 DEF N!Initialised, N!InitOdometry, N!Ends, N!Lacks, N!Known, N!Filters
<1>3. CASE e = "QuaternionEKF"
  BY <1>3 DEF N!Initialised, N!InitFilter, N!Ends, N!Lacks, N!Known, N!Filters
<1>4. CASE e \notin N!Known
  BY <1>4 DEF N!Lacks
<1>5. QED
  BY <1>1, <1>2, <1>3, <1>4 DEF N!Known, N!Filters

\* The odometry, when it is listed and its turn has passed, has opened its port.
OdometryIsOpen ==
  \A j \in DOMAIN N!Keys :
    j < estim_at /\ N!Keys[j] = "LeggedOdometry" /\ N!Keys[j] \in N!Estimators =>
          N!OdometryPort \in estim_open

EstimShapes ==
  /\ N!Config(estim_config)
  /\ estim_read \in [N!Filters -> Seq(N!Messages)]
  /\ estim_mailbox \in [N!Filters -> {<<>>} \cup {<<m>> : m \in N!Messages}]
  /\ DOMAIN estim_measure = N!Filters

EstimTurns ==
  /\ estim_phase = "created" => estim_at = 0 /\ estim_open = {}
  /\ estim_phase = "starting" => estim_at >= 1 /\ OdometryIsOpen
  /\ \A p \in estim_open : p[1] \in N!Estimators

EstimKept ==
  /\ N!TypeOK /\ EstimShapes /\ EstimTurns
  /\ N!StartsInAnyOrder /\ N!UsesWhatWasSent /\ N!NoPortIsLeft

\* No estimator runs at the start.
LEMMA EstimInit == N!Init => EstimKept
<1> SUFFICES ASSUME N!Init PROVE EstimKept
  OBVIOUS
<1>1. Len(N!Keys) \in Nat /\ DOMAIN N!Keys = 1..Len(N!Keys)
  BY EstimatorsAssumption DEF N!Keys
<1>2. /\ estim_read = [f \in N!Filters |-> <<>>] /\ <<>> \in Seq(N!Messages) /\ Len(<<>>) = 0
      /\ "DirectFiltering" \in N!Filters /\ "QuaternionEKF" \in N!Filters
  BY DEF N!Init, N!Filters
<1>3. N!TypeOK
  <2>1. N!Followed <= estim_MaxMessages
    BY <1>2, EstimatorsAssumption DEF N!Followed
  <2>2. QED
    BY <1>1, <2>1 DEF N!Init, N!TypeOK
<1>4. EstimShapes
  BY <1>2 DEF N!Init, EstimShapes
<1>5. N!UsesWhatWasSent
  <2>1. ASSUME NEW k \in {N!Acc, N!Gyro}
        PROVE  N!SentBy(<<>>, k) = N!Zero
    BY DEF N!SentBy, N!Zero
  <2>2. QED
    BY <1>2, <2>1 DEF N!Init, N!UsesWhatWasSent
<1>6. QED
  BY <1>3, <1>4, <1>5 DEF N!Init, EstimKept, EstimTurns, N!StartsInAnyOrder, N!NoPortIsLeft

\* A step of another component keeps the invariant.
LEMMA EstimStutters == EstimKept /\ UNCHANGED N!estimatorVars => EstimKept'
  BY DEF EstimKept, N!estimatorVars, N!TypeOK, N!Keys, N!Estimators, N!Followed, EstimShapes,
     N!Config, EstimTurns, OdometryIsOpen,
         N!OdometryPort, N!StartsInAnyOrder, N!Lacks, N!UsesWhatWasSent, N!NoPortIsLeft

\* What follows where the measures stay and nothing is read.
LEMMA MeasuresStay ==
  ASSUME EstimKept, UNCHANGED <<estim_config, estim_read, estim_measure>>
  PROVE  /\ N!UsesWhatWasSent' /\ (N!Followed <= estim_MaxMessages)'
         /\ (estim_config \in estim_Configs)' /\ N!Config(estim_config)'
         /\ (estim_read \in [N!Filters -> Seq(N!Messages)])' /\ (DOMAIN estim_measure = N!Filters)'
  BY DEF EstimKept, N!TypeOK, EstimShapes, N!Followed, N!Config, N!UsesWhatWasSent

\* configure starts the thread with the first estimator.
LEMMA EstimStartThread == EstimKept /\ N!StartThread => EstimKept'
<1> SUFFICES ASSUME EstimKept, N!StartThread PROVE EstimKept'
  OBVIOUS
<1> USE DEF EstimKept
<1>1. Len(N!Keys) \in Nat /\ DOMAIN N!Keys = 1..Len(N!Keys) /\ 1 \in 1..(Len(N!Keys) + 1)
  BY EstimatorsAssumption DEF N!Keys
<1>2. /\ estim_at' \in 1..(Len(N!Keys) + 1)
         /\ (estim_at' \in DOMAIN N!Keys => N!Keys[estim_at'] \in N!Estimators)
      /\ \A j \in DOMAIN N!Keys : j < estim_at' => N!Keys[j] \notin N!Estimators
  BY <1>1, FirstListed DEF N!StartThread
<1>3. estim_phase' = "starting"
    /\ UNCHANGED <<estim_config, estim_open, estim_mailbox, estim_read, estim_measure>>
  BY DEF N!StartThread
<1>4. N!Keys' = N!Keys /\ N!Estimators' = N!Estimators
  BY <1>3 DEF N!Keys, N!Estimators
<1>5. N!TypeOK' /\ EstimShapes'
  BY <1>1, <1>2, <1>3, <1>4, MeasuresStay DEF N!TypeOK, EstimShapes
<1>6. EstimTurns'
  BY <1>1, <1>2, <1>3, <1>4 DEF EstimTurns, OdometryIsOpen
<1>7. QED
  BY <1>3, <1>5, <1>6, MeasuresStay DEF N!StartsInAnyOrder, N!NoPortIsLeft

\* The next estimator is initialised, or the module does not start.
LEMMA EstimInitEstimator == EstimKept /\ N!InitEstimator => EstimKept'
<1> SUFFICES ASSUME EstimKept, N!InitEstimator PROVE EstimKept'
  OBVIOUS
<1> USE DEF EstimKept
<1> DEFINE e == N!Keys[estim_at]
           end == N!Initialised(e)
<1>1. /\ Len(N!Keys) \in Nat /\ DOMAIN N!Keys = 1..Len(N!Keys)
      /\ estim_at \in 1..Len(N!Keys) /\ estim_at + 1 \in 1..(Len(N!Keys) + 1) /\ estim_at + 1 >= 1
  BY EstimatorsAssumption DEF N!Keys, N!InitEstimator
<1>2. /\ estim_at' \in (estim_at + 1)..(Len(N!Keys) + 1) /\ estim_at' >= 1
      /\ (estim_at' \in DOMAIN N!Keys => N!Keys[estim_at'] \in N!Estimators)
      /\ \A j \in DOMAIN N!Keys : estim_at + 1 <= j /\ j < estim_at' =>
           N!Keys[j] \notin N!Estimators
  BY <1>1, FirstListed DEF N!InitEstimator
<1>3. /\ estim_phase = "starting" /\ estim_open' = estim_open \cup end.ports
      /\ estim_phase' = IF end.how = "done" THEN estim_phase ELSE end.how
      /\ UNCHANGED <<estim_config, estim_mailbox, estim_read, estim_measure>>
  BY DEF N!InitEstimator
<1>4. N!Keys' = N!Keys /\ N!Estimators' = N!Estimators
  BY <1>3 DEF N!Keys, N!Estimators
<1>5. /\ \A p \in end.ports : p[1] = e /\ e \in N!Known
      /\ (e = "LeggedOdometry" /\ end.how = "done" => N!OdometryPort \in end.ports)
      /\ end.how \in {"done", "refused", "crashed"}
      /\ e \in N!Estimators
  BY PortsAreOwn, <1>1 DEF N!TypeOK
<1>6. end.how # "done" => N!Lacks(e) \/ (e = "QuaternionEKF" /\ N!OdometryPort \notin estim_open)
  BY RefusedLacks
<1> HIDE DEF end
<1>7. N!TypeOK'
  <2>1. estim_phase' \in {"starting", "refused", "crashed"}
    BY <1>3, <1>5
  <2>2. estim_at' \in 0..(Len(N!Keys) + 1)
    BY <1>1, <1>2
  <2>3. \A p \in estim_open' : p[1] \in N!Known
    BY <1>3, <1>5 DEF N!TypeOK
  <2>4. QED
    BY <1>2, <1>3, <1>4, <2>1, <2>2, <2>3, MeasuresStay DEF N!TypeOK
<1>8. EstimShapes'
  BY <1>3, MeasuresStay DEF EstimShapes
<1>9. EstimTurns'
  <2>1. \A p \in estim_open' : p[1] \in N!Estimators
    BY <1>3, <1>5 DEF EstimTurns
  <2>2. ASSUME estim_phase' = "starting"
        PROVE  OdometryIsOpen'
    <3> SUFFICES ASSUME NEW j \in DOMAIN N!Keys, j < estim_at', N!Keys[j] =
          "LeggedOdometry", N!Keys[j] \in N!Estimators
                 PROVE  N!OdometryPort \in estim_open'
      BY <1>4 DEF OdometryIsOpen, N!OdometryPort
    <3>1. end.how = "done"
      BY <1>3, <1>5, <2>2
    <3>2. j < estim_at \/ j = estim_at
      BY <1>1, <1>2
    <3>3. CASE j < estim_at
      BY <3>3, <1>3 DEF EstimTurns, OdometryIsOpen
    <3>4. CASE j = estim_at
      BY <3>1, <3>4, <1>3, <1>5
    <3>5. QED
      BY <3>2, <3>3, <3>4
  <2>3. estim_phase' # "created"
    BY <1>3, <1>5
  <2>4. \A p \in estim_open' : p[1] \in N!Estimators'
    BY <2>1, <1>4
  <2>5. QED
    BY <1>2, <2>2, <2>3, <2>4 DEF EstimTurns
<1>10. N!StartsInAnyOrder'
  <2> SUFFICES ASSUME estim_phase' \in {"refused", "crashed"}
               PROVE  \E l \in N!Range(estim_config.listed) : N!Lacks(l)
    BY <1>3 DEF N!StartsInAnyOrder, N!Lacks
  <2>1. end.how # "done"
    BY <1>3
  <2>2. CASE N!Lacks(e)
    BY <2>2, <1>5 DEF N!Estimators
  <2>3. CASE e = "QuaternionEKF" /\ N!OdometryPort \notin estim_open
    <3>1. "LeggedOdometry" \notin N!Range(estim_config.listed)
      <4> SUFFICES ASSUME "LeggedOdometry" \in N!Range(estim_config.listed) PROVE FALSE
        OBVIOUS
      <4>1. "LeggedOdometry" \in N!Names
        <5>1. estim_config.listed \in Seq(N!Names)
          BY DEF EstimShapes, N!Config
        <5>2. QED
          BY <5>1 DEF N!Range
      <4>2. PICK j \in DOMAIN N!Keys : N!Keys[j] = "LeggedOdometry"
        BY <4>1 DEF N!Names, N!Range, N!Keys
      <4>3. j < estim_at
        BY <4>2, <2>3, <1>1, EstimatorsAssumption DEF N!Keys
      <4>4. QED
        BY <4>2, <4>3, <2>3, <1>3 DEF EstimTurns, OdometryIsOpen, N!Estimators
    <3>2. QED
      BY <2>3, <3>1, <1>5 DEF N!Lacks, N!Estimators
  <2>4. QED
    BY <1>6, <2>1, <2>2, <2>3
<1>11. N!NoPortIsLeft'
  BY <1>3, <1>5 DEF N!NoPortIsLeft
<1>12. QED
  BY <1>3, <1>7, <1>8, <1>9, <1>10, <1>11, MeasuresStay

\* All are initialised.
LEMMA EstimStarted == EstimKept /\ N!Started => EstimKept'
<1> SUFFICES ASSUME EstimKept, N!Started PROVE EstimKept'
  OBVIOUS
<1> USE DEF EstimKept
<1>1. Len(N!Keys) \in Nat /\ DOMAIN N!Keys = 1..Len(N!Keys)
  BY EstimatorsAssumption DEF N!Keys
<1>2. estim_phase' = "running" /\ estim_at' = 0
    /\ UNCHANGED <<estim_config, estim_open, estim_mailbox, estim_read, estim_measure>>
  BY DEF N!Started
<1>3. N!Keys' = N!Keys /\ N!Estimators' = N!Estimators
  BY <1>2 DEF N!Keys, N!Estimators
<1>4. QED
  BY <1>1, <1>2, <1>3, MeasuresStay DEF N!TypeOK, EstimShapes, EstimTurns, N!StartsInAnyOrder,
     N!NoPortIsLeft

\* A message of the board waits for its filter.
LEMMA EstimMessage == ASSUME NEW f \in N!Filters PROVE EstimKept /\ N!Message(f) => EstimKept'
<1> SUFFICES ASSUME EstimKept, N!Message(f) PROVE EstimKept'
  OBVIOUS
<1> USE DEF EstimKept
<1>1. <<>> \in N!Messages
  <2>1. <<>> \in [1..0 -> estim_Packages] /\ 0 \in 0..estim_MaxPackages
    BY EstimatorsAssumption
  <2>2. QED
    BY <2>1 DEF N!Messages
<1>2. PICK m \in N!Messages : estim_mailbox' = [estim_mailbox EXCEPT ![f] = <<m>>]
  BY <1>1 DEF N!Message
<1>3. /\ estim_phase \in {"starting", "running", "stopping"}
      /\ UNCHANGED <<estim_config, estim_phase, estim_at, estim_open, estim_read, estim_measure>>
  BY DEF N!Message
<1>4. N!Keys' = N!Keys /\ N!Estimators' = N!Estimators
  BY <1>3 DEF N!Keys, N!Estimators
<1>5. estim_mailbox' \in [N!Filters -> {<<>>} \cup {<<n>> : n \in N!Messages}]
  BY <1>2 DEF EstimShapes
<1>6. \A g \in N!Filters : estim_mailbox'[g] = <<>> \/ estim_mailbox'[g][1] \in N!Messages
  BY <1>5
<1>7. N!TypeOK'
  BY <1>3, <1>4, <1>6, MeasuresStay DEF N!TypeOK
<1>8. EstimShapes'
  BY <1>3, <1>5, MeasuresStay DEF EstimShapes
<1>9. EstimTurns'
  BY <1>3, <1>4 DEF EstimTurns, OdometryIsOpen, N!OdometryPort
<1>10. QED
  BY <1>3, <1>7, <1>8, <1>9, MeasuresStay DEF N!StartsInAnyOrder, N!NoPortIsLeft, N!Lacks

\* A run begins with the first estimator.
LEMMA EstimRunBegins == EstimKept /\ N!RunBegins => EstimKept'
<1> SUFFICES ASSUME EstimKept, N!RunBegins PROVE EstimKept'
  OBVIOUS
<1> USE DEF EstimKept
<1>1. Len(N!Keys) \in Nat /\ DOMAIN N!Keys = 1..Len(N!Keys) /\ 1 \in 1..(Len(N!Keys) + 1)
  BY EstimatorsAssumption DEF N!Keys
<1>2. /\ estim_at' \in 1..Len(N!Keys) /\ N!Keys[estim_at'] \in N!Estimators
      /\ estim_phase = "running"
      /\ UNCHANGED <<estim_config, estim_phase, estim_open, estim_mailbox, estim_read,
                     estim_measure>>
  BY <1>1, FirstListed DEF N!RunBegins
<1>3. N!Keys' = N!Keys /\ N!Estimators' = N!Estimators
  BY <1>2 DEF N!Keys, N!Estimators
<1>4. N!TypeOK'
  BY <1>1, <1>2, <1>3, MeasuresStay DEF N!TypeOK
<1>5. QED
  BY <1>2, <1>3, <1>4, MeasuresStay DEF EstimShapes, EstimTurns, N!StartsInAnyOrder, N!NoPortIsLeft

\* After its turn an estimator gives it to the next one, or the run is over.
LEMMA TurnIsGiven ==
  ASSUME EstimKept, NEW e, N!Runs(e), N!RunNext, UNCHANGED <<estim_config, estim_phase, estim_open>>
  PROVE  /\ estim_at' \in 0..(Len(N!Keys) + 1) /\ estim_at' <= Len(N!Keys)
         /\ (estim_at' \in DOMAIN N!Keys => N!Keys[estim_at'] \in N!Estimators) /\ N!Keys' = N!Keys
            /\ N!Estimators' = N!Estimators
         /\ EstimTurns' /\ N!StartsInAnyOrder' /\ N!NoPortIsLeft'
<1> USE DEF EstimKept
<1>1. /\ Len(N!Keys) \in Nat /\ DOMAIN N!Keys = 1..Len(N!Keys) /\ estim_at \in 1..Len(N!Keys)
      /\ estim_at + 1 \in 1..(Len(N!Keys) + 1)
      /\ estim_phase \in {"running", "stopping"}
  BY EstimatorsAssumption DEF N!Keys, N!Runs
<1>2. N!Keys' = N!Keys /\ N!Estimators' = N!Estimators
  BY DEF N!Keys, N!Estimators
<1>3. /\ N!From(estim_at + 1) \in (estim_at + 1)..(Len(N!Keys) + 1)
      /\ (N!From(estim_at + 1) \in DOMAIN N!Keys => N!Keys[N!From(estim_at + 1)] \in N!Estimators)
  BY <1>1, FirstListed
<1>4. estim_at' = IF N!From(estim_at + 1) > Len(N!Keys) THEN 0 ELSE N!From(estim_at + 1)
  BY DEF N!RunNext
<1>5. estim_at' \in 0..Len(N!Keys)
    /\ (estim_at' \in DOMAIN N!Keys => N!Keys[estim_at'] \in N!Estimators)
  BY <1>1, <1>3, <1>4
<1>6. QED
  BY <1>1, <1>2, <1>5 DEF EstimTurns, N!StartsInAnyOrder, N!NoPortIsLeft

\* The turn of the odometry.
LEMMA EstimRunOdometry == EstimKept /\ N!RunOdometry => EstimKept'
<1> SUFFICES ASSUME EstimKept, N!RunOdometry PROVE EstimKept'
  OBVIOUS
<1> USE DEF EstimKept
<1>1. /\ N!Runs("LeggedOdometry") /\ N!RunNext
      /\ UNCHANGED <<estim_config, estim_phase, estim_open, estim_mailbox, estim_read,
                     estim_measure>>
  BY DEF N!RunOdometry
<1>2. N!TypeOK'
  BY <1>1, TurnIsGiven, MeasuresStay DEF N!TypeOK
<1>3. QED
  BY <1>1, <1>2, TurnIsGiven, MeasuresStay DEF EstimShapes

\* close waits for the end of the run.
LEMMA EstimStop == EstimKept /\ N!Stop => EstimKept'
<1> SUFFICES ASSUME EstimKept, N!Stop PROVE EstimKept'
  OBVIOUS
<1> USE DEF EstimKept
<1>1. estim_phase = "running" /\ estim_phase' = "stopping"
    /\ UNCHANGED <<estim_config, estim_at, estim_open, estim_mailbox, estim_read, estim_measure>>
  BY DEF N!Stop
<1>2. N!Keys' = N!Keys /\ N!Estimators' = N!Estimators
  BY <1>1 DEF N!Keys, N!Estimators
<1>3. QED
  BY <1>1, <1>2, MeasuresStay DEF N!TypeOK, EstimShapes, EstimTurns, N!StartsInAnyOrder,
     N!NoPortIsLeft

\* Every estimator closes its ports.
LEMMA EstimRelease == EstimKept /\ N!Release => EstimKept'
<1> SUFFICES ASSUME EstimKept, N!Release PROVE EstimKept'
  OBVIOUS
<1> USE DEF EstimKept
<1>1. /\ estim_phase = "stopping" /\ estim_phase' = "closed" /\ estim_open' = N!Kept
      /\ UNCHANGED <<estim_config, estim_at, estim_mailbox, estim_read, estim_measure>>
  BY DEF N!Release
<1>2. N!Keys' = N!Keys /\ N!Estimators' = N!Estimators
  BY <1>1 DEF N!Keys, N!Estimators
<1>3. estim_open' = {}
  BY <1>1 DEF EstimTurns, N!Kept
<1>4. N!TypeOK'
  BY <1>1, <1>2, <1>3, MeasuresStay DEF N!TypeOK
<1>5. QED
  BY <1>1, <1>2, <1>3, <1>4, MeasuresStay DEF EstimShapes, EstimTurns, N!StartsInAnyOrder,
     N!NoPortIsLeft

\* all filter in its turn: the message it waited for counts, and no other filter's measures change.
LEMMA FilterReads ==
  ASSUME EstimKept, NEW f \in N!Filters, N!RunFilter(f), N!Followed < estim_MaxMessages
  PROVE  /\ N!UsesWhatWasSent' /\ (N!Followed <= estim_MaxMessages)'
         /\ (estim_read \in [N!Filters -> Seq(N!Messages)])' /\ (DOMAIN estim_measure = N!Filters)'
<1> USE DEF EstimKept
<1> DEFINE m == estim_mailbox[f][1]
<1>1. m \in N!Messages
  <2>1. estim_mailbox[f] \in {<<>>} \cup {<<n>> : n \in N!Messages} /\ estim_mailbox[f] # <<>>
    BY DEF EstimShapes, N!RunFilter
  <2>2. QED
    BY <2>1
<1> HIDE DEF m
<1>2. PICK beyond \in {0, N!Acc, N!Gyro} :
        LET new == N!Extracted(N!Numbers(m), beyond)
        IN  estim_measure' =
              [estim_measure EXCEPT ![f] = [k \in {N!Acc, N!Gyro} |-> N!Convert(@[k], new[k])]]
  BY DEF N!RunFilter, N!Measures, m
<1>3. estim_read' = [estim_read EXCEPT ![f] = Append(@, m)]
  BY DEF N!RunFilter, m
<1>4. DOMAIN estim_measure = N!Filters /\ estim_read \in [N!Filters -> Seq(N!Messages)]
  BY DEF EstimShapes
<1>5. /\ \A g \in N!Filters \ {f} : estim_measure'[g] = estim_measure[g]
         /\ estim_read'[g] = estim_read[g]
      /\ estim_read'[f] = Append(estim_read[f], m) /\ estim_read[f] \in Seq(N!Messages)
      /\ \A k \in {N!Acc, N!Gyro} : estim_measure'[f][k] =
           N!Convert(estim_measure[f][k], N!Extracted(N!Numbers(m), beyond)[k])
      /\ DOMAIN estim_measure' = N!Filters
  BY <1>2, <1>3, <1>4
<1>6. Append(estim_read[f], m) \in Seq(N!Messages) /\ estim_read' \in [N!Filters -> Seq(N!Messages)]
  <2>1. Append(estim_read[f], m) \in Seq(N!Messages)
    BY <1>1, <1>5
  <2>2. QED
    BY <1>3, <1>4, <2>1
<1>7. N!Followed' <= estim_MaxMessages
  <2>1. /\ Len(estim_read["DirectFiltering"]) \in Nat /\ Len(estim_read["QuaternionEKF"]) \in Nat
        /\ Len(estim_read[f]) \in Nat /\ Len(estim_read'[f]) = Len(estim_read[f]) + 1
    BY <1>1, <1>4, <1>5 DEF N!Filters
  <2> DEFINE one == Len(estim_read["DirectFiltering"])
             other == Len(estim_read["QuaternionEKF"])
  <2>2. N!Followed = one + other
    BY DEF N!Followed
  <2>3. one \in Nat /\ other \in Nat
    BY <2>1
  <2>4. N!Followed' = (one + 1) + other \/ N!Followed' = one + (other + 1)
    <3>1. N!Followed' = Len(estim_read'["DirectFiltering"]) + Len(estim_read'["QuaternionEKF"])
      BY DEF N!Followed
    <3>2. CASE f = "DirectFiltering"
      <4>1. estim_read'["QuaternionEKF"] = estim_read["QuaternionEKF"]
        BY <1>5, <3>2 DEF N!Filters
      <4>2. QED
        BY <3>1, <3>2, <4>1, <2>1
    <3>3. CASE f = "QuaternionEKF"
      <4>1. estim_read'["DirectFiltering"] = estim_read["DirectFiltering"]
        BY <1>5, <3>3 DEF N!Filters
      <4>2. QED
        BY <3>1, <3>3, <4>1, <2>1
    <3>4. QED
      BY <3>2, <3>3 DEF N!Filters
  <2> HIDE DEF one, other
  <2>5. N!Followed' = N!Followed + 1 /\ N!Followed \in Nat
    BY <2>2, <2>3, <2>4
  <2>6. QED
    BY <2>5, EstimatorsAssumption
<1>8. ASSUME NEW g \in N!Filters, \A n \in DOMAIN estim_read'[g] : ~N!Clashes(estim_read'[g][n]), NEW k \in {N!Acc, N!Gyro}
      PROVE  estim_measure'[g][k] = N!SentBy(estim_read'[g], k)
  <2>1. CASE g # f
    BY <2>1, <1>5, <1>8 DEF N!UsesWhatWasSent
  <2>2. CASE g = f
    <3> DEFINE s == estim_read[f]
               old == estim_measure[f][k]
               new == N!Extracted(N!Numbers(m), beyond)[k]
    <3>1. s \in Seq(N!Messages) /\ estim_read'[g] = Append(s, m)
        /\ estim_measure'[g][k] = N!Convert(old, new)
      BY <1>5, <2>2
    <3>2. old = N!SentBy(s, k) /\ ~N!Clashes(m)
      <4>1. /\ DOMAIN s = 1..Len(s) /\ DOMAIN Append(s, m) = 1..(Len(s) + 1) /\ Len(s) \in Nat
            /\ \A n \in 1..Len(s) : Append(s, m)[n] = s[n]
            /\ Append(s, m)[Len(s) + 1] = m
        BY <3>1, <1>1
      <4> HIDE DEF s
      <4>2. Len(s) + 1 \in 1..(Len(s) + 1) /\ \A n \in 1..Len(s) : n \in 1..(Len(s) + 1)
        BY <4>1
      <4>3. \A n \in 1..(Len(s) + 1) : ~N!Clashes(Append(s, m)[n])
        BY <1>8, <3>1, <4>1
      <4>4. ~N!Clashes(m) /\ \A n \in DOMAIN s : ~N!Clashes(s[n])
        BY <4>1, <4>2, <4>3
      <4>5. QED
        BY <4>4 DEF N!UsesWhatWasSent, s
    <3> HIDE DEF s, old, new
    <3>3. new = IF N!Of(m, k) = {} THEN <<>> ELSE LastThree(m[N!Max(N!Of(m, k))])
      BY <1>1, <3>2, ExtractedIs DEF new
    <3>4. N!SentBy(Append(s, m), k) = N!Convert(N!SentBy(s, k), new)
      BY <1>1, <3>1, <3>3, SentByStep
    <3>5. QED
      BY <3>1, <3>2, <3>4
  <2>3. QED
    BY <2>1, <2>2
<1>9. QED
  BY <1>5, <1>6, <1>7, <1>8 DEF N!UsesWhatWasSent

\* The turn of a filter, once its message has come.
LEMMA EstimRunFilter == ASSUME NEW f \in N!Filters PROVE EstimKept /\ N!RunFilter(f) => EstimKept'
<1> SUFFICES ASSUME EstimKept, N!RunFilter(f) PROVE EstimKept'
  OBVIOUS
<1> USE DEF EstimKept
<1>1. /\ N!Runs(f) /\ N!RunNext /\ UNCHANGED <<estim_config, estim_phase, estim_open>>
      /\ estim_mailbox' = [estim_mailbox EXCEPT ![f] = <<>>]
  BY DEF N!RunFilter
<1>2. /\ N!UsesWhatWasSent' /\ (N!Followed <= estim_MaxMessages)'
      /\ (estim_read \in [N!Filters -> Seq(N!Messages)])' /\ (DOMAIN estim_measure = N!Filters)'
  <2>1. CASE N!Followed < estim_MaxMessages
    BY <2>1, FilterReads
  <2>2. CASE ~(N!Followed < estim_MaxMessages)
    BY <2>2, <1>1, MeasuresStay DEF N!RunFilter
  <2>3. QED
    BY <2>1, <2>2
<1>3. estim_mailbox' \in [N!Filters -> {<<>>} \cup {<<n>> : n \in N!Messages}]
  BY <1>1 DEF EstimShapes
<1>4. \A g \in N!Filters : estim_mailbox'[g] = <<>> \/ estim_mailbox'[g][1] \in N!Messages
  BY <1>3
<1>5. (\A p \in estim_open : p[1] \in N!Known)' /\ (estim_config \in estim_Configs)'
    /\ N!Config(estim_config)'
  BY <1>1 DEF N!TypeOK, EstimShapes, N!Config
<1>6. N!TypeOK'
  <2>1. estim_phase' \in {"created", "starting", "refused", "crashed", "running", "stopping", "closed"}
    BY <1>1 DEF N!TypeOK
  <2>2. QED
    BY <1>1, <1>2, <1>4, <1>5, <2>1, TurnIsGiven DEF N!TypeOK
<1>7. QED
  BY <1>1, <1>2, <1>3, <1>5, <1>6, TurnIsGiven DEF EstimShapes

\* Every step keeps the invariant.
LEMMA EstimNext == EstimKept /\ [N!Next]_(N!estimatorVars) => EstimKept'
<1> SUFFICES ASSUME EstimKept, [N!Next]_(N!estimatorVars) PROVE EstimKept'
  OBVIOUS
<1>1. CASE N!Next
  BY <1>1, EstimStartThread, EstimInitEstimator, EstimStarted, EstimMessage, EstimRunBegins,
     EstimRunOdometry, EstimRunFilter, EstimStop, EstimRelease DEF N!Next, N!Thread
<1>2. CASE UNCHANGED N!estimatorVars
  BY <1>2, EstimStutters
<1>3. QED
  BY <1>1, <1>2

\* In every state: the parts of the invariant.
THEOREM EstimAlways == N!Spec => []EstimKept
<1>1. QED
  BY EstimInit, EstimNext, PTL DEF N!Spec

\* A behaviour of all the components is one of WholeBodyEstimator, which takes its steps or none.
LEMMA EstimBehaves == AllSpec => N!Spec
<1>1. AllInit => N!Init
  BY DEF AllInit
<1>2. [AllNext]_allVars => [N!Next]_(N!estimatorVars)
  BY DEF AllNext, allVars, estimVars, N!estimatorVars, GraspManagerRuns, CoordinatorRuns,
         JointSplitRuns, WalkPlayerRuns, BalancingModuleRuns, ReferencesGeneratorRuns,
         GridMappingRuns, WholeBodyEstimatorRuns
<1>3. QED
  BY <1>1, <1>2, PTL DEF AllSpec, N!Spec

--------------------------------------------------------------------------------
(* Together *)

\* The grasp keeps at home what is not in use: the other arm, the hands outside of a grasp, the whole
\* robot when idle or disabled; the breathers never run while an arm follows a target.
THEOREM GraspIsSafeHolds == AllSpec => []GraspIsSafe
<1>1. AllSpec => []GraspKept
  BY GraspBehaves, GraspAlways, PTL
<1>2. GraspKept => GraspIsSafe
  <2>1. GraspKept => G!TypeOK /\ G!OtherArmAtHome /\ G!ClosedOnlyToRelease /\ G!HomeWhenIdle
      /\ G!BreathesOnlyAtRest
    BY DEF GraspKept, Good, AtHome, G!TypeOK, G!OtherArmAtHome, G!ClosedOnlyToRelease,
       G!HomeWhenIdle,
       G!BreathesOnlyAtRest
  <2>2. QED
    BY <2>1 DEF GraspIsSafe
<1>3. QED
  BY <1>1, <1>2, PTL

\* A lifted foot carries no desired force, closing leaves the robot as it was found, and an answered
\* command has set its gain, with the exceptions that BalancingModule names.
THEOREM BalancingIsSafeHolds == AllSpec => []BalancingIsSafe
<1>1. AllSpec => []BalancingKept
  BY BalancingBehaves, BalancingAlways, PTL
<1>2. BalancingKept => BalancingIsSafe
  <2>1. BalancingKept => B!TypeOK /\ B!LiftedFootIsUnloaded /\ B!ClosedAtRest /\ B!SetGainIsUsed
    BY DEF BalancingKept
  <2>2. QED
    BY <2>1 DEF BalancingIsSafe
<1>3. QED
  BY <1>1, <1>2, PTL

\* What is measured for is what the robot does: positions are used along a row and at rest, and the
\* estimators use what the board sent, whatever the order in which they are listed.
THEOREM MeasuresAreUsableHolds == AllSpec => []MeasuresAreUsable
<1>1. AllSpec => []GridKept
  BY GridBehaves, GridAlways, PTL
<1>2. AllSpec => []EstimKept
  BY EstimBehaves, EstimAlways, PTL
<1>3. ASSUME GridKept,
            EstimKept
      PROVE  MeasuresAreUsable
  <2>1. GridKept => M!TypeOK /\ M!FittingAlongARow /\ M!ReturnsToTheCentre /\ M!RowsWithinAStep
      /\ M!WaitsOnlyAtRest
    BY GridIsRight DEF GridKept
  <2>2. EstimKept => N!TypeOK /\ N!StartsInAnyOrder /\ N!UsesWhatWasSent /\ N!NoPortIsLeft
    BY DEF EstimKept
  <2>3. QED
    BY <1>3, <2>1, <2>2 DEF MeasuresAreUsable
<1>4. QED
  BY <1>1, <1>2, <1>3, PTL
================================================================================
