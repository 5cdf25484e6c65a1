--------------------------- MODULE JointTorqueControl --------------------------
(***************************************************************************)
(* The jointTorqueControl device: a control board that forwards everything *)
(* to a remote board (PassThroughControlBoard) except torque control,      *)
(* which it does itself.  A joint asked for torque mode is hijacked: the   *)
(* remote board is put in open loop and a periodic thread closes the       *)
(* torque loop on it.                                                      *)
(*                                                                         *)
(* Clients are the threads that serve the ports of the device.  Nobody     *)
(* waits while holding globalMutex except the periodic thread, so a        *)
(* client's locked section is one step, taken when the mutex is free.      *)
(* `LockGuard(this->globalMutex);' makes a temporary: the methods that say *)
(* so wait for the mutex and release it before they touch the data.        *)
(*                                                                         *)
(* A reference is known by the session of its joint in which it was        *)
(* written; a session starts each time the joint is hijacked.              *)
(***************************************************************************)
EXTENDS Integers

CONSTANTS
  Clients,        \* threads that call the device
  WholeCallers,   \* those that switch the whole board, setTorqueMode() and alike
  PidsCallers,    \* those that call setTorquePids
  Joints,         \* the axes of the board
  Coupled,        \* the joints whose terms the coupling matrices mix into the output of each
  Requests,       \* modes asked for some joints at once: functions to Modes
  OtherClients,   \* does anybody command the remote board directly?
  MaxCalls,       \* bound: the calls made in a behaviour
  MaxForeign      \* bound: the direct commands, the refusals and the measures that are
                  \* not numbers in a behaviour

Modes == {"position", "openloop", "torque"}
Interfaces == {"encoders", "position", "velocity", "mode", "torque", "openloop", "limits",
               "interaction", "axis", "pid"}

\* PassThroughControlBoard::open: the interfaces it views if the remote board can be opened
OpenViews == Interfaces \ {"pid"}

ASSUME ClientsAssumption ==
  /\ WholeCallers \cup PidsCallers \subseteq Clients
  /\ {"thread", "free"} \cap Clients = {}
\* The matrices are invertible: none of their rows is zero
ASSUME CoupledAssumption == Coupled \in [Joints -> (SUBSET Joints) \ {{}}]
ASSUME RequestsAssumption ==
  \A r \in Requests : DOMAIN r \subseteq Joints /\ r \in [DOMAIN r -> Modes]
ASSUME BoundsAssumption ==
  MaxCalls \in Nat /\ MaxForeign \in Nat /\ OtherClients \in BOOLEAN

\* The torque loop of one joint, before it is mixed with others: the session its reference
\* was written in, and those of the references whose errors its integral has summed
Terms == [joint : Joints, reference : Nat, summed : SUBSET Nat]

\* setTorqueMode(), setPositionMode() ask one mode for all the axes
Whole(mode) == [j \in Joints |-> mode]
Calls == [kind : {"modes", "whole"}, modes : Requests \cup {Whole(m) : m \in Modes}]
         \cup [kind : {"refs"}, joints : SUBSET Joints]
         \cup [kind : {"pid", "pids", "forward"}]

VARIABLES
  streaming, \* streamingOutput: stream the output, hijack nothing
  views,     \* the interfaces open got from the remote board
  mutex,     \* the thread that holds globalMutex, or "free"
  hijacking, \* hijackingTorqueControl
  board,     \* the control modes of the remote board
  buffer,    \* controlModesBuffer
  session,   \* how many times each joint has been hijacked
  desired,   \* desiredJointTorques: the session each reference was written in
  run,       \* where the periodic thread is
  integral,  \* integralState: the sessions of the references whose errors it has summed
  nan,       \* has a measure not been a number? "kept" if it got into the integral
  computed,  \* jointControlOutput: the terms mixed into each output, none for a zero
  output,    \* the last output sent to each joint of the board, none at first
  asked,     \* the mode last asked for each joint through the device
  foreign,   \* joints whose mode somebody else set, or the board refused to set
  pc, call,  \* where each client is, and what it calls
  answer,    \* what the last call forwarded to the remote board returned
  calls,     \* calls made so far
  disturbed  \* direct commands, refusals and measures that were not numbers so far

ghosts == <<asked, foreign>>
clientVars == <<pc, call, answer, calls>>
loop == <<integral, nan>>
threadVars == <<run, loop, computed, output>>
config == <<streaming, views>>
vars == <<config, mutex, hijacking, board, buffer, session, desired, threadVars,
          ghosts, clientVars, disturbed>>

TypeOK ==
  /\ streaming \in BOOLEAN /\ views \in SUBSET Interfaces
  /\ mutex \in Clients \cup {"thread", "free"}
  /\ hijacking \in [Joints -> BOOLEAN]
  /\ board \in [Joints -> Modes]
  /\ buffer \in [Joints -> Modes]
  /\ session \in [Joints -> Nat]
  /\ desired \in [Joints -> Nat]
  /\ run \in {"asleep", "compute", "send"}
  /\ integral \in [Joints -> SUBSET Nat]
  /\ nan \in {"never", "once", "kept"}
  /\ computed \in [Joints -> SUBSET Terms]
  /\ output \in [Joints -> SUBSET Terms]
  /\ asked \in [Joints -> Modes]
  /\ foreign \in SUBSET Joints
  /\ pc \in [Clients -> {"idle", "fill", "wait", "write", "stuck"}]
  /\ call \in [Clients -> Calls]
  /\ answer \in BOOLEAN
  /\ calls \in 0..MaxCalls
  /\ disturbed \in 0..MaxForeign

\* open() has returned.  It ignores whether the remote board answered; without it
\* the number of axes is whatever was in memory, and loadGains accepts only the right one
Init ==
  /\ streaming \in BOOLEAN /\ views \in {{}, OpenViews}
  /\ mutex = "free"
  /\ hijacking = [j \in Joints |-> FALSE]
  /\ board = Whole("position")
  /\ buffer = Whole("position")
  /\ session = [j \in Joints |-> 0]
  /\ desired = [j \in Joints |-> 0]
  /\ run = "asleep"
  /\ integral = [j \in Joints |-> {}]
  /\ nan = "never"
  /\ computed = [j \in Joints |-> {}]
  /\ output = [j \in Joints |-> {}]
  /\ asked = Whole("position")
  /\ foreign = {}
  /\ pc = [c \in Clients |-> "idle"]
  /\ call = [c \in Clients |-> [kind |-> "forward"]]
  /\ answer = FALSE
  /\ calls = 0
  /\ disturbed = 0

--------------------------------------------------------------------------------
(* The control modes *)

\* getControlMode(j), and getControlModes for joint j
ModeOf(j) == IF hijacking[j] THEN "torque" ELSE board[j]
ModesOf(j) == IF hijacking[j] /\ board[j] = "openloop" THEN "torque" ELSE board[j]

\* what the remote board is told
Forwarded(mode) == IF mode = "torque" THEN "openloop" ELSE mode

\* start/stopHijackingTorqueControlIfNecessary: a joint that was not hijacked starts
\* from the torque measured, which counts as a reference of the new session.
\* Wrong variant: it starts from the reference it had
HijackFrom(modes, reference) ==
  /\ hijacking' = [j \in Joints |-> IF j \in DOMAIN modes THEN modes[j] = "torque"
                                    ELSE hijacking[j]]
  /\ session' = [j \in Joints |-> IF hijacking'[j] /\ ~hijacking[j]
                                  THEN session[j] + 1 ELSE session[j]]
  /\ desired' = [j \in Joints |-> IF hijacking'[j] /\ ~hijacking[j]
                                  THEN reference[j] ELSE desired[j]]
HijackKeepsReference(modes) == HijackFrom(modes, desired)
Hijack(modes) == HijackFrom(modes, [j \in Joints |-> session[j] + 1])

\* the remote board takes the modes, or refuses them all
Remote(modes, wanted) ==
  \/ /\ board' = [j \in Joints |-> IF j \in DOMAIN modes THEN Forwarded(modes[j]) ELSE board[j]]
     /\ asked' = [j \in Joints |-> IF j \in DOMAIN wanted THEN wanted[j] ELSE asked[j]]
     /\ foreign' = foreign \ DOMAIN modes
     /\ answer' = TRUE
     /\ UNCHANGED disturbed
  \/ /\ disturbed < MaxForeign
     /\ disturbed' = disturbed + 1
     /\ foreign' = foreign \cup DOMAIN modes
     /\ answer' = FALSE
     /\ UNCHANGED <<board, asked>>

--------------------------------------------------------------------------------
(* The calls of the clients *)

Call(c) ==
  /\ pc[c] = "idle"
  /\ calls < MaxCalls
  /\ calls' = calls + 1
  /\ \/ \E modes \in Requests : call' = [call EXCEPT ![c] = [kind |-> "modes", modes |-> modes]]
     \/ /\ c \in WholeCallers
        /\ \E mode \in {"torque", "position"} :
             call' = [call EXCEPT ![c] = [kind |-> "whole", modes |-> Whole(mode)]]
     \/ \E js \in (SUBSET Joints) \ {{}} : call' = [call EXCEPT ![c] = [kind |-> "refs", joints |-> js]]
     \/ \E kind \in {"pid", "forward"} : call' = [call EXCEPT ![c] = [kind |-> kind]]
     \/ c \in PidsCallers /\ call' = [call EXCEPT ![c] = [kind |-> "pids"]]
  /\ pc' = [pc EXCEPT ![c] = IF call'[c].kind = "whole" THEN "fill" ELSE "wait"]
  /\ UNCHANGED <<config, mutex, hijacking, board, buffer, session, desired, threadVars,
                 ghosts, answer, disturbed>>

Return(c) == pc' = [pc EXCEPT ![c] = "idle"] /\ UNCHANGED <<call, calls>>

\* setTorqueMode(), setPositionMode(), setVelocityMode(): the buffer is written
\* before setControlModes takes the mutex
Fill(c) ==
  /\ pc[c] = "fill"
  /\ pc' = [pc EXCEPT ![c] = "wait"]
  /\ buffer' = call[c].modes
  /\ UNCHANGED <<config, mutex, hijacking, board, session, desired, threadVars, ghosts,
                 call, answer, calls, disturbed>>

\* setControlMode, setControlModes: `torque' becomes `openloop' in the caller's own
\* array, which is the buffer when the whole board is switched.
\* Wrong variant: a joint that leaves torque mode stays hijacked
SetControlModesWhen(c, modes, hijack) ==
  /\ pc[c] = "wait" /\ call[c].kind \in {"modes", "whole"}
  /\ mutex = "free"
  /\ Return(c)
  /\ IF "mode" \in views /\ ~streaming
     THEN /\ hijack
          /\ Remote(modes, call[c].modes)
          /\ buffer' = IF call[c].kind = "whole" THEN [j \in Joints |-> Forwarded(buffer[j])] ELSE buffer
     ELSE UNCHANGED <<hijacking, session, desired, board, ghosts, buffer, answer, disturbed>>
  /\ UNCHANGED <<config, mutex, threadVars>>
Asked(c) == IF call[c].kind = "whole" THEN buffer ELSE call[c].modes
SetControlModesStaysHijacked(c) ==
  SetControlModesWhen(c, Asked(c),
                      Hijack([j \in DOMAIN Asked(c) |-> IF hijacking[j] THEN "torque" ELSE Asked(c)[j]]))
SetControlModes(c) == SetControlModesWhen(c, Asked(c), Hijack(Asked(c)))

\* setRefTorque(s): the lock is only waited for, the references are written one by one without it
StartRefs(c) ==
  /\ pc[c] = "wait" /\ call[c].kind = "refs"
  /\ mutex = "free"
  /\ pc' = [pc EXCEPT ![c] = "write"]
  /\ UNCHANGED <<config, mutex, hijacking, board, buffer, session, desired, threadVars, ghosts,
                 call, answer, calls, disturbed>>
WriteRef(c, j) ==
  /\ pc[c] = "write" /\ j \in call[c].joints
  /\ desired' = [desired EXCEPT ![j] = session[j]]
  /\ call' = [call EXCEPT ![c].joints = @ \ {j}]
  /\ pc' = [pc EXCEPT ![c] = IF call'[c].joints = {} THEN "idle" ELSE "write"]
  /\ UNCHANGED <<config, mutex, hijacking, board, buffer, session, threadVars, ghosts, answer,
                 calls, disturbed>>

\* setTorquePid, setBemfParam and the getters of the torque interface: they wait for the
\* mutex, and read or write one parameter of one joint without it.
\* Wrong variant: the mutex is taken and not given back
LockOnlyKeeps(c) ==
  /\ pc[c] = "wait" /\ call[c].kind = "pid"
  /\ mutex = "free" /\ mutex' = c
  /\ Return(c)
  /\ UNCHANGED <<config, hijacking, board, buffer, session, desired, threadVars, ghosts, answer, disturbed>>
LockOnly(c) ==
  /\ pc[c] = "wait" /\ call[c].kind = "pid"
  /\ mutex = "free"
  /\ Return(c)
  /\ UNCHANGED <<config, mutex, hijacking, board, buffer, session, desired, threadVars, ghosts,
                 answer, disturbed>>

\* setTorquePids holds the mutex and calls setTorquePid, which waits for it
SetTorquePids(c) ==
  /\ pc[c] = "wait" /\ call[c].kind = "pids"
  /\ mutex = "free"
  /\ mutex' = c
  /\ pc' = [pc EXCEPT ![c] = "stuck"]
  /\ UNCHANGED <<config, hijacking, board, buffer, session, desired, threadVars, ghosts,
                 call, answer, calls, disturbed>>

\* Every other method is the remote board's, and takes no lock: false without the
\* interface, and what the board answers with it
Through(interface, reply) == interface \in views /\ reply
Encoders(reply) == Through("encoders", reply)
PositionControl(reply) == Through("position", reply)
PositionStop(reply) == Through("position", reply)
VelocityControl(reply) == Through("velocity", reply)
TorqueErrors(reply) == Through("torque", reply)
ControlLimits(reply) == Through("limits", reply)
InteractionMode(reply) == Through("interaction", reply)
AxisInfo(reply) == Through("axis", reply)
PidControl(reply) == Through("pid", reply)
Forward(c) ==
  /\ pc[c] = "wait" /\ call[c].kind = "forward"
  /\ Return(c)
  /\ \E reply \in BOOLEAN :
       answer' \in {Encoders(reply), PositionControl(reply), PositionStop(reply), VelocityControl(reply),
                   TorqueErrors(reply), ControlLimits(reply), InteractionMode(reply), AxisInfo(reply),
                   PidControl(reply)}
  /\ UNCHANGED <<config, mutex, hijacking, board, buffer, session, desired, threadVars, ghosts, disturbed>>

--------------------------------------------------------------------------------
(* The periodic thread, and whoever else commands the remote board *)

\* run(), up to the computation: nothing to do unless a joint is hijacked.
\* When streaming, new references may have come.  Wrong variant: the lock is not taken
RunBeginWith(unlocked, owner) ==
  /\ run = "asleep"
  /\ unlocked
  /\ streaming \/ \E j \in Joints : hijacking[j]
  /\ mutex' = owner
  /\ run' = "compute"
  /\ \/ UNCHANGED desired
     \/ streaming /\ \E js \in SUBSET Joints :
          desired' = [j \in Joints |-> IF j \in js THEN session[j] ELSE desired[j]]
  /\ UNCHANGED <<config, hijacking, board, buffer, session, loop, computed, output, ghosts, clientVars,
                 disturbed>>
RunBeginUnlocked == RunBeginWith(TRUE, mutex)
RunBegin == RunBeginWith(mutex = "free", "thread")

\* computeOutputMotorTorques: the integral of every joint goes on from whatever it is,
\* hijacked or not; nothing resets it.  The coupling matrices then mix the joints, so what
\* is not a number in one joint makes all the outputs zero: this once if it is a velocity,
\* from now on if it is a torque, which gets into the integral past the saturation
Summed(k) == integral[k] \cup {desired[k]}
Term(k) == [joint |-> k, reference |-> desired[k], summed |-> Summed(k)]
Mixed(j) == {Term(k) : k \in Coupled[j]}

Compute ==
  /\ run = "compute"
  /\ run' = "send"
  /\ integral' = [k \in Joints |-> Summed(k)]
  /\ \/ /\ computed' = [j \in Joints |-> IF nan = "kept" THEN {} ELSE Mixed(j)]
        /\ UNCHANGED <<nan, disturbed>>
     \/ /\ disturbed < MaxForeign
        /\ disturbed' = disturbed + 1
        /\ computed' = [j \in Joints |-> {}]
        /\ nan' \in {"kept"} \cup (IF nan = "kept" THEN {} ELSE {"once"})
  /\ UNCHANGED <<config, mutex, hijacking, board, buffer, session, desired, output, ghosts,
                 clientVars>>

\* setRefOutput(s), for the hijacked joints.  Wrong variant: to no joint
SendTo(joints, owner) ==
  /\ run = "send"
  /\ run' = "asleep"
  /\ mutex' = owner
  /\ output' = [j \in Joints |-> IF ~streaming /\ j \in joints THEN computed[j] ELSE output[j]]
  /\ UNCHANGED <<config, hijacking, board, buffer, session, desired, loop, computed, ghosts, clientVars,
                 disturbed>>
Unlocked == IF mutex = "thread" THEN "free" ELSE mutex
SendToNone == SendTo({}, Unlocked)
Send == SendTo({j \in Joints : hijacking[j]}, Unlocked)

\* somebody sets the mode of a joint on the remote board itself
SetDirectly(j) ==
  /\ OtherClients /\ disturbed < MaxForeign
  /\ disturbed' = disturbed + 1
  /\ board' = [board EXCEPT ![j] = "position"]
  /\ foreign' = foreign \cup {j}
  /\ UNCHANGED <<config, mutex, hijacking, buffer, session, desired, threadVars, asked, clientVars>>

Step(c) ==
  \/ Fill(c) \/ SetControlModes(c) \/ StartRefs(c) \/ (\E j \in Joints : WriteRef(c, j))
  \/ LockOnly(c) \/ SetTorquePids(c) \/ Forward(c)

Next ==
  \/ \E c \in Clients : Call(c) \/ Step(c)
  \/ RunBegin \/ Compute \/ Send
  \/ \E j \in Joints : SetDirectly(j)

Spec == Init /\ [][Next]_vars

\* The thread runs every 10 ms and sleeps in between, so a client that waits for the
\* mutex gets it; nothing makes a client call, or anybody command the remote board
FairSpec ==
  /\ Spec
  /\ SF_vars(RunBegin) /\ WF_vars(Compute) /\ WF_vars(Send)
  /\ \A c \in Clients : SF_vars(Step(c))

--------------------------------------------------------------------------------
(* Properties *)

\* When no joint is being switched, the two getters answer the mode last asked through
\* the device for a joint that nobody else touched (JointTorqueControl.cpp:359-449)
ReportsTheAskedMode ==
  mutex = "free" /\ "mode" \in views /\ ~streaming =>
    \A j \in Joints \ foreign : ModeOf(j) = asked[j] /\ ModesOf(j) = asked[j]

\* A hijacked joint never follows a reference left from before it was hijacked:
\* startHijackingTorqueControlIfNecessary starts from the measured torque (50-57)
DiscardsOldReferences == \A j \in Joints : hijacking[j] => desired[j] = session[j]

\* The thread drives a joint of the board only while it is hijacked, whatever the clients
\* switch meanwhile, and with the terms of just the joints that the matrices couple with it:
\* each follows the reference of the last session of its joint, hijacked still or not.
\* Only what the integrals have summed may come from earlier sessions; and the output is
\* zero instead only once a measure has not been a number (824-948)
DrivesOnlyTheHijacked ==
  [][\A j \in Joints : output'[j] # output[j] =>
       /\ hijacking[j]
       /\ IF output'[j] = {} THEN nan # "never"
          ELSE {t.joint : t \in output'[j]} = Coupled[j]
       /\ \A t \in output'[j] : /\ t.reference = session[t.joint]
                               /\ t.summed \subseteq 0..session[t.joint]]_vars

\* A call returns, unless somebody has called setTorquePids (685-696)
Stuck == \E c \in Clients : pc[c] = "stuck"
CallsReturn == \A c \in Clients : pc[c] # "idle" ~> (pc[c] = "idle" \/ Stuck)

\* A joint switched to torque mode gets an output that follows its reference of that
\* session, unless it is switched back first, somebody has called setTorquePids, or the
\* integral of some joint is no longer a number
Follows(j) == \E t \in output[j] : t.joint = j /\ t.reference = session[j]
TorqueReachesTheBoard ==
  \A j \in Joints : hijacking[j] ~> (~hijacking[j] \/ Follows(j) \/ Stuck \/ nan = "kept")

\* What the device owes its clients: an answer to each call (359-696), and an output on
\* the board for the references they set (892-948)
AnswersAndDrives == CallsReturn /\ TorqueReachesTheBoard

================================================================================
