---------------------------- MODULE BalancingModule ----------------------------
(***************************************************************************)
(* torqueBalancing around its control loop: configure and close, the       *)
(* contacts that messages add and remove, the gains that commands set and  *)
(* the torque gains of the boards. The switch of the controllers, which    *)
(* TorqueBalancing models step by step, is one step here.                  *)
(*                                                                         *)
(* Four threads: the main one, those of the RPC and of the constraints     *)
(* port, which serve from the middle of configure on, and the controller.  *)
(***************************************************************************)
EXTENDS Naturals, FiniteSets

CONSTANTS
  Feet,         \* the links that can be a constraint
  Threshold,    \* TORQUEBALANCING_STATEACTIVE_THRESHOLD, in steps of the transition
  FullWeight,   \* the steps of the transition; both are natural numbers
  MaxCommands   \* bound: the commands and messages in a behaviour

\* what configure has done, and what close and cleanup have undone
Making == <<"created", "helper", "rpc", "constraints port", "robot", "generators", "controller",
            "commands", "constraints", "threads", "ready">>
Undoing == <<"deactivated", "restored", "helper deleted", "rpc closed", "constraints closed",
             "events closed", "controller deleted", "generators deleted", "generators cleared", "done">>
Phases == {Making[i] : i \in 1..11} \cup {Undoing[i] : i \in 1..10} \cup {"failed"}
After(list, n, p) == {list[i] : i \in {k \in 1..n : \E j \in 1..k : list[j] = p}}
Made(p) == After(Making, 11, p)
Undone(p) == After(Undoing, 10, p)

VARIABLES
  phase,
  plan,        \* the step of configure that fails, or 0; whether torque gains are configured
  quit,        \* the module is asked to stop
  served,      \* commands and messages so far
  late,        \* was one of them served while the module closes?
  active,      \* m_active and the state of the controllers
  boards,      \* the torque gains of the boards
  gain, linked,\* the gain of the generator, and its copy that the parameter server writes
  asked,       \* the gain that the last answered command asked for
  setting,     \* the command to set it has written linked and not yet called back
  overlapped,  \* did syncLinkedVariables write linked meanwhile?
  synced,      \* what syncLinkedVariables has read, and not yet written
  constraints, \* m_activeConstraints: the feet, those asked to hold, and their weight
  forces,      \* the feet with desired forces
  misuse       \* what was used before it was made, or after

moduleVars == <<phase, plan, quit, served, late, active, boards, gain, linked, asked, setting,
                overlapped, synced, constraints, forces, misuse>>
gains == <<gain, linked, asked, setting, overlapped, synced>>
control == <<constraints, forces>>

Gains == {"default", "user"}
Keys == {"initial", "loaded"}
Empty == [feet |-> {}, held |-> {}, weight |-> [f \in Feet |-> 0]]

TypeOK ==
  /\ phase \in Phases
  /\ plan \in [fails : 0..10, pids : BOOLEAN, feet : SUBSET Feet]
  /\ quit \in BOOLEAN /\ late \in BOOLEAN /\ active \in BOOLEAN
  /\ served \in 0..MaxCommands
  /\ boards \in Keys
  /\ gain \in Gains /\ linked \in Gains /\ asked \in Gains
  /\ setting \in BOOLEAN /\ overlapped \in BOOLEAN
  /\ synced \in Gains \cup {"nothing"}
  /\ constraints \in [feet : SUBSET Feet, held : SUBSET Feet, weight : [Feet -> 0..FullWeight]]
  /\ forces \subseteq constraints.feet
  /\ misuse \subseteq {"helper", "controller", "events", "generators"}

Init ==
  /\ phase = "created"
  /\ plan \in [fails : {0, 9, 10}, pids : BOOLEAN, feet : SUBSET Feet]
  /\ quit = FALSE /\ late = FALSE /\ active = FALSE
  /\ served = 0
  /\ boards = "initial"
  /\ gain = "default" /\ linked = "default" /\ asked = "default"
  /\ setting = FALSE /\ overlapped = FALSE /\ synced = "nothing"
  /\ constraints = Empty
  /\ forces = {}
  /\ misuse = {}

--------------------------------------------------------------------------------
(* configure *)

\* without a configured list the two feet; links that are not feet are left out, and one is needed
InitialConstraints ==
  [feet |-> plan.feet, held |-> plan.feet,
   weight |-> [f \in Feet |-> IF f \in plan.feet THEN FullWeight ELSE 0]]

\* the last step switches the boards to the gains read from file, before it answers that the
\* threads have started
Configure ==
  \E i \in 1..10 :
    /\ phase = Making[i]
    /\ LET fails == i = plan.fails \/ (Making[i + 1] = "constraints" /\ plan.feet = {})
       IN  phase' = IF fails THEN "failed" ELSE Making[i + 1]
    /\ constraints' = IF Making[i + 1] = "constraints" THEN InitialConstraints ELSE constraints
    /\ boards' = IF i = 10 /\ plan.pids THEN "loaded" ELSE boards
    /\ UNCHANGED <<plan, quit, served, late, active, gains, forces, misuse>>

--------------------------------------------------------------------------------
(* The other threads. *)

Serve == served < MaxCommands /\ served' = served + 1 /\ late' = (late \/ phase \in Undone("deactivated"))

\* the RPC port serves until it is closed, after the helper that processes its commands is deleted
Serving == phase \in Made("rpc") \cup {"deactivated", "restored", "helper deleted"}
Commands == phase \in Made("commands") \cup {"deactivated", "restored"}

CommandAfterHelper ==
  /\ phase = "helper deleted" /\ Serve
  /\ misuse' = misuse \cup {"helper"}
  /\ UNCHANGED <<phase, plan, quit, active, boards, gains, control>>

\* start, stop
Switch(state) ==
  /\ Commands /\ Serve
  /\ active' = state
  /\ UNCHANGED <<phase, plan, quit, boards, gains, control, misuse>>

Quit ==
  /\ Commands /\ Serve
  /\ quit' = TRUE
  /\ UNCHANGED <<phase, plan, active, boards, gains, control, misuse>>

\* torque_gains_switch: the keys in memory are those loaded after the robot is ready
SwitchGains(key) ==
  /\ Serving /\ phase # "helper deleted" /\ Serve
  /\ boards' = IF plan.pids /\ phase \notin {"rpc", "constraints port"} THEN key ELSE boards
  /\ UNCHANGED <<phase, plan, quit, active, gains, control, misuse>>

\* the server writes the linked variable, then parameterUpdated hands it to the generator
SetParam(g) ==
  /\ Commands /\ Serve /\ ~setting
  /\ linked' = g /\ asked' = g
  /\ setting' = TRUE /\ overlapped' = (synced # "nothing")
  /\ UNCHANGED <<phase, plan, quit, active, boards, gain, synced, control, misuse>>

ParameterUpdatedWith(g) ==
  /\ Serving /\ phase # "helper deleted" /\ setting
  /\ gain' = g
  /\ setting' = FALSE
  /\ UNCHANGED <<phase, plan, quit, served, late, active, boards, linked, asked, overlapped, synced,
                 control, misuse>>
(* variant: the callback does not know the parameter *)
ParameterUpdatedKeeps == ParameterUpdatedWith(gain)
ParameterUpdated == ParameterUpdatedWith(linked)

(* variant: start makes the controller *)
ControllerMadeByStart == active
ControllerMade == phase \notin {"constraints port", "robot", "generators"}

\* onRead of the constraints port: a link that is not in the set is ignored
Constrain(f, holds) ==
  /\ phase \in Made("constraints port") \cup After(Undoing, 4, "deactivated") /\ Serve
  /\ IF ControllerMade
     THEN /\ UNCHANGED misuse
          /\ constraints' = [constraints EXCEPT !.held =
               IF f \notin constraints.feet THEN @ ELSE IF holds THEN @ \cup {f} ELSE @ \ {f}]
     ELSE misuse' = misuse \cup {"controller"} /\ UNCHANGED constraints
  /\ UNCHANGED <<phase, plan, quit, active, boards, gains, forces>>

\* a streamed reference is handed to a generator that the map still holds
Stream ==
  /\ phase = "generators deleted" /\ Serve
  /\ misuse' = misuse \cup {"generators"}
  /\ UNCHANGED <<phase, plan, quit, active, boards, gains, control>>

\* run of the controller: the weights move towards what was asked, a foot counts when its weight
\* has reached the threshold, and the forces of the others are zero. In single support the matrix
\* of the foot is inverted, else the pseudo-inverse is taken.
Running == phase \in Made("threads") \cup After(Undoing, 6, "deactivated") /\ active

Moved(f) == IF f \in constraints.held
            THEN IF constraints.weight[f] < FullWeight THEN constraints.weight[f] + 1 ELSE FullWeight
            ELSE IF constraints.weight[f] > 0 THEN constraints.weight[f] - 1 ELSE 0
(* variants: the weights jump; a foot never loses its weight *)
InterpolatedAtOnce == [f \in Feet |-> IF f \in constraints.held THEN FullWeight ELSE 0]
InterpolatedUp == [f \in Feet |-> IF f \in constraints.held THEN Moved(f) ELSE constraints.weight[f]]
Interpolated == [f \in Feet |-> IF f \in constraints.feet THEN Moved(f) ELSE 0]

Heavy(weight) == {f \in Feet : weight[f] >= Threshold /\ weight[f] > 0}
(* variant: the forces of the last cycle are not cleared in single support *)
ForcesKept(heavy) == IF Cardinality(heavy) = 1 THEN forces \cup heavy ELSE heavy
Forces(heavy) == heavy

Cycle ==
  /\ Running
  /\ constraints' = [constraints EXCEPT !.weight = Interpolated]
  /\ forces' = Forces(Heavy(constraints'.weight))
  /\ UNCHANGED <<phase, plan, quit, served, late, active, boards, gains, misuse>>

\* the robot cannot be read: the controllers stop and the delegate, the module, tells the events port
CycleFails ==
  /\ Running
  /\ active' = FALSE
  /\ misuse' = IF phase = "events closed" THEN misuse \cup {"events"} ELSE misuse
  /\ UNCHANGED <<phase, plan, quit, served, late, boards, gains, control>>

--------------------------------------------------------------------------------
(* updateModule and close *)

SyncBegin ==
  /\ phase = "ready" /\ synced = "nothing"
  /\ synced' = gain
  /\ UNCHANGED <<phase, plan, quit, served, late, active, boards, gain, linked, asked, setting,
                 overlapped, control, misuse>>

SyncEnd ==
  /\ synced # "nothing"
  /\ linked' = synced
  /\ synced' = "nothing"
  /\ overlapped' = (overlapped \/ setting)
  /\ UNCHANGED <<phase, plan, quit, served, late, active, boards, gain, asked, setting, control, misuse>>

Stop ==
  /\ phase = "ready" /\ quit /\ synced = "nothing"
  /\ phase' = "deactivated" /\ active' = FALSE
  /\ UNCHANGED <<plan, quit, served, late, boards, gains, control, misuse>>

\* the destructor cleans up after a configure that failed, and does not restore
(* variant: the torque gains stay *)
RestoredNever == boards
Restored == IF plan.pids THEN "initial" ELSE boards

\* cleanup waits for the command being served when it closes the port
Close ==
  \E i \in 1..9 :
    /\ phase = Undoing[i]
    /\ phase' = Undoing[i + 1]
    /\ phase' = "rpc closed" => ~setting
    /\ boards' = IF i = 1 THEN Restored ELSE boards
    /\ active' = (active /\ phase' \notin Undone("controller deleted"))
    /\ UNCHANGED <<plan, quit, served, late, gains, control, misuse>>

Next ==
  \/ Configure \/ Stop \/ Close \/ SyncBegin \/ SyncEnd
  \/ CommandAfterHelper \/ Quit \/ ParameterUpdated \/ Stream
  \/ \E state \in BOOLEAN : Switch(state)
  \/ \E key \in Keys : SwitchGains(key)
  \/ \E g \in Gains : SetParam(g)
  \/ \E f \in Feet, holds \in BOOLEAN : Constrain(f, holds)
  \/ Cycle \/ CycleFails

Spec == Init /\ [][Next]_moduleVars

\* the controller is a periodic thread
FairSpec == Spec /\ WF_constraints(Cycle)

--------------------------------------------------------------------------------

\* A foot that has been lifted carries nothing: the desired forces of a control cycle are on
\* feet of the constraint set whose weight has reached the threshold
\* (TorqueBalancingController::computeContactForces).
LiftedFootIsUnloaded == forces \subseteq Heavy(constraints.weight) \cap constraints.feet

\* Whatever messages come, and whether or not the controller was off meanwhile, a contact is added
\* and removed gradually: no control cycle moves a weight by more than one step of the transition
\* (DynamicConstraint::updateStateInterpolation).
ContactsMoveGradually ==
  [][forces' # forces \/ constraints'.weight # constraints.weight =>
       \A f \in constraints.feet :
         /\ constraints'.weight[f] <= constraints.weight[f] + 1
         /\ constraints.weight[f] <= constraints'.weight[f] + 1]_moduleVars

\* While the controller stays on, a contact asked for is reached, and one taken away is left.
ContactsFollow ==
  \A f \in Feet :
    /\ [](([]Running /\ [](f \in constraints.held)) => <>(constraints.weight[f] = FullWeight))
    /\ [](([]Running /\ [](f \notin constraints.held)) => <>(constraints.weight[f] = 0))

\* Once configure has returned and until close begins nothing is used before it is made or after it
\* is deleted; outside of that the ports serve already, or still (TorqueBalancingModule.cpp:161,
\* 199 and 435-466).
NoMisuseWhileReady == [][misuse' # misuse => phase # "ready"]_moduleVars

\* close leaves the robot as it found it, in position control and with its own torque gains, unless
\* a command is served while it closes.
ClosedAtRest == phase \in Undone("restored") /\ ~late => ~active /\ boards = "initial"

\* An answered command has set its gain, unless syncLinkedVariables has overwritten the linked
\* variable in the middle of it.
SetGainIsUsed == ~setting /\ ~overlapped => gain = asked
================================================================================
