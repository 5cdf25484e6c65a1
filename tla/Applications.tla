------------------------------ MODULE Applications ------------------------------
\* The applications: grasping, trajectories, walking, balancing, references, mapping, estimation.
\* They have no state in common: a behaviour is one of one component, for any values of its constants,
\* while the others stay in one of their initial states.
EXTENDS Integers, Sequences

\* The constants and the variables of a component, with its name before theirs.
CONSTANTS
  traj_SplitParts, traj_Torso, traj_Legs, traj_MaxMessages, split_N, walk_Steps,
  walk_MaxCommands, bal_Feet, bal_Threshold, bal_FullWeight, bal_MaxCommands, refs_MaxTime,
  refs_MaxPoints, refs_Timeout, grid_Halves, grid_Deltas, grid_StaticPeriod, grid_ReturnPeriod,
  grid_Forever, estim_Alphabet, estim_Configs, estim_Packages, estim_Board, estim_MaxPackages,
  estim_MaxMessages

VARIABLE which  \* the component of the behaviour
VARIABLES
  grasp_m, grasp_event
VARIABLES
  traj_phase, traj_messages, traj_refs, traj_position, traj_torque, traj_whole, traj_posOut,
  traj_torqueOut, traj_com, traj_comActive, traj_comStart, traj_comOut, traj_generators,
  traj_early, traj_misuse
VARIABLES
  split_ids, split_list, split_at, split_mapped
VARIABLES
  walk_phase, walk_options, walk_actions, walk_stream, walk_status, walk_current, walk_mutex,
  walk_modes, walk_moving, walk_sent, walk_commands, walk_afresh
VARIABLES
  bal_phase, bal_plan, bal_quit, bal_served, bal_late, bal_active, bal_boards, bal_gain,
  bal_linked, bal_asked, bal_setting, bal_overlapped, bal_synced, bal_constraints, bal_forces,
  bal_misuse
VARIABLES
  refs_config, refs_module, refs_flags, refs_start, refs_time, refs_com, refs_posture, refs_fresh
VARIABLES
  grid_config, grid_phase, grid_awaited, grid_next, grid_wait, grid_elapsed, grid_returnPoint,
  grid_keepFitting, grid_arrived, grid_unread, grid_drivers, grid_homed
VARIABLES
  estim_config, estim_phase, estim_at, estim_open, estim_mailbox, estim_read, estim_measure

graspVars == <<grasp_m, grasp_event>>
trajVars == <<traj_phase, traj_messages, traj_refs, traj_position, traj_torque, traj_whole, traj_posOut,
     traj_torqueOut, traj_com, traj_comActive, traj_comStart, traj_comOut, traj_generators,
     traj_early, traj_misuse>>
splitVars == <<split_ids, split_list, split_at, split_mapped>>
walkVars == <<walk_phase, walk_options, walk_actions, walk_stream, walk_status, walk_current, walk_mutex,
     walk_modes, walk_moving, walk_sent, walk_commands, walk_afresh>>
balVars == <<bal_phase, bal_plan, bal_quit, bal_served, bal_late, bal_active, bal_boards, bal_gain,
     bal_linked, bal_asked, bal_setting, bal_overlapped, bal_synced, bal_constraints, bal_forces,
     bal_misuse>>
refsVars == <<refs_config, refs_module, refs_flags, refs_start, refs_time, refs_com, refs_posture,
     refs_fresh>>
gridVars == <<grid_config, grid_phase, grid_awaited, grid_next, grid_wait, grid_elapsed, grid_returnPoint,
     grid_keepFitting, grid_arrived, grid_unread, grid_drivers, grid_homed>>
estimVars == <<estim_config, estim_phase, estim_at, estim_open, estim_mailbox, estim_read, estim_measure>>
components == {"grasp", "traj", "split", "walk", "bal", "refs", "grid", "estim"}

allVars == <<which, graspVars, trajVars, splitVars, walkVars, balVars, refsVars, gridVars, estimVars>>

G == INSTANCE GraspManager WITH
       m <- grasp_m, event <- grasp_event
T == INSTANCE Coordinator WITH
       SplitParts <- traj_SplitParts, Torso <- traj_Torso, Legs <- traj_Legs,
       MaxMessages <- traj_MaxMessages, phase <- traj_phase, messages <- traj_messages,
       refs <- traj_refs, position <- traj_position, torque <- traj_torque, whole <- traj_whole,
       posOut <- traj_posOut, torqueOut <- traj_torqueOut, com <- traj_com,
       comActive <- traj_comActive, comStart <- traj_comStart, comOut <- traj_comOut,
       generators <- traj_generators, early <- traj_early, misuse <- traj_misuse
J == INSTANCE JointSplit WITH
       N <- split_N, ids <- split_ids, list <- split_list, at <- split_at, mapped <- split_mapped
W == INSTANCE WalkPlayer WITH
       Steps <- walk_Steps, MaxCommands <- walk_MaxCommands, phase <- walk_phase,
       options <- walk_options, actions <- walk_actions, stream <- walk_stream,
       status <- walk_status, current <- walk_current, mutex <- walk_mutex, modes <- walk_modes,
       moving <- walk_moving, sent <- walk_sent, commands <- walk_commands, afresh <- walk_afresh
B == INSTANCE BalancingModule WITH
       Feet <- bal_Feet, Threshold <- bal_Threshold, FullWeight <- bal_FullWeight,
       MaxCommands <- bal_MaxCommands, phase <- bal_phase, plan <- bal_plan, quit <- bal_quit,
       served <- bal_served, late <- bal_late, active <- bal_active, boards <- bal_boards,
       gain <- bal_gain, linked <- bal_linked, asked <- bal_asked, setting <- bal_setting,
       overlapped <- bal_overlapped, synced <- bal_synced, constraints <- bal_constraints,
       forces <- bal_forces, misuse <- bal_misuse
R == INSTANCE ReferencesGenerator WITH
       MaxTime <- refs_MaxTime, MaxPoints <- refs_MaxPoints, Timeout <- refs_Timeout,
       config <- refs_config, module <- refs_module, flags <- refs_flags, start <- refs_start,
       time <- refs_time, com <- refs_com, posture <- refs_posture, fresh <- refs_fresh
M == INSTANCE GridMapping WITH
       Halves <- grid_Halves, Deltas <- grid_Deltas, StaticPeriod <- grid_StaticPeriod,
       ReturnPeriod <- grid_ReturnPeriod, Forever <- grid_Forever, config <- grid_config,
       phase <- grid_phase, awaited <- grid_awaited, next <- grid_next, wait <- grid_wait,
       elapsed <- grid_elapsed, returnPoint <- grid_returnPoint, keepFitting <- grid_keepFitting,
       arrived <- grid_arrived, unread <- grid_unread, drivers <- grid_drivers,
       homed <- grid_homed
N == INSTANCE WholeBodyEstimator WITH
       Alphabet <- estim_Alphabet, Configs <- estim_Configs, Packages <- estim_Packages,
       Board <- estim_Board, MaxPackages <- estim_MaxPackages, MaxMessages <- estim_MaxMessages,
       config <- estim_config, phase <- estim_phase, at <- estim_at, open <- estim_open,
       mailbox <- estim_mailbox, read <- estim_read, measure <- estim_measure

\* The bounds are numbers.
ASSUME CoordinatorAssumption == traj_MaxMessages \in Nat
ASSUME WalkAssumption == walk_Steps \in Nat /\ walk_MaxCommands \in Nat
\* The forces are counted in the weight that a foot feels.
ASSUME BalancingAssumption == bal_Threshold \in Nat /\ bal_FullWeight \in Nat /\ bal_MaxCommands \in Nat
\* Times are counted from zero.
ASSUME RefsAssumption == refs_MaxTime \in Nat /\ refs_MaxPoints \in Nat /\ refs_Timeout \in Nat
\* The joints of a part are numbered from zero.
ASSUME SplitAssumption == split_N \in Nat
\* Lengths and periods are counted from zero, and the distance of two rows is not zero.
ASSUME GridAssumption ==
  /\ grid_Halves \subseteq Nat /\ grid_Deltas \subseteq Nat \ {0}
  /\ grid_StaticPeriod \in Nat /\ grid_ReturnPeriod \in Nat /\ grid_Forever \in Nat
\* In the alphabet the odometry comes before the filter that connects to it.
ASSUME EstimatorsAssumption ==
  /\ estim_Alphabet \in Seq(STRING) /\ estim_Packages \subseteq [1..6 -> Int]
  /\ estim_MaxPackages \in Nat /\ estim_MaxMessages \in Nat
  /\ \A i, j \in DOMAIN estim_Alphabet :
       estim_Alphabet[i] = "LeggedOdometry" /\ estim_Alphabet[j] = "QuaternionEKF" => i < j

--------------------------------------------------------------------------------
AllInit ==
  /\ which \in components
  /\ G!Init
  /\ T!Init
  /\ J!Init
  /\ W!Init
  /\ B!Init
  /\ R!Init
  /\ M!Init
  /\ N!Init

\* One component runs.
GraspManagerRuns == which = "grasp" /\ G!Next
  /\ UNCHANGED <<which, trajVars, splitVars, walkVars, balVars, refsVars, gridVars, estimVars>>
CoordinatorRuns == which = "traj" /\ T!Next
  /\ UNCHANGED <<which, graspVars, splitVars, walkVars, balVars, refsVars, gridVars, estimVars>>
JointSplitRuns == which = "split" /\ J!Next
  /\ UNCHANGED <<which, graspVars, trajVars, walkVars, balVars, refsVars, gridVars, estimVars>>
WalkPlayerRuns == which = "walk" /\ W!Next
  /\ UNCHANGED <<which, graspVars, trajVars, splitVars, balVars, refsVars, gridVars, estimVars>>
BalancingModuleRuns == which = "bal" /\ B!Next
  /\ UNCHANGED <<which, graspVars, trajVars, splitVars, walkVars, refsVars, gridVars, estimVars>>
ReferencesGeneratorRuns == which = "refs" /\ R!Next
  /\ UNCHANGED <<which, graspVars, trajVars, splitVars, walkVars, balVars, gridVars, estimVars>>
GridMappingRuns == which = "grid" /\ M!Next
  /\ UNCHANGED <<which, graspVars, trajVars, splitVars, walkVars, balVars, refsVars, estimVars>>
WholeBodyEstimatorRuns == which = "estim" /\ N!Next
  /\ UNCHANGED <<which, graspVars, trajVars, splitVars, walkVars, balVars, refsVars, gridVars>>
AllNext ==
  \/ GraspManagerRuns
  \/ CoordinatorRuns
  \/ JointSplitRuns
  \/ WalkPlayerRuns
  \/ BalancingModuleRuns
  \/ ReferencesGeneratorRuns
  \/ GridMappingRuns
  \/ WholeBodyEstimatorRuns

AllSpec == AllInit /\ [][AllNext]_allVars

\* The fairness of each component is that of its specification.
graspFairness ==
  /\ WF_graspVars(which = "grasp" /\ G!Run)
  /\ WF_graspVars(which = "grasp" /\ G!IdleElapses)
  /\ WF_graspVars(which = "grasp" /\ G!LatchElapses)
trajFairness ==
  /\ WF_trajVars(which = "traj" /\ T!UpdateModule)
splitFairness ==
  /\ WF_splitVars(which = "split" /\ J!Next)
walkFairness ==
  /\ WF_walkVars(which = "walk" /\ W!Run)
  /\ WF_walkVars(which = "walk" /\ W!StartThread)
  /\ \A p \in W!Parts : WF_walkVars(which = "walk" /\ W!MoveDone(p))
balFairness ==
  /\ WF_bal_constraints(which = "bal" /\ B!Cycle)
gridFairness ==
  /\ WF_gridVars(which = "grid" /\ M!Configure)
  /\ WF_gridVars(which = "grid" /\ M!WaitForPort(TRUE))
  /\ WF_gridVars(which = "grid" /\ (M!UpdateStays(TRUE) /\ (grid_arrived \/ grid_wait = grid_Forever)))
  /\ WF_gridVars(which = "grid" /\ M!UpdateMoves(TRUE))
  /\ WF_gridVars(which = "grid" /\ M!Arrive)
estimFairness ==
  /\ WF_estimVars(which = "estim" /\ N!Thread)
  /\ \A f \in N!Filters : WF_estimVars(which = "estim" /\ N!Message(f))

--------------------------------------------------------------------------------
(* Properties *)

\* The grasp keeps at home what is not in use: the other arm, the hands outside of a grasp, the whole
\* robot when idle or disabled; the breathers never run while an arm follows a target.
GraspIsSafe ==
  /\ which = "grasp" => /\ G!TypeOK
                        /\ G!OtherArmAtHome
                        /\ G!ClosedOnlyToRelease
                        /\ G!HomeWhenIdle
                        /\ G!BreathesOnlyAtRest

\* A lifted foot carries no desired force, closing leaves the robot as it was found, and an answered
\* command has set its gain, with the exceptions that BalancingModule names.
BalancingIsSafe ==
  /\ which = "bal" => /\ B!TypeOK
                      /\ B!LiftedFootIsUnloaded
                      /\ B!ClosedAtRest
                      /\ B!SetGainIsUsed

\* What is sent together belongs together, and at its time: both halves of the joints of a part, the
\* row next to a step, the set point of a time.
ReferencesMatch ==
  /\ which = "traj" => /\ T!TypeOK
                       /\ T!HalvesAgree
                       /\ T!ComStartsWhereAsked
  /\ which = "split" => /\ J!TypeOK
                        /\ J!KeepsTorqueJoints
                        /\ J!SplitIsRight
  /\ which = "walk" => /\ W!TypeOK
                       /\ W!TorsoMovesAlone
                       /\ W!StepsGoDirectly
                       /\ W!RowsInStep
  /\ which = "refs" => /\ R!TypeOK
                       /\ R!NeverBeforeItsTime
                       /\ R!UndefinedOnlyWithout
                       /\ R!NoReferenceSkipped

\* What is measured for is what the robot does: positions are used along a row and at rest, and the
\* estimators use what the board sent, whatever the order in which they are listed.
MeasuresAreUsable ==
  /\ which = "grid" => /\ M!TypeOK
                       /\ M!FittingAlongARow
                       /\ M!ReturnsToTheCentre
                       /\ M!RowsWithinAStep
                       /\ M!WaitsOnlyAtRest
  /\ which = "estim" => /\ N!TypeOK
                        /\ N!StartsInAnyOrder
                        /\ N!UsesWhatWasSent
                        /\ N!NoPortIsLeft

\* No step uses an object outside its life, goes back to an older reference, moves a contact at once,
\* or keeps the semaphore of a sequence that is not empty.
NothingOutOfTurn ==
  /\ T!NoMisuseOnceReady
  /\ T!NeverGoesBack
  /\ W!LostOnlyWhenEmpty
  /\ B!ContactsMoveGradually
  /\ B!NoMisuseWhileReady
  /\ R!ReferencesInOrder

\* What is begun or asked for is completed: hands open, stops count, references are followed, the
\* split, a sequence, a mapping and closing end, contacts are reached.
ApplicationsComplete ==
  /\ which = "grasp" /\ graspFairness => G!HandsOpen
  /\ which = "grasp" /\ graspFairness => G!StopDisablesAfterMotion
  /\ which = "traj" /\ trajFairness => T!ReferencesAreFollowed
  /\ which = "split" /\ splitFairness => J!SplitEnds
  /\ which = "walk" /\ walkFairness => W!SequenceEnds
  /\ which = "bal" /\ balFairness => B!ContactsFollow
  /\ which = "grid" /\ gridFairness => M!VisitsAll
  /\ which = "estim" /\ estimFairness => N!CloseEnds

================================================================================
