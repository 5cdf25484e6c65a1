-------------------------------- MODULE Devices --------------------------------
\* The devices, and the interfaces they serve.
\* They have no state in common: a behaviour is one of one component, for any values of its constants,
\* while the others stay in one of their initial states.
EXTENDS Integers, Sequences, FiniteSets

\* The constants and the variables of a component, with its name before theirs.
CONSTANTS
  est_Frames, est_ModelFrames, est_NFts, contact_SubModels, contact_Links, contact_Mapped,
  contact_Frames, contact_ModelFrames, contact_SubModelOf, contact_Timeout, contact_MaxFrames,
  edit_Order, edit_Values, edit_MaxGroup, edit_MaxWire, call_Missing, base_Frames,
  base_ModelFrames, base_MaxCommands, analog_Devices, analog_NamesOf, analog_AxesLists,
  analog_Measures, smooth_Period, smooth_Late, smooth_MaxCalibrations, smooth_Units,
  smooth_Offsets, tree_Frames, tree_ModelFrames, tree_MaxCommands, touch_Links, touch_Configs,
  touch_MostTaxels, touch_MaxContacts, touch_Timeout

VARIABLE which  \* the component of the behaviour
VARIABLES
  est_config, est_driver, est_opened, est_settings, est_run, est_raw, est_ftBuffer, est_joints,
  est_imu, est_sensorsOk, est_readFor, est_kinematics, est_patch, est_edited
VARIABLES
  contact_frames, contact_listed, contact_skin, contact_defaults, contact_mailbox,
  contact_fromSkin, contact_silence, contact_pressing, contact_measured
VARIABLES
  edit_local, edit_dirty, edit_count, edit_group, edit_linked, edit_wire, edit_rest, edit_broken,
  edit_remote
VARIABLES
  call_call, call_stub, call_request, call_server, call_method, call_done, call_answer
VARIABLES
  base_settings, base_device, base_owner, base_thread, base_mutex, base_rpc, base_served,
  base_moved, base_odometry, base_configured, base_asked, base_published
VARIABLES
  analog_phase, analog_axes, analog_again, analog_mapped, analog_subs, analog_buffer,
  analog_count, analog_update
VARIABLES
  smooth_used, smooth_old, smooth_new, smooth_elapsed, smooth_smoothing, smooth_gap,
  smooth_calibrations, smooth_reset
VARIABLES
  tree_config, tree_phase, tree_enabled, tree_odometry, tree_current, tree_estimator, tree_ports,
  tree_wrenches, tree_command, tree_commands, tree_named, tree_strayed, tree_closer, tree_misuse
VARIABLES
  touch_config, touch_phase, touch_subtree, touch_mailbox, touch_skin, touch_used, touch_silence,
  touch_heard

estVars == <<est_config, est_driver, est_opened, est_settings, est_run, est_raw, est_ftBuffer,
     est_joints, est_imu, est_sensorsOk, est_readFor, est_kinematics, est_patch, est_edited>>
contactVars == <<contact_frames, contact_listed, contact_skin, contact_defaults, contact_mailbox,
     contact_fromSkin, contact_silence, contact_pressing, contact_measured>>
editVars == <<edit_local, edit_dirty, edit_count, edit_group, edit_linked, edit_wire, edit_rest,
     edit_broken, edit_remote>>
callVars == <<call_call, call_stub, call_request, call_server, call_method, call_done, call_answer>>
baseVars == <<base_settings, base_device, base_owner, base_thread, base_mutex, base_rpc, base_served,
     base_moved, base_odometry, base_configured, base_asked, base_published>>
analogVars == <<analog_phase, analog_axes, analog_again, analog_mapped, analog_subs, analog_buffer,
     analog_count, analog_update>>
smoothVars == <<smooth_used, smooth_old, smooth_new, smooth_elapsed, smooth_smoothing, smooth_gap,
     smooth_calibrations, smooth_reset>>
treeVars == <<tree_config, tree_phase, tree_enabled, tree_odometry, tree_current, tree_estimator,
     tree_ports, tree_wrenches, tree_command, tree_commands, tree_named, tree_strayed,
     tree_closer, tree_misuse>>
touchVars == <<touch_config, touch_phase, touch_subtree, touch_mailbox, touch_skin, touch_used,
     touch_silence, touch_heard>>
components == {"est", "contact", "edit", "call", "base", "analog", "smooth", "tree", "touch"}

allVars == <<which, estVars, contactVars, editVars, callVars, baseVars, analogVars, smoothVars, treeVars, touchVars>>

D == INSTANCE DeviceEstimation WITH
       Frames <- est_Frames, ModelFrames <- est_ModelFrames, NFts <- est_NFts,
       config <- est_config, driver <- est_driver, opened <- est_opened,
       settings <- est_settings, run <- est_run, raw <- est_raw, ftBuffer <- est_ftBuffer,
       joints <- est_joints, imu <- est_imu, sensorsOk <- est_sensorsOk, readFor <- est_readFor,
       kinematics <- est_kinematics, patch <- est_patch, edited <- est_edited
P == INSTANCE ContactPoints WITH
       SubModels <- contact_SubModels, Links <- contact_Links, Mapped <- contact_Mapped,
       Frames <- contact_Frames, ModelFrames <- contact_ModelFrames,
       SubModelOf <- contact_SubModelOf, Timeout <- contact_Timeout,
       MaxFrames <- contact_MaxFrames, frames <- contact_frames, listed <- contact_listed,
       skin <- contact_skin, defaults <- contact_defaults, mailbox <- contact_mailbox,
       fromSkin <- contact_fromSkin, silence <- contact_silence, pressing <- contact_pressing,
       measured <- contact_measured
E == INSTANCE SettingsEditor WITH
       Order <- edit_Order, Values <- edit_Values, MaxGroup <- edit_MaxGroup,
       MaxWire <- edit_MaxWire, local <- edit_local, dirty <- edit_dirty, count <- edit_count,
       group <- edit_group, linked <- edit_linked, wire <- edit_wire, rest <- edit_rest,
       broken <- edit_broken, remote <- edit_remote
C == INSTANCE RemoteCalls WITH
       Missing <- call_Missing, call <- call_call, stub <- call_stub, request <- call_request,
       server <- call_server, method <- call_method, done <- call_done, answer <- call_answer
F == INSTANCE FloatingBase WITH
       Frames <- base_Frames, ModelFrames <- base_ModelFrames, MaxCommands <- base_MaxCommands,
       settings <- base_settings, device <- base_device, owner <- base_owner,
       thread <- base_thread, mutex <- base_mutex, rpc <- base_rpc, served <- base_served,
       moved <- base_moved, odometry <- base_odometry, configured <- base_configured,
       asked <- base_asked, published <- base_published
V == INSTANCE VirtualAnalog WITH
       Devices <- analog_Devices, NamesOf <- analog_NamesOf, AxesLists <- analog_AxesLists,
       Measures <- analog_Measures, phase <- analog_phase, axes <- analog_axes,
       again <- analog_again, mapped <- analog_mapped, subs <- analog_subs,
       buffer <- analog_buffer, count <- analog_count, update <- analog_update
O == INSTANCE OffsetSmoothing WITH
       Period <- smooth_Period, Late <- smooth_Late, MaxCalibrations <- smooth_MaxCalibrations,
       Units <- smooth_Units, Offsets <- smooth_Offsets, used <- smooth_used, old <- smooth_old,
       new <- smooth_new, elapsed <- smooth_elapsed, smoothing <- smooth_smoothing,
       gap <- smooth_gap, calibrations <- smooth_calibrations, reset <- smooth_reset
H == INSTANCE TreeOdometry WITH
       Frames <- tree_Frames, ModelFrames <- tree_ModelFrames, MaxCommands <- tree_MaxCommands,
       config <- tree_config, phase <- tree_phase, enabled <- tree_enabled,
       odometry <- tree_odometry, current <- tree_current, estimator <- tree_estimator,
       ports <- tree_ports, wrenches <- tree_wrenches, command <- tree_command,
       commands <- tree_commands, named <- tree_named, strayed <- tree_strayed,
       closer <- tree_closer, misuse <- tree_misuse
K == INSTANCE TreeContacts WITH
       Links <- touch_Links, Configs <- touch_Configs, MostTaxels <- touch_MostTaxels,
       MaxContacts <- touch_MaxContacts, Timeout <- touch_Timeout, config <- touch_config,
       phase <- touch_phase, subtree <- touch_subtree, mailbox <- touch_mailbox,
       skin <- touch_skin, used <- touch_used, silence <- touch_silence, heard <- touch_heard

\* Every link and every frame of the model is in one submodel, and the name that stands for
\* no frame is not that of one.
ASSUME ContactAssumption ==
  /\ contact_MaxFrames \in Nat /\ contact_Timeout \in Nat
  /\ contact_SubModelOf \in [contact_Links \cup contact_ModelFrames -> contact_SubModels]
  /\ P!NoFrame \notin contact_ModelFrames
\* The force-torque sensors are counted from zero.
ASSUME EstimationAssumption == est_NFts \in Nat
\* The axes are names, the devices are finitely many, and the name that stands for none is not that
\* of one.
ASSUME AnalogAssumption ==
  /\ IsFiniteSet(analog_Devices) /\ V!NoDevice \notin analog_Devices
  /\ analog_NamesOf \in [analog_Devices -> Seq(STRING)] /\ analog_AxesLists \subseteq Seq(STRING)
\* The messages are bounded, and the vector of the gravity is one of the fields of the settings.
ASSUME EditAssumption ==
  /\ edit_MaxGroup \in Nat /\ edit_MaxWire \in Nat /\ edit_Order \in Seq(STRING)
  /\ {"x", "y", "z"} \subseteq E!AllPieces
\* The other bounds are numbers.
ASSUME BaseAssumption == base_MaxCommands \in Nat
\* A calibration divides the unit of the offsets by the period.
ASSUME SmoothAssumption ==
  /\ smooth_Period \in Nat \ {0} /\ smooth_Late \in Nat /\ smooth_MaxCalibrations \in Nat
  /\ smooth_Offsets \subseteq Int
  /\ smooth_Units \in [0..smooth_MaxCalibrations -> Int]
  /\ \A n \in 1..smooth_MaxCalibrations : smooth_Units[n - 1] = smooth_Period * smooth_Units[n]
ASSUME OdometryAssumption == tree_MaxCommands \in Nat
ASSUME TouchAssumption == touch_Timeout \in Nat

--------------------------------------------------------------------------------
AllInit ==
  /\ which \in components
  /\ D!Init
  /\ P!Init
  /\ E!Init
  /\ C!Init
  /\ F!Init
  /\ V!Init
  /\ O!Init
  /\ H!Init
  /\ K!Init

\* One component runs.
DeviceEstimationRuns == which = "est" /\ D!Next
  /\ UNCHANGED <<which, contactVars, editVars, callVars, baseVars, analogVars, smoothVars, treeVars, touchVars>>
ContactPointsRuns == which = "contact" /\ P!Next
  /\ UNCHANGED <<which, estVars, editVars, callVars, baseVars, analogVars, smoothVars, treeVars, touchVars>>
SettingsEditorRuns == which = "edit" /\ E!Next
  /\ UNCHANGED <<which, estVars, contactVars, callVars, baseVars, analogVars, smoothVars, treeVars, touchVars>>
RemoteCallsRuns == which = "call" /\ C!Next
  /\ UNCHANGED <<which, estVars, contactVars, editVars, baseVars, analogVars, smoothVars, treeVars, touchVars>>
FloatingBaseRuns == which = "base" /\ F!Next
  /\ UNCHANGED <<which, estVars, contactVars, editVars, callVars, analogVars, smoothVars, treeVars, touchVars>>
VirtualAnalogRuns == which = "analog" /\ V!Next
  /\ UNCHANGED <<which, estVars, contactVars, editVars, callVars, baseVars, smoothVars, treeVars, touchVars>>
OffsetSmoothingRuns == which = "smooth" /\ O!Next
  /\ UNCHANGED <<which, estVars, contactVars, editVars, callVars, baseVars, analogVars, treeVars, touchVars>>
TreeOdometryRuns == which = "tree" /\ H!Next
  /\ UNCHANGED <<which, estVars, contactVars, editVars, callVars, baseVars, analogVars, smoothVars, touchVars>>
TreeContactsRuns == which = "touch" /\ K!Next
  /\ UNCHANGED <<which, estVars, contactVars, editVars, callVars, baseVars, analogVars, smoothVars, treeVars>>
AllNext ==
  \/ DeviceEstimationRuns
  \/ ContactPointsRuns
  \/ SettingsEditorRuns
  \/ RemoteCallsRuns
  \/ FloatingBaseRuns
  \/ VirtualAnalogRuns
  \/ OffsetSmoothingRuns
  \/ TreeOdometryRuns
  \/ TreeContactsRuns

AllSpec == AllInit /\ [][AllNext]_allVars

\* The fairness of each component is that of its specification.
estFairness ==
  /\ WF_est_run(which = "est" /\ D!RunStarts)
  /\ WF_est_run(which = "est" /\ D!RunKinematics)
  /\ WF_estVars(which = "est" /\ D!AttachSensors)
contactFairness ==
  /\ WF_contactVars(which = "contact" /\ (P!ListFrame \/ P!OpenContacts))
  /\ WF_contactVars(which = "contact" /\ (P!ReadContacts \/ P!NoMessage))
callFairness ==
  /\ WF_callVars(which = "call" /\ C!Read)
  /\ WF_callVars(which = "call" /\ \E r \in BOOLEAN : C!Run(r))
  /\ WF_callVars(which = "call" /\ C!Refused)
  /\ WF_callVars(which = "call" /\ C!Answered)
baseFairness ==
  /\ WF_baseVars(which = "base" /\ F!Lock)
  /\ WF_baseVars(which = "base" /\ F!Serve)
  /\ WF_baseVars(which = "base" /\ \E r, e \in BOOLEAN : F!Run(r, e))
  /\ WF_baseVars(which = "base" /\ F!DetachStop)
  /\ WF_baseVars(which = "base" /\ F!DetachEnd)
smoothFairness ==
  /\ WF_smoothVars(which = "smooth" /\ O!Tick)
  /\ WF_smoothVars(which = "smooth" /\ smooth_gap = smooth_Late /\ O!Run)
touchFairness ==
  /\ WF_touchVars(which = "touch" /\ (K!ReadContacts \/ K!NoMessage))

--------------------------------------------------------------------------------
(* Properties *)

\* Measures are those of their sensor, fresh and numbers; offsets come into use up to a late run, and
\* estimates reach the device that has their axis, in one message.
MeasuresAreRight ==
  /\ which = "est" => /\ D!TypeOK
                      /\ D!FTsNotMixed
                      /\ D!FTsAreNumbers
                      /\ D!ReadMeansFresh
                      /\ D!FixedFrameIsValid
                      /\ D!OneSourceInARun
  /\ which = "smooth" => /\ O!TypeOK
                         /\ O!MissesByALateRun
                         /\ O!ResetLasts
  /\ which = "analog" => /\ V!TypeOK
                         /\ V!EstimatesArrive
                         /\ V!OneMessageWhenWhole
                         /\ V!OverrunNeedsATwin

\* The estimation of the wrenches always has a contact in every part that the sensors cut the robot
\* into: one of the skin, from the last message that had any, or else a default one.
EveryPartIsTouched ==
  /\ which = "contact" => /\ P!TypeOK
                          /\ P!EverySubModelIsTouched
                          /\ P!SkinContactsWereRead
                          /\ P!FirstSuitableFrame
  /\ which = "touch" => /\ K!TypeOK
                        /\ K!EverySubtreeIsTouched
                        /\ K!DefaultsOnlyWhereUntouched
                        /\ K!TouchesWereRead

\* Client and server agree: an edit that is not marked has arrived unless a patch broke, a command runs
\* the method that was called with what it was given, and true means that it was done.
BothSidesAgree ==
  /\ which = "edit" => /\ E!TypeOK
                       /\ E!CleanMeansSent
                       /\ E!PatchesAreWellFormed
                       /\ E!GravityIsOneEdit
  /\ which = "call" => /\ C!TypeOK
                       /\ C!RunsWhatWasCalled
                       /\ C!StubsAreUnderstood
                       /\ C!TrueMeansDone

\* The odometry stands on links of the model, those last asked for, and whoever keeps their names
\* agrees; ports and threads are there for who uses them.
LinksAreThoseAsked ==
  /\ which = "base" => /\ F!TypeOK
                       /\ F!PosesOfModelFrames
                       /\ F!FollowsTheCommands
  /\ which = "tree" => /\ H!TypeOK
                       /\ H!LinksAgree
                       /\ H!PortsAreThere
                       /\ H!AbortsOffTheFeet
                       /\ H!ThreadIsThere

\* No edit is sent from the middle of a group, no command changes the odometry in the middle of a run or
\* between the estimation of wrenches and their use, no offset jumps in the middle of a smoothing.
NothingInTheMiddle ==
  /\ E!GroupsAreSentWhole
  /\ F!RunSeesOneOdometry
  /\ O!MovesGradually
  /\ H!ReadsWhatWasComputed

\* What is begun or asked for is completed: a chosen source is used, old contacts are left, commands
\* are answered, detaching and smoothing end.
DevicesComplete ==
  /\ which = "est" /\ estFairness => D!ChosenSourceIsUsed
  /\ which = "contact" /\ contactFairness => P!OldContactsAreLeft
  /\ which = "call" /\ callFairness => C!CommandsAreAnswered
  /\ which = "base" /\ baseFairness => F!DetachEnds
  /\ which = "smooth" /\ smoothFairness => O!SmoothingEnds
  /\ which = "touch" /\ touchFairness => K!SilentTouchesAreLeft

================================================================================
