------------------------------ MODULE TreeOdometry ------------------------------
(***************************************************************************)
(* The life of wholeBodyDynamicsTree around its odometry: configure starts *)
(* the estimation thread, the thread initialises the odometry and runs,    *)
(* RPC commands reset the odometry or change its fixed link, close (by the *)
(* main thread, or by the command quit in an RPC thread) ends it.          *)
(*                                                                         *)
(* Three objects keep the name of the fixed link: the odometry itself      *)
(* (simpleLeggedOdometry), the thread, and the estimator of the external   *)
(* wrenches.  With the option assume_fixed_from_odometry the last two      *)
(* choose a model of the robot by it.  run and the commands hold run_mutex *)
(* throughout and never wait while they do: each is one step.              *)
(*                                                                         *)
(* The calibrations of the thread are in FTCalibration.  The geometry is   *)
(* left out, and with it the world frame that a reset is given.            *)
(* A use of memory that was never allocated, or no longer is, ends the     *)
(* behaviour and is recorded in misuse.  That updateModule returning false *)
(* makes the main thread call close is how RFModule works.                 *)
(***************************************************************************)
EXTENDS Naturals

CONSTANTS
  Frames,       \* the names that configurations and commands give
  ModelFrames,  \* those that are links of the model
  MaxCommands   \* bound on the commands

Feet == {"r_foot", "l_foot"}
Nowhere == "none"
Groups == {"absent", "malformed", "read"}
Streams == {"com", "frames"}

\* The group SIMPLE_LEGGED_ODOMETRY (are its floating base and its additional
\* frames in the model?), and the options
Configs ==
  {c \in [group : Groups, link : ModelFrames \cup {Nowhere}, base : BOOLEAN,
          streams : SUBSET Streams, extra : BOOLEAN, fixed : BOOLEAN,
          fromOdometry : BOOLEAN, wrenchPorts : BOOLEAN] :
     IF c.group = "read" THEN c.link # Nowhere
     ELSE c.link = Nowhere /\ ~c.base /\ c.streams = {} /\ ~c.extra}

VARIABLES
  config,     \* the configuration
  phase,      \* of the estimation thread
  enabled,    \* odometry_enabled
  odometry,   \* the fixed link of odometry_helper
  current,    \* current_fixed_link_name of the thread
  estimator,  \* current_fixed_link_name of the estimator
  ports,      \* the ports of the odometry that are open
  wrenches,   \* the models the last published wrenches were computed and read in
  command,    \* the command of the RPC thread
  commands,   \* commands received so far
  named,      \* the links that accepted commands have named
  strayed,    \* was the odometry reset since the fixed link was last changed?
  closer,     \* who runs close, and how far
  misuse      \* what memory was used without being there

vars == <<config, phase, enabled, odometry, current, estimator, ports, wrenches,
          command, commands, named, strayed, closer, misuse>>

NoCommand == [kind |-> "none"]
Resets == [kind : {"reset"}, link : Frames, world : BOOLEAN]  \* world: in the model?
Changes == [kind : {"change"}, link : Frames]
Quit == [kind |-> "quit"]
Works == misuse = "none"

Init ==
  /\ config \in Configs
  /\ phase = "absent"
  /\ enabled = FALSE
  /\ odometry = Nowhere
  /\ current = Nowhere /\ estimator = Nowhere
  /\ ports = {}
  /\ wrenches = [computed |-> Nowhere, read |-> Nowhere]
  /\ command = NoCommand /\ commands = 0
  /\ named = {} /\ strayed = FALSE
  /\ closer = [main |-> "updates", rpc |-> "no"]
  /\ misuse = "none"

\* configure: the RPC port is open before the thread exists.  start runs
\* threadInit in the new thread.
Configure ==
  /\ Works /\ phase = "absent" /\ closer["main"] = "updates"
  /\ phase' = "starting"
  /\ UNCHANGED <<config, enabled, odometry, current, estimator, ports, wrenches,
                 command, commands, named, strayed, closer, misuse>>

\* Is the odometry initialised as far as the ports?
BaseIsKnown == config.group = "read" /\ config.base
ExtrasAreKnown == "frames" \in config.streams => config.extra

\* Wrong variant: the port of the frames is not opened with that of the com
PortsOpenedEither ==
  IF BaseIsKnown /\ ExtrasAreKnown
  THEN {"state"} \cup (IF "com" \in config.streams THEN {"com"} ELSE config.streams)
  ELSE {}

\* The ports that initOdometry opens.  It enables the odometry before it
\* looks up the additional frames.
PortsOpened ==
  IF BaseIsKnown /\ ExtrasAreKnown THEN {"state"} \cup config.streams ELSE {}

\* Wrong variant: the links are set when all is well
InitOdometryIfKnown ==
  /\ enabled' = BaseIsKnown
  /\ ports' = PortsOpened
  /\ IF BaseIsKnown
     THEN odometry' = config.link /\ current' = config.link /\ estimator' = config.link
     ELSE UNCHANGED <<odometry, current, estimator>>

\* Wrong variant: the estimator is not told
InitOdometryAlone ==
  /\ enabled' = BaseIsKnown
  /\ ports' = PortsOpened
  /\ IF config.group = "read"
     THEN odometry' = config.link /\ current' = config.link /\ UNCHANGED estimator
     ELSE UNCHANGED <<odometry, current, estimator>>

\* initOdometry
InitOdometry ==
  /\ enabled' = BaseIsKnown
  /\ ports' = PortsOpened
  /\ IF config.group = "read"
     THEN /\ odometry' = config.link
          /\ current' = config.link
          /\ estimator' = config.link
     ELSE UNCHANGED <<odometry, current, estimator>>

\* threadInit.  It ignores the result of initOdometry.
ThreadInit ==
  /\ Works /\ phase = "starting"
  /\ phase' = "running"
  /\ InitOdometry
  /\ UNCHANGED <<config, wrenches, command, commands, named, strayed, closer, misuse>>

\* threadInit fails before it comes to the odometry: configure returns
\* false, and the process ends without close.
ThreadInitFails ==
  /\ Works /\ phase = "starting"
  /\ phase' = "failed"
  /\ UNCHANGED <<config, enabled, odometry, current, estimator, ports, wrenches,
                 command, commands, named, strayed, closer, misuse>>

\* The model in which the estimator computes the external wrenches.  Away
\* from the feet it computes nothing.
ComputedIn ==
  IF ~config.fromOdometry THEN "whole"
  ELSE IF estimator \in Feet THEN estimator ELSE wrenches.computed

\* The model from which getExternalWrenches reads them
ReadFrom == IF config.fromOdometry THEN current ELSE "whole"

\* The assertion of getExternalWrenches, once per port of a wrench
ReadFails == config.wrenchPorts /\ config.fromOdometry /\ current \notin Feet

\* publishOdometry and publishBaseToGui
PortMissing == enabled /\ ~(({"state"} \cup config.streams) \subseteq ports)
BaseMissing == ~enabled /\ config.fromOdometry /\ ~config.fixed

\* estimation_run
Run ==
  /\ Works /\ phase = "running"
  /\ ~ReadFails /\ ~PortMissing /\ ~BaseMissing
  /\ wrenches' = IF config.wrenchPorts THEN [computed |-> ComputedIn, read |-> ReadFrom]
                 ELSE wrenches
  /\ current' = IF enabled THEN odometry ELSE current
  /\ UNCHANGED <<config, phase, enabled, odometry, estimator, ports, command,
                 commands, named, strayed, closer, misuse>>

\* estimation_run with what is not there, in the order of its parts
RunFails ==
  /\ Works /\ phase = "running"
  /\ ReadFails \/ PortMissing \/ BaseMissing
  /\ misuse' = IF ReadFails THEN "assertion"
               ELSE IF PortMissing THEN "port" ELSE "model"
  /\ UNCHANGED <<config, phase, enabled, odometry, current, estimator, ports,
                 wrenches, command, commands, named, strayed, closer>>

--------------------------------------------------------------------------------
(* Commands.  The RPC method tests that there is a thread, then calls it.  *)

Receive(c) ==
  /\ Works /\ command = NoCommand /\ commands < MaxCommands
  /\ closer["main"] # "closed" /\ closer["rpc"] = "no" /\ phase # "failed"
  /\ commands' = commands + 1
  /\ command' = IF phase \in {"absent", "deleted"} /\ c # Quit THEN NoCommand ELSE c
  /\ closer' = IF c = Quit THEN [closer EXCEPT !["rpc"] = "closing"] ELSE closer
  /\ UNCHANGED <<config, phase, enabled, odometry, current, estimator, ports,
                 wrenches, named, strayed, misuse>>

\* simpleLeggedOdometry looks up every link it is given.
Accepted ==
  /\ enabled
  /\ command.link \in ModelFrames
  /\ command.kind = "reset" => command.world

\* resetSimpleLeggedOdometry of the thread
Reset ==
  /\ Works /\ command.kind = "reset" /\ phase \in {"starting", "running", "released"}
  /\ IF Accepted
     THEN /\ odometry' = command.link
          /\ named' = named \cup {command.link} /\ strayed' = TRUE
     ELSE UNCHANGED <<odometry, named, strayed>>
  /\ command' = NoCommand
  /\ UNCHANGED <<config, phase, enabled, current, estimator, ports, wrenches,
                 commands, closer, misuse>>

\* Wrong variant: the estimator is left out
ChangeOfOdometry ==
  /\ odometry' = command.link
  /\ current' = command.link
  /\ named' = named \cup {command.link} /\ strayed' = FALSE
  /\ UNCHANGED <<estimator, misuse>>

\* changeFixedLink: after threadRelease the estimator is deleted, but the
\* odometry is still enabled.
ChangeAll ==
  /\ odometry' = command.link
  /\ current' = command.link
  /\ named' = named \cup {command.link} /\ strayed' = FALSE
  /\ IF phase = "released"
     THEN misuse' = "estimator" /\ UNCHANGED estimator
     ELSE estimator' = command.link /\ UNCHANGED misuse

\* changeFixedLinkSimpleLeggedOdometry of the thread
ChangeLink ==
  /\ Works /\ command.kind = "change" /\ phase \in {"starting", "running", "released"}
  /\ IF Accepted THEN ChangeAll
     ELSE UNCHANGED <<odometry, current, estimator, named, strayed, misuse>>
  /\ command' = NoCommand
  /\ UNCHANGED <<config, phase, enabled, ports, wrenches, commands, closer>>

\* The thread was deleted after the test.
CallDeleted ==
  /\ Works /\ command.kind \in {"reset", "change"} /\ phase = "deleted"
  /\ misuse' = "thread"
  /\ UNCHANGED <<config, phase, enabled, odometry, current, estimator, ports,
                 wrenches, command, commands, named, strayed, closer>>

--------------------------------------------------------------------------------
(* The end *)

\* Wrong variant: the module is closed before it has its thread
LeaveAnyTime ==
  /\ Works /\ closer["main"] = "updates"
  /\ closer' = [closer EXCEPT !["main"] = "closing"]
  /\ UNCHANGED <<config, phase, enabled, odometry, current, estimator, ports,
                 wrenches, command, commands, named, strayed, misuse>>

\* The main thread leaves its loop: the process is told to stop, or
\* updateModule finds no thread.
Leave ==
  /\ Works /\ closer["main"] = "updates" /\ phase \in {"running", "released", "deleted"}
  /\ closer' = [closer EXCEPT !["main"] = "closing"]
  /\ UNCHANGED <<config, phase, enabled, odometry, current, estimator, ports,
                 wrenches, command, commands, named, strayed, misuse>>

\* close asks the thread for its times before it tests that there is one.
CloseBegins(who) ==
  /\ Works /\ closer[who] = "closing"
  /\ IF phase \in {"absent", "deleted"}
     THEN misuse' = "thread" /\ UNCHANGED closer
     ELSE closer' = [closer EXCEPT ![who] = "stopping"] /\ UNCHANGED misuse
  /\ UNCHANGED <<config, phase, enabled, odometry, current, estimator, ports,
                 wrenches, command, commands, named, strayed>>

\* stop, with which the thread runs threadRelease.  Without the group the
\* options com_streaming_enabled and frames_streaming_enabled were never
\* assigned: either may make it close a port that is not there.
ThreadRelease(who) ==
  /\ Works /\ closer[who] = "stopping" /\ phase = "running"
  /\ phase' = "released"
  /\ ports' = {}
  /\ \E s \in IF config.group = "read" THEN {config.streams} ELSE SUBSET Streams :
       misuse' = IF s \subseteq ports THEN "none" ELSE "port"
  /\ UNCHANGED <<config, enabled, odometry, current, estimator, wrenches,
                 command, commands, named, strayed, closer>>

\* stop returns at once when the thread has stopped before.  Two callers of
\* close may both find the thread, and both delete it.
DeleteThread(who) ==
  /\ Works /\ closer[who] = "stopping" /\ phase \in {"released", "deleted"}
  /\ phase' = "deleted"
  /\ misuse' \in IF phase = "deleted" THEN {"none", "thread"} ELSE {"none"}
  /\ closer' = [closer EXCEPT ![who] = "closed"]
  /\ command' = IF who = "rpc" THEN NoCommand ELSE command
  /\ UNCHANGED <<config, enabled, odometry, current, estimator, ports, wrenches,
                 commands, named, strayed>>

Next ==
  \/ Configure \/ ThreadInit \/ ThreadInitFails
  \/ Run \/ RunFails
  \/ \E c \in Resets \cup Changes \cup {Quit} : Receive(c)
  \/ Reset \/ ChangeLink \/ CallDeleted
  \/ Leave
  \/ \E who \in {"main", "rpc"} :
       CloseBegins(who) \/ ThreadRelease(who) \/ DeleteThread(who)

Spec == Init /\ [][Next]_vars

--------------------------------------------------------------------------------
(* Properties *)

TypeOK ==
  /\ config \in Configs
  /\ phase \in {"absent", "starting", "running", "released", "deleted", "failed"}
  /\ enabled \in BOOLEAN
  /\ {odometry, current, estimator} \subseteq ModelFrames \cup {Nowhere}
  /\ ports \subseteq {"state"} \cup Streams
  /\ wrenches \in [computed : ModelFrames \cup {Nowhere, "whole"},
                   read : ModelFrames \cup {Nowhere, "whole"}]
  /\ command \in {NoCommand, Quit} \cup Resets \cup Changes
  /\ commands \in 0 .. MaxCommands
  /\ named \subseteq ModelFrames /\ strayed \in BOOLEAN
  /\ closer \in [main : {"updates", "closing", "stopping", "closed"},
                 rpc : {"no", "closing", "stopping", "closed"}]
  /\ misuse \in {"none", "assertion", "port", "model", "estimator", "thread"}

\* A run publishes wrenches that were computed in the model they are read
\* from, unless the odometry was reset since the fixed link was last changed:
\* the reset moves the odometry and, in the next run, the thread, but leaves
\* the estimator where it was.
ReadsWhatWasComputed ==
  [][wrenches' # wrenches => wrenches'.computed = wrenches'.read \/ strayed]_vars

\* The thread, the odometry and the estimator name the same fixed link,
\* unless a reset came since the last change.
LinksAgree ==
  phase = "running" /\ enabled /\ ~strayed => {current, estimator} = {odometry}

\* The odometry publishes through ports that are open, and closes those,
\* when its configuration is valid.  (If an additional frame is unknown,
\* initOdometry fails after it has enabled the odometry; without a valid
\* group or base, closeOdometry closes ports that were never created.)
PortsAreThere ==
  misuse = "port" => ~(BaseIsKnown /\ ExtrasAreKnown)

\* The assertion of getExternalWrenches holds as long as the configuration
\* and the accepted commands keep the fixed link on a foot.
AbortsOffTheFeet ==
  misuse = "assertion" => ~(named \cup {config.link} \subseteq Feet)

\* The thread is there for whoever uses it, unless quit closes the module
\* too, or a command was under way when the module closed.
ThreadIsThere ==
  misuse = "thread" => closer["rpc"] # "no" \/ command # NoCommand
================================================================================
