----------------------------- MODULE Devices_proofs -----------------------------
(***************************************************************************)
(* The two odometries stand on the links that were asked for; what a client *)
(* sends is what its server understands, and what it marks as sent arrives; *)
(* and what must not be interrupted is not: runs by commands, groups of    *)
(* edits by what is sent, a smoothing by a jump of the offset.             *)
(***************************************************************************)
EXTENDS Measures_proofs, SequenceTheorems

--------------------------------------------------------------------------------
(* FloatingBase *)

\* The holder of deviceMutex is the one that is at work
Holder ==
  /\ base_mutex = "owner" <=> base_owner # "idle"
  /\ base_mutex = "thread" <=> base_thread = "running"
  /\ base_owner # "idle" => base_device = "attached"
  /\ base_owner = "closing" => base_thread = "none"

\* What the device has read, and what it has made of it
Settled == base_device \in {"open", "attached", "detached"} => base_settings \in F!Links
InModel == base_odometry # F!Unset =>
      {base_odometry.fixed, base_odometry.world} \subseteq base_ModelFrames
Initialised ==
  base_configured => base_odometry \in F!Links
      /\ {base_odometry.fixed, base_odometry.world} \subseteq base_ModelFrames

BaseKept == F!TypeOK /\ Holder /\ Settled /\ InModel /\ Initialised /\ F!PosesOfModelFrames
    /\ F!FollowsTheCommands

\* The types of the commands.
LEMMA BaseRequests ==
  /\ \A c \in F!Commands :
       /\ c.kind = "reset" => c.links \in F!Links
       /\ c.kind = "change" => c.links.fixed \in base_Frames
       /\ c.kind \in {"reset", "change", "get"}
  /\ F!Command("idle", F!Unset) \in F!Port /\ F!Command("closed", F!Unset) \in F!Port
  /\ \A c \in F!Port : c.kind \in {"idle", "closed"}
BY DEF F!Commands, F!Command, F!Port, F!Unset

\* The device starts closed.
LEMMA BaseInit == base_MaxCommands \in Nat /\ F!Init => BaseKept
<1> SUFFICES ASSUME base_MaxCommands \in Nat, F!Init PROVE BaseKept
  OBVIOUS
<1>0. {base_moved, base_configured} \subseteq BOOLEAN
  BY Zenon DEF F!Init
<1>1. F!TypeOK
  <2>1. base_rpc \in F!Commands \cup F!Port
    BY BaseRequests DEF F!Init
  <2>2. base_odometry \in F!Links \cup {F!Unset} /\ base_published \in F!Links \cup {F!Nothing}
    BY DEF F!Init
  <2>3. base_served \in 0 .. base_MaxCommands
    BY DEF F!Init
  <2>4. QED
    BY <1>0, <2>1, <2>2, <2>3, Zenon DEF F!Init, F!TypeOK
<1>2. Holder /\ Settled /\ InModel
  BY DEF F!Init, Holder, Settled, InModel, F!None
<1>3. Initialised /\ F!PosesOfModelFrames /\ F!FollowsTheCommands
  BY DEF F!Init, Initialised, F!PosesOfModelFrames, F!FollowsTheCommands
<1>4. QED
  BY <1>1, <1>2, <1>3 DEF BaseKept

\* A run initialises the odometry if nobody has, and publishes its pose.
LEMMA BaseRun ==
  ASSUME BaseKept, NEW reads \in BOOLEAN, NEW estimates \in BOOLEAN, F!Run(reads, estimates)
  PROVE  BaseKept'
<1> DEFINE good == F!Started(base_settings, base_moved \/ estimates)
           start == reads /\ ~base_configured /\ good
<1>1. /\ base_thread = "running" /\ base_thread' = "asleep" /\ base_mutex' = F!None
      /\ UNCHANGED <<base_settings, base_device, base_owner, base_rpc, base_served>>
  BY DEF F!Run, F!RunWith
<1>2. base_settings \in F!Links /\ base_device = "attached" /\ base_owner = "idle"
  BY <1>1 DEF BaseKept, F!TypeOK, Holder, Settled
<1>3. base_moved' = (base_moved \/ (reads /\ estimates))
    /\ base_configured' = (base_configured \/ start)
  BY DEF F!Run, F!RunWith
<1>4. CASE start
  <2>1. base_odometry' = base_settings /\ base_asked' = base_settings /\ base_configured'
    BY <1>3, <1>4 DEF F!Run, F!RunWith, F!Started
  <2>2. {base_settings.fixed, base_settings.world} \subseteq base_ModelFrames
    BY <1>4 DEF F!Started
  <2>3. base_published' = base_settings \/ base_published' = base_published
    BY <2>1 DEF F!Run, F!RunWith
  <2>4. QED
    BY <1>1, <1>2, <1>3, <2>1, <2>2, <2>3
    DEF BaseKept, F!TypeOK, Holder, Settled, InModel, Initialised, F!PosesOfModelFrames,
        F!FollowsTheCommands, F!None
<1>5. CASE ~start
  <2>1. base_odometry' = base_odometry /\ base_asked' = base_asked
      /\ base_configured' = base_configured
    BY <1>3, <1>5 DEF F!Run, F!RunWith, BaseKept, F!TypeOK
  <2>2. base_published' = base_published \/ (base_configured /\ base_published' = base_odometry)
    BY <2>1 DEF F!Run, F!RunWith
  <2>3. base_configured => base_odometry \in F!Links
      /\ {base_odometry.fixed, base_odometry.world} \subseteq base_ModelFrames
    BY DEF BaseKept, Initialised
  <2>4. QED
    BY <1>1, <1>2, <1>3, <2>1, <2>2, <2>3
    DEF BaseKept, F!TypeOK, Holder, Settled, InModel, Initialised, F!PosesOfModelFrames,
        F!FollowsTheCommands, F!None
<1>6. QED
  BY <1>4, <1>5

\* A command is served with the mutex, and refused for links that the model lacks.
LEMMA BaseServe ==
  ASSUME BaseKept, F!Serve
  PROVE  BaseKept'
<1>1. /\ base_mutex = F!None /\ base_rpc \in F!Commands /\ base_rpc' = F!Command("idle", F!Unset)
      /\ UNCHANGED <<base_settings, base_device, base_owner, base_thread, base_mutex, base_served,
                     base_moved, base_configured, base_published>>
  BY DEF F!Serve, F!ServeWhen
<1>2. CASE base_rpc.kind = "reset"
  <2>1. base_odometry' = F!Start(base_rpc.links, base_moved) /\ base_rpc.links \in F!Links
        /\ base_asked' =
             IF F!Started(base_rpc.links, base_moved) THEN base_rpc.links ELSE base_asked
    BY <1>1, <1>2, BaseRequests DEF F!Serve, F!ServeWhen
  <2>2. QED
    BY <1>1, <2>1, BaseRequests
    DEF F!Start, F!Started, BaseKept, F!TypeOK, Holder, Settled, InModel, Initialised,
        F!PosesOfModelFrames, F!FollowsTheCommands
<1>3. CASE base_rpc.kind = "change"
  <2>1. /\ base_odometry' = F!ChangeTo(base_rpc.links.fixed) /\ base_rpc.links.fixed \in base_Frames
        /\ base_asked' = IF base_odometry'.fixed = base_rpc.links.fixed
                    THEN [base_asked EXCEPT !.fixed = base_rpc.links.fixed] ELSE base_asked
    BY <1>1, <1>3, BaseRequests DEF F!Serve, F!ServeWhen
  <2>2. CASE base_rpc.links.fixed \in base_ModelFrames /\ base_odometry # F!Unset
    <3>1. base_odometry' = [base_odometry EXCEPT !.fixed = base_rpc.links.fixed]
        /\ base_odometry \in F!Links
      BY <2>1, <2>2 DEF F!ChangeTo, BaseKept, F!TypeOK
    <3>2. base_odometry' \in F!Links /\ base_odometry'.fixed = base_rpc.links.fixed
        /\ base_odometry'.world = base_odometry.world
      BY <2>1, <3>1 DEF F!Links
    <3>3. base_asked' = [base_asked EXCEPT !.fixed = base_rpc.links.fixed]
      BY <2>1, <3>2
    <3>4. QED
      BY <1>1, <2>2, <3>1, <3>2, <3>3, BaseRequests
      DEF BaseKept, F!TypeOK, Holder, Settled, InModel, Initialised, F!PosesOfModelFrames,
          F!FollowsTheCommands
  <2>3. CASE ~(base_rpc.links.fixed \in base_ModelFrames /\ base_odometry # F!Unset)
    <3>1. base_odometry' = base_odometry
      BY <2>1, <2>3 DEF F!ChangeTo
    <3>2. base_configured => base_asked' = base_asked
      BY <2>1, <3>1 DEF BaseKept, Initialised, F!FollowsTheCommands, F!Links
    <3>3. QED
      BY <1>1, <3>1, <3>2, BaseRequests
      DEF BaseKept, F!TypeOK, Holder, Settled, InModel, Initialised, F!PosesOfModelFrames,
          F!FollowsTheCommands
  <2>4. QED
    BY <2>2, <2>3
<1>4. CASE base_rpc.kind \notin {"reset", "change"}
  <2>1. UNCHANGED <<base_odometry, base_asked>>
    BY <1>4 DEF F!Serve, F!ServeWhen
  <2>2. QED
    BY <1>1, <2>1, BaseRequests
    DEF BaseKept, F!TypeOK, Holder, Settled, InModel, Initialised, F!PosesOfModelFrames,
        F!FollowsTheCommands
<1>5. QED
  BY <1>2, <1>3, <1>4

\* Every step keeps the invariant.
LEMMA BaseNext == base_MaxCommands \in Nat /\ BaseKept /\ [F!Next]_(F!baseVars) => BaseKept'
<1> SUFFICES ASSUME base_MaxCommands \in Nat, BaseKept, [F!Next]_(F!baseVars) PROVE BaseKept'
  OBVIOUS
<1> USE DEF BaseKept, F!TypeOK, Holder, Settled, InModel, Initialised, F!PosesOfModelFrames, F!FollowsTheCommands, F!None
<1>1. ASSUME NEW x \in BOOLEAN, NEW y \in BOOLEAN, NEW z \in BOOLEAN, F!Open(x, y, z) PROVE BaseKept'
  BY <1>1, BaseRequests DEF F!Open
<1>2. ASSUME NEW x \in BOOLEAN, F!AttachAll(x) PROVE BaseKept'
  BY <1>2 DEF F!AttachAll
<1>3. CASE F!DetachBegin
  BY <1>3 DEF F!DetachBegin
<1>4. CASE F!DetachStop
  BY <1>4 DEF F!DetachStop, F!DetachStopWhen
<1>5. CASE F!DetachEnd
  BY <1>5, BaseRequests DEF F!DetachEnd
<1>6. CASE F!Close
  BY <1>6 DEF F!Close
<1>7. CASE F!Wake
  BY <1>7 DEF F!Wake
<1>8. CASE F!Lock
  BY <1>8 DEF F!Lock
<1>9. ASSUME NEW x \in BOOLEAN, NEW y \in BOOLEAN, F!Run(x, y) PROVE BaseKept'
  BY <1>9, BaseRun
<1>10. ASSUME NEW c \in F!Commands, F!Ask(c) PROVE BaseKept'
  BY <1>10 DEF F!Ask
<1>11. CASE F!Serve
  BY <1>11, BaseServe
<1>12. CASE UNCHANGED F!baseVars
  BY <1>12 DEF F!baseVars
<1>13. QED
  BY <1>1, <1>2, <1>3, <1>4, <1>5, <1>6, <1>7, <1>8, <1>9, <1>10, <1>11, <1>12 DEF F!Next

\* The invariant of the floating base.
LEMMA BaseAlways == F!Spec => []BaseKept
BY BaseInit, BaseNext, BaseAssumption, PTL DEF F!Spec

\* The variables keep their types, and the thread exists only while the device is attached.
THEOREM BaseTypes == F!Spec => []F!TypeOK
<1>1. BaseKept => F!TypeOK
  BY DEF BaseKept
<1>2. QED
  BY <1>1, BaseAlways, PTL

\* A pose is published only of links that the model has, whatever is configured or asked.
THEOREM PublishesModelFrames == F!Spec => []F!PosesOfModelFrames
<1>1. BaseKept => F!PosesOfModelFrames
  BY DEF BaseKept
<1>2. QED
  BY <1>1, BaseAlways, PTL

\* The odometry is that of the last command accepted, or of the configuration: a refused
\* command changes nothing, and the first run does not undo a command.
THEOREM CommandsAreFollowed == F!Spec => []F!FollowsTheCommands
<1>1. BaseKept => F!FollowsTheCommands
  BY DEF BaseKept
<1>2. QED
  BY <1>1, BaseAlways, PTL

\* The odometry does not change under a run, because run and the commands take deviceMutex.
THEOREM OneOdometryInARun == F!Spec => F!RunSeesOneOdometry
<1>1. ASSUME BaseKept, [F!Next]_(F!baseVars), base_thread = "running", base_thread' = "running"
      PROVE  base_odometry' = base_odometry
  <2>1. base_mutex = "thread"
    BY <1>1 DEF BaseKept, Holder
  <2>2. QED
    BY <1>1, <2>1
    DEF F!Next, F!Open, F!AttachAll, F!DetachBegin, F!DetachStop, F!DetachStopWhen, F!DetachEnd,
        F!Close, F!Wake, F!Lock,
        F!Run, F!RunWith, F!Ask, F!Serve, F!ServeWhen, F!baseVars, F!None
<1>2. BaseKept /\ [F!Next]_(F!baseVars) =>
        [base_thread = "running" /\ base_thread' = "running" => base_odometry' = base_odometry]_(F!baseVars)
  BY <1>1
<1>3. QED
  BY <1>2, BaseAlways, PTL DEF F!Spec, F!RunSeesOneOdometry

\* A behaviour of all the components is one of FloatingBase, which takes its steps or none.
LEMMA BaseBehaves == AllSpec => F!Spec
<1>1. AllInit => F!Init
  BY DEF AllInit
<1>2. [AllNext]_allVars => [F!Next]_(F!baseVars)
  BY DEF AllNext, allVars, baseVars, F!baseVars, DeviceEstimationRuns, ContactPointsRuns,
         SettingsEditorRuns, RemoteCallsRuns, FloatingBaseRuns, VirtualAnalogRuns,
         OffsetSmoothingRuns, TreeOdometryRuns, TreeContactsRuns
<1>3. QED
  BY <1>1, <1>2, PTL DEF AllSpec, F!Spec

--------------------------------------------------------------------------------
(* TreeOdometry *)

\* Before threadInit there is nothing
OdometryEarly == tree_phase \in {"absent", "starting", "failed"}
OdometryLife ==
  /\ OdometryEarly => ~tree_enabled /\ tree_named = {} /\ ~tree_strayed
     /\ {tree_odometry, tree_current, tree_estimator} = {H!Nowhere}
  /\ tree_phase = "running" /\ H!BaseIsKnown /\ H!ExtrasAreKnown =>
       {"state"} \cup tree_config.streams \subseteq tree_ports
  /\ tree_phase = "deleted" => "closed" \in {tree_closer["main"], tree_closer["rpc"]}
  /\ tree_closer["main"] \in {"closing", "stopping", "closed"} => ~OdometryEarly

\* The links come from the configuration and from accepted commands, and differ only after a reset
OdometryLinks ==
  /\ ~OdometryEarly =>
       {tree_odometry, tree_current, tree_estimator} \subseteq tree_named \cup {tree_config.link}
  /\ tree_phase = "running" /\ ~tree_strayed =>
       tree_current = tree_estimator /\ (tree_enabled => tree_odometry = tree_current)

OdometryTyped == H!TypeOK /\ tree_MaxCommands \in Nat
OdometryKept == OdometryTyped /\ OdometryLife /\ OdometryLinks /\ H!PortsAreThere
    /\ H!AbortsOffTheFeet /\ H!ThreadIsThere

\* Nothing has been started.
LEMMA OdometryInit == tree_MaxCommands \in Nat /\ H!Init => OdometryKept
<1> SUFFICES ASSUME tree_MaxCommands \in Nat, H!Init PROVE OdometryKept
  OBVIOUS
<1>1. H!TypeOK
  <2>1. tree_closer \in [main : {"updates", "closing", "stopping", "closed"},
                    rpc : {"no", "closing", "stopping", "closed"}]
    BY DEF H!Init
  <2>2. tree_wrenches \in [computed : tree_ModelFrames \cup {H!Nowhere, "whole"},
                      read : tree_ModelFrames \cup {H!Nowhere, "whole"}]
    BY DEF H!Init
  <2>3. tree_commands \in 0 .. tree_MaxCommands
    BY DEF H!Init
  <2>4. {tree_odometry, tree_current, tree_estimator} \subseteq tree_ModelFrames \cup {H!Nowhere}
    BY DEF H!Init
  <2>5. QED
    BY <2>1, <2>2, <2>3, <2>4, Zenon DEF H!Init, H!TypeOK
<1>2. OdometryLife /\ OdometryLinks
  BY DEF H!Init, OdometryLife, OdometryLinks, OdometryEarly
<1>3. H!PortsAreThere /\ H!AbortsOffTheFeet /\ H!ThreadIsThere
  BY DEF H!Init, H!PortsAreThere, H!AbortsOffTheFeet, H!ThreadIsThere
<1>4. QED
  BY <1>1, <1>2, <1>3 DEF OdometryKept, OdometryTyped

\* An action that finds nothing misused, and misuses nothing, keeps the three last invariants.
LEMMA NothingMisused ==
  ASSUME tree_misuse' = "none"
  PROVE  (H!PortsAreThere /\ H!AbortsOffTheFeet /\ H!ThreadIsThere)'
BY DEF H!PortsAreThere, H!AbortsOffTheFeet, H!ThreadIsThere

\* The types of the commands.
LEMMA OdometryCommands ==
  ASSUME OdometryTyped
  PROVE  /\ tree_command.kind = "reset" => tree_command \in H!Resets
            /\ tree_command.link \in tree_Frames
         /\ tree_command.kind = "change" => tree_command \in H!Changes
            /\ tree_command.link \in tree_Frames
BY DEF OdometryTyped, H!TypeOK, H!NoCommand, H!Quit, H!Resets, H!Changes

\* threadInit opens the ports and initialises the odometry, or fails.
LEMMA OdometryThreadInit ==
  ASSUME OdometryKept, H!ThreadInit
  PROVE  OdometryKept'
<1>1. /\ tree_phase = "starting" /\ tree_phase' = "running" /\ tree_misuse' = "none"
      /\ UNCHANGED <<tree_config, tree_wrenches, tree_command, tree_commands, tree_named,
                     tree_strayed, tree_closer>>
  BY DEF H!ThreadInit, H!Works
<1>2. tree_enabled' = H!BaseIsKnown /\ tree_ports' = H!PortsOpened
  BY DEF H!ThreadInit, H!InitOdometry
<1>3. ~tree_enabled /\ tree_named = {} /\ ~tree_strayed /\ tree_odometry = H!Nowhere
    /\ tree_current = H!Nowhere /\ tree_estimator = H!Nowhere
  BY <1>1 DEF OdometryKept, OdometryLife, OdometryEarly
<1>4. tree_config \in H!Configs
    /\ (tree_config.group = "read" => tree_config.link \in tree_ModelFrames)
      /\ (tree_config.group # "read" => tree_config.link = H!Nowhere)
         /\ tree_config.streams \subseteq H!Streams
      /\ tree_config.base \in BOOLEAN
  BY DEF OdometryKept, OdometryTyped, H!TypeOK, H!Configs
<1>5. tree_odometry' = tree_config.link /\ tree_current' = tree_config.link
    /\ tree_estimator' = tree_config.link
  BY <1>3, <1>4 DEF H!ThreadInit, H!InitOdometry
<1>6. (H!PortsAreThere /\ H!AbortsOffTheFeet /\ H!ThreadIsThere)'
  BY <1>1, NothingMisused
<1>7. tree_enabled' \in BOOLEAN /\ tree_ports' \subseteq {"state"} \cup H!Streams
  BY <1>2, <1>4 DEF H!BaseIsKnown, H!PortsOpened
<1>8. OdometryTyped'
  BY <1>1, <1>4, <1>5, <1>7 DEF OdometryKept, OdometryTyped, H!TypeOK
<1>9. (H!BaseIsKnown /\ H!ExtrasAreKnown => {"state"} \cup tree_config.streams \subseteq tree_ports)'
  BY <1>1, <1>2 DEF H!BaseIsKnown, H!ExtrasAreKnown, H!PortsOpened
<1>10. OdometryLife'
  BY <1>1, <1>9 DEF OdometryKept, OdometryLife, OdometryEarly
<1>11. OdometryLinks'
  BY <1>1, <1>5 DEF OdometryLinks, OdometryEarly
<1>12. QED
  BY <1>6, <1>8, <1>10, <1>11 DEF OdometryKept

\* A run reads the estimates and publishes them.
LEMMA OdometryRun ==
  ASSUME OdometryKept, H!Run
  PROVE  OdometryKept'
<1>1. /\ tree_phase = "running" /\ tree_misuse' = "none"
      /\ tree_current' = IF tree_enabled THEN tree_odometry ELSE tree_current
      /\ UNCHANGED <<tree_config, tree_phase, tree_enabled, tree_odometry, tree_estimator,
                     tree_ports, tree_command, tree_commands, tree_named,
                     tree_strayed, tree_closer>>
  BY DEF H!Run, H!Works
<1>2. tree_wrenches' \in [computed : tree_ModelFrames \cup {H!Nowhere, "whole"},
                     read : tree_ModelFrames \cup {H!Nowhere, "whole"}]
  BY DEF H!Run, H!ComputedIn, H!ReadFrom, OdometryKept, OdometryTyped, H!TypeOK
<1>3. OdometryTyped'
  BY <1>1, <1>2 DEF OdometryKept, OdometryTyped, H!TypeOK
<1>4. OdometryLife'
  BY <1>1 DEF OdometryKept, OdometryLife, OdometryEarly, H!BaseIsKnown, H!ExtrasAreKnown
<1>5. OdometryLinks'
  BY <1>1 DEF OdometryKept, OdometryLinks, OdometryEarly
<1>6. QED
  BY <1>1, <1>3, <1>4, <1>5, NothingMisused DEF OdometryKept

\* A run that loses its sensors publishes nothing.
LEMMA OdometryRunFails ==
  ASSUME OdometryKept, H!RunFails
  PROVE  OdometryKept'
<1>1. /\ tree_phase = "running" /\ tree_misuse' \in {"assertion", "port", "model"}
      /\ tree_misuse' = "assertion" => H!ReadFails
      /\ tree_misuse' = "port" => H!PortMissing
      /\ UNCHANGED <<tree_config, tree_phase, tree_enabled, tree_odometry, tree_current,
                     tree_estimator, tree_ports, tree_wrenches, tree_command,
                     tree_commands, tree_named, tree_strayed, tree_closer>>
  BY DEF H!RunFails
<1>2. H!PortsAreThere'
  BY <1>1 DEF H!PortMissing, OdometryKept, OdometryLife, H!PortsAreThere, H!BaseIsKnown,
     H!ExtrasAreKnown
<1>3. H!AbortsOffTheFeet'
  BY <1>1 DEF H!ReadFails, OdometryKept, OdometryLinks, OdometryEarly, H!AbortsOffTheFeet
<1>4. H!ThreadIsThere'
  BY <1>1 DEF H!ThreadIsThere
<1>5. OdometryTyped'
  BY <1>1 DEF OdometryKept, OdometryTyped, H!TypeOK
<1>6. OdometryLife' /\ OdometryLinks'
  BY <1>1 DEF OdometryKept, OdometryLife, OdometryLinks, OdometryEarly, H!BaseIsKnown,
     H!ExtrasAreKnown
<1>7. QED
  BY <1>2, <1>3, <1>4, <1>5, <1>6 DEF OdometryKept

\* The commands on the odometry, served next to the runs.
LEMMA OdometryCommand ==
  ASSUME OdometryKept, H!Reset \/ H!ChangeLink
  PROVE  OdometryKept'
<1>1. /\ tree_phase \in {"starting", "running", "released"} /\ tree_command' = H!NoCommand
      /\ tree_command.link \in tree_Frames
      /\ UNCHANGED <<tree_config, tree_phase, tree_enabled, tree_ports, tree_wrenches,
                     tree_commands, tree_closer>>
  BY OdometryCommands DEF H!Reset, H!ChangeLink, OdometryKept
<1>2. CASE ~H!Accepted
  <2>1. UNCHANGED <<tree_odometry, tree_current, tree_estimator, tree_named, tree_strayed,
                    tree_misuse>> /\ tree_misuse = "none"
    BY <1>2 DEF H!Reset, H!ChangeLink, H!Works
  <2>2. OdometryTyped'
    BY <1>1, <2>1 DEF OdometryKept, OdometryTyped, H!TypeOK
  <2>3. OdometryLife' /\ OdometryLinks'
    BY <1>1, <2>1 DEF OdometryKept, OdometryLife, OdometryLinks, OdometryEarly, H!BaseIsKnown,
       H!ExtrasAreKnown
  <2>4. QED
    BY <2>1, <2>2, <2>3, NothingMisused DEF OdometryKept
<1>3. CASE H!Accepted
  <2>1. tree_enabled /\ tree_command.link \in tree_ModelFrames
      /\ tree_phase \in {"running", "released"}
    BY <1>1, <1>3 DEF H!Accepted, OdometryKept, OdometryLife, OdometryEarly
  <2>2. tree_named' = tree_named \cup {tree_command.link} /\ tree_odometry' = tree_command.link
    BY <1>3 DEF H!Reset, H!ChangeLink, H!ChangeAll
  <2>3. /\ tree_current' \in {tree_current, tree_command.link}
        /\ tree_estimator' \in {tree_estimator, tree_command.link}
        /\ tree_strayed' \in BOOLEAN /\ tree_misuse' \in {"none", "estimator"}
    BY <1>3 DEF H!Reset, H!ChangeLink, H!ChangeAll, H!Works
  <2>4. tree_phase = "running" /\ ~tree_strayed' =>
        tree_current' = tree_command.link /\ tree_estimator' = tree_command.link
    BY <1>3 DEF H!Reset, H!ChangeLink, H!ChangeAll
  <2>5. OdometryTyped'
    BY <1>1, <2>1, <2>2, <2>3 DEF OdometryKept, OdometryTyped, H!TypeOK
  <2>6. OdometryLife'
    BY <1>1, <2>1 DEF OdometryKept, OdometryLife, OdometryEarly, H!BaseIsKnown, H!ExtrasAreKnown
  <2>7. OdometryLinks'
    BY <1>1, <2>1, <2>2, <2>3, <2>4 DEF OdometryKept, OdometryLinks, OdometryEarly
  <2>8. (H!PortsAreThere /\ H!AbortsOffTheFeet /\ H!ThreadIsThere)'
    BY <2>3 DEF H!PortsAreThere, H!AbortsOffTheFeet, H!ThreadIsThere
  <2>9. QED
    BY <2>5, <2>6, <2>7, <2>8 DEF OdometryKept
<1>4. QED
  BY <1>2, <1>3

\* A command arrives.
LEMMA OdometryReceive ==
  ASSUME OdometryKept, NEW c \in H!Resets \cup H!Changes \cup {H!Quit}, H!Receive(c)
  PROVE  OdometryKept'
<1>1. /\ tree_commands' = tree_commands + 1 /\ tree_commands < tree_MaxCommands
      /\ tree_command' \in {H!NoCommand, c}
      /\ tree_closer' = IF c =
           H!Quit THEN [tree_closer EXCEPT !["rpc"] = "closing"] ELSE tree_closer
      /\ UNCHANGED <<tree_config, tree_phase, tree_enabled, tree_odometry, tree_current,
                     tree_estimator, tree_ports, tree_wrenches, tree_named,
                     tree_strayed>>
      /\ tree_misuse' = "none"
      /\ tree_closer["rpc"] = "no"
  BY DEF H!Receive, H!Works
<1>2. OdometryTyped'
  BY <1>1 DEF OdometryKept, OdometryTyped, H!TypeOK
<1>3. OdometryLife'
  BY <1>1 DEF OdometryKept, OdometryLife, OdometryEarly, H!BaseIsKnown, H!ExtrasAreKnown,
     OdometryTyped, H!TypeOK
<1>4. OdometryLinks'
  BY <1>1 DEF OdometryKept, OdometryLinks, OdometryEarly
<1>5. QED
  BY <1>1, <1>2, <1>3, <1>4, NothingMisused DEF OdometryKept

\* A caller of close: when it finds no thread, the other caller was there.
LEMMA OdometryClose ==
  ASSUME OdometryKept, NEW who \in {"main", "rpc"}, H!CloseBegins(who) \/ H!ThreadRelease(who) \/ H!DeleteThread(who)
  PROVE  OdometryKept'
<1>1. UNCHANGED <<tree_config, tree_enabled, tree_odometry, tree_current, tree_estimator,
                  tree_wrenches, tree_commands, tree_named, tree_strayed>>
  BY DEF H!CloseBegins, H!ThreadRelease, H!DeleteThread
<1>2. CASE H!CloseBegins(who)
  <2>1. /\ tree_closer[who] = "closing" /\ UNCHANGED <<tree_phase, tree_ports, tree_command>>
        /\ \/ tree_misuse' = "thread" /\ tree_phase \in {"absent", "deleted"}
              /\ tree_closer' = tree_closer
           \/ tree_misuse' = "none" /\ tree_phase \notin {"absent", "deleted"}
              /\ tree_closer' = [tree_closer EXCEPT ![who] = "stopping"]
    BY <1>2 DEF H!CloseBegins, H!Works
  <2>2. OdometryTyped'
    BY <1>1, <2>1 DEF OdometryKept, OdometryTyped, H!TypeOK
  <2>3. OdometryLife'
    BY <1>1, <2>1 DEF OdometryKept, OdometryLife, OdometryEarly, H!BaseIsKnown, H!ExtrasAreKnown,
       OdometryTyped, H!TypeOK
  <2>4. OdometryLinks'
    BY <1>1, <2>1 DEF OdometryKept, OdometryLinks, OdometryEarly
  <2>5. H!ThreadIsThere'
    BY <2>1 DEF OdometryKept, OdometryLife, OdometryEarly, H!ThreadIsThere
  <2>6. (H!PortsAreThere /\ H!AbortsOffTheFeet)'
    BY <2>1 DEF H!PortsAreThere, H!AbortsOffTheFeet
  <2>7. QED
    BY <2>2, <2>3, <2>4, <2>5, <2>6 DEF OdometryKept
<1>3. CASE H!ThreadRelease(who)
  <2>1. tree_phase = "running" /\ tree_phase' = "released" /\ tree_ports' = {}
      /\ tree_misuse' \in {"none", "port"}
        /\ UNCHANGED <<tree_command, tree_closer>>
    BY <1>3 DEF H!ThreadRelease
  <2>2. H!BaseIsKnown /\ H!ExtrasAreKnown => tree_misuse' = "none"
    BY <1>3, <2>1 DEF H!ThreadRelease, H!BaseIsKnown, OdometryKept, OdometryLife
  <2>3. OdometryTyped'
    BY <1>1, <2>1 DEF OdometryKept, OdometryTyped, H!TypeOK
  <2>4. OdometryLife' /\ OdometryLinks'
    BY <1>1, <2>1 DEF OdometryKept, OdometryLife, OdometryLinks, OdometryEarly
  <2>5. (H!PortsAreThere /\ H!AbortsOffTheFeet /\ H!ThreadIsThere)'
    BY <1>1, <2>1, <2>2 DEF H!PortsAreThere, H!AbortsOffTheFeet, H!ThreadIsThere, H!BaseIsKnown,
       H!ExtrasAreKnown
  <2>6. QED
    BY <2>3, <2>4, <2>5 DEF OdometryKept
<1>4. CASE H!DeleteThread(who)
  <2>1. /\ tree_closer[who] = "stopping" /\ tree_phase \in {"released", "deleted"}
        /\ tree_phase' = "deleted"
        /\ tree_misuse' = "none" \/ (tree_misuse' = "thread" /\ tree_phase = "deleted")
        /\ tree_closer' = [tree_closer EXCEPT ![who] = "closed"]
        /\ tree_command' \in {H!NoCommand, tree_command}
        /\ UNCHANGED tree_ports
    BY <1>4 DEF H!DeleteThread
  <2>2. tree_closer'[who] = "closed"
      /\ \A w \in {"main", "rpc"} \ {who} : tree_closer'[w] = tree_closer[w]
    BY <2>1 DEF OdometryKept, OdometryTyped, H!TypeOK
  <2>3. OdometryTyped'
    BY <1>1, <2>1 DEF OdometryKept, OdometryTyped, H!TypeOK
  <2>4. OdometryLife' /\ OdometryLinks'
    BY <1>1, <2>1, <2>2 DEF OdometryKept, OdometryLife, OdometryLinks, OdometryEarly
  <2>5. H!ThreadIsThere'
    BY <2>1, <2>2 DEF OdometryKept, OdometryLife, H!ThreadIsThere
  <2>6. (H!PortsAreThere /\ H!AbortsOffTheFeet)'
    BY <2>1 DEF H!PortsAreThere, H!AbortsOffTheFeet
  <2>7. QED
    BY <2>3, <2>4, <2>5, <2>6 DEF OdometryKept
<1>5. QED
  BY <1>2, <1>3, <1>4

\* Every step keeps the invariant.
LEMMA OdometryNext == OdometryKept /\ [H!Next]_(H!vars) => OdometryKept'
<1> SUFFICES ASSUME OdometryKept, [H!Next]_(H!vars) PROVE OdometryKept'
  OBVIOUS
<1>1. CASE H!Configure \/ H!ThreadInitFails \/ H!Leave
  <2>1. /\ tree_misuse' = "none"
        /\ UNCHANGED <<tree_config, tree_enabled, tree_odometry, tree_current, tree_estimator,
                       tree_ports, tree_wrenches, tree_command, tree_commands,
                       tree_named, tree_strayed>>
    BY <1>1 DEF H!Configure, H!ThreadInitFails, H!Leave, H!Works
  <2>2. \/ OdometryEarly /\ OdometryEarly' /\ tree_closer' = tree_closer
           /\ tree_phase' \in {"starting", "failed"}
        \/ tree_phase \in {"running", "released", "deleted"} /\ tree_phase' = tree_phase
           /\ tree_closer["main"] = "updates"
           /\ tree_closer' = [tree_closer EXCEPT !["main"] = "closing"]
    BY <1>1 DEF H!Configure, H!ThreadInitFails, H!Leave, OdometryEarly
  <2>3. OdometryTyped'
    BY <2>1, <2>2 DEF OdometryKept, OdometryTyped, H!TypeOK
  <2>4. OdometryLife'
    BY <2>1, <2>2 DEF OdometryKept, OdometryLife, OdometryEarly, H!BaseIsKnown, H!ExtrasAreKnown,
       OdometryTyped, H!TypeOK
  <2>5. OdometryLinks'
    BY <2>1, <2>2 DEF OdometryKept, OdometryLinks, OdometryEarly
  <2>6. QED
    BY <2>1, <2>3, <2>4, <2>5, NothingMisused DEF OdometryKept
<1>2. CASE H!CallDeleted
  <2>1. /\ tree_command # H!NoCommand /\ tree_misuse' = "thread"
        /\ UNCHANGED <<tree_config, tree_phase, tree_enabled, tree_odometry, tree_current,
                       tree_estimator, tree_ports, tree_wrenches, tree_command,
                       tree_commands, tree_named, tree_strayed, tree_closer>>
    BY <1>2 DEF H!CallDeleted, H!NoCommand
  <2>2. OdometryTyped' /\ OdometryLife' /\ OdometryLinks'
    BY <2>1 DEF OdometryKept, OdometryTyped, H!TypeOK, OdometryLife, OdometryLinks, OdometryEarly,
       H!BaseIsKnown, H!ExtrasAreKnown
  <2>3. QED
    BY <2>1, <2>2 DEF OdometryKept, H!PortsAreThere, H!AbortsOffTheFeet, H!ThreadIsThere
<1>3. CASE UNCHANGED H!vars
  BY <1>3
  DEF H!vars, OdometryKept, OdometryTyped, H!TypeOK, OdometryLife, OdometryLinks, OdometryEarly,
      H!BaseIsKnown, H!ExtrasAreKnown, H!PortsAreThere,
      H!AbortsOffTheFeet, H!ThreadIsThere
<1>4. QED
  BY <1>1, <1>2, <1>3, OdometryThreadInit, OdometryRun, OdometryRunFails, OdometryCommand,
     OdometryReceive, OdometryClose DEF H!Next

\* The invariant of the odometry.
LEMMA OdometryAlways == H!Spec => []OdometryKept
BY OdometryInit, OdometryNext, OdometryAssumption, PTL DEF H!Spec

\* The variables keep their types: in particular no object ever names a link that the model lacks.
THEOREM OdometryTypes == H!Spec => []H!TypeOK
<1>1. OdometryKept => H!TypeOK
  BY DEF OdometryKept, OdometryTyped
<1>2. QED
  BY <1>1, OdometryAlways, PTL

\* The thread, the odometry and the estimator name one link, unless a reset came since the last
\* change of the fixed link.
THEOREM OneFixedLink == H!Spec => []H!LinksAgree
<1>1. OdometryKept => H!LinksAgree
  BY DEF OdometryKept, OdometryLinks, H!LinksAgree
<1>2. QED
  BY <1>1, OdometryAlways, PTL

\* With a valid configuration, only ports that are open are written and closed.
THEOREM PortsAreOpen == H!Spec => []H!PortsAreThere
<1>1. OdometryKept => H!PortsAreThere
  BY DEF OdometryKept
<1>2. QED
  BY <1>1, OdometryAlways, PTL

\* The assertion of getExternalWrenches fails only when some accepted name is not that of a foot.
THEOREM AssertionHoldsOnTheFeet == H!Spec => []H!AbortsOffTheFeet
<1>1. OdometryKept => H!AbortsOffTheFeet
  BY DEF OdometryKept
<1>2. QED
  BY <1>1, OdometryAlways, PTL

\* The deleted thread is used only if quit closes the module or a command is under way.
THEOREM ThreadOutlivesItsUsers == H!Spec => []H!ThreadIsThere
<1>1. OdometryKept => H!ThreadIsThere
  BY DEF OdometryKept
<1>2. QED
  BY <1>1, OdometryAlways, PTL

\* Wrenches are read from the model in which they were computed, unless a reset came since the
\* fixed link was last changed.
THEOREM ReadsTheModelComputed == H!Spec => H!ReadsWhatWasComputed
<1>1. ASSUME OdometryKept, [H!Next]_(H!vars), tree_wrenches' # tree_wrenches
      PROVE  tree_wrenches'.computed = tree_wrenches'.read \/ tree_strayed
  <2>1. CASE H!Run
    <3>1. tree_wrenches' = [computed |-> H!ComputedIn, read |-> H!ReadFrom]
        /\ tree_config.wrenchPorts /\ ~H!ReadFails
      BY <1>1, <2>1 DEF H!Run
    <3>2. tree_strayed \/ tree_current = tree_estimator
      BY <1>1, <2>1 DEF H!Run, OdometryKept, OdometryLinks
    <3>3. QED
      BY <3>1, <3>2 DEF H!ReadFails, H!ComputedIn, H!ReadFrom
  <2>2. CASE ~H!Run
    <3>1. UNCHANGED tree_wrenches
      BY <1>1, <2>2
      DEF H!Next, H!Configure, H!ThreadInit, H!ThreadInitFails, H!RunFails, H!Receive, H!Reset,
          H!ChangeLink, H!CallDeleted,
          H!Leave, H!CloseBegins, H!ThreadRelease, H!DeleteThread, H!vars
    <3>2. QED
      BY <1>1, <3>1
  <2>3. QED
    BY <2>1, <2>2
<1>2. OdometryKept /\ [H!Next]_(H!vars) =>
        [tree_wrenches' # tree_wrenches => tree_wrenches'.computed = tree_wrenches'.read \/ tree_strayed]_(H!vars)
  BY <1>1
<1>3. QED
  BY <1>2, OdometryAlways, PTL DEF H!Spec, H!ReadsWhatWasComputed

\* A behaviour of all the components is one of TreeOdometry, which takes its steps or none.
LEMMA OdometryBehaves == AllSpec => H!Spec
<1>1. AllInit => H!Init
  BY DEF AllInit
<1>2. [AllNext]_allVars => [H!Next]_(H!vars)
  BY DEF AllNext, allVars, treeVars, H!vars, DeviceEstimationRuns, ContactPointsRuns,
         SettingsEditorRuns, RemoteCallsRuns, FloatingBaseRuns, VirtualAnalogRuns,
         OffsetSmoothingRuns, TreeOdometryRuns, TreeContactsRuns
<1>3. QED
  BY <1>1, <1>2, PTL DEF AllSpec, H!Spec

--------------------------------------------------------------------------------
(* SettingsEditor *)

Gravity == {"x", "y", "z"}
\* Settings of which gravity is one vector.
Edits == {e \in [E!AllPieces -> edit_Values] : \A p, q \in Gravity : e[p] = e[q]}
\* What write() makes of the edits of a few fields.
Patches == {E!Patch(e, m, E!Cardinality(m)) : e \in Edits, m \in (SUBSET E!Fields) \ {{}}}

\* The settings of the device once the patch that it reads has been read.
Arrived(p) == IF p \in DOMAIN edit_rest THEN edit_rest[p] ELSE edit_remote[p]
\* The wire brings a piece to a value: the last patch with the piece does, or none has it and
\* it is so already.
Brings(w, before, p, v) ==
  /\ \A i \in DOMAIN w : /\ p \in DOMAIN w[i].values
                         /\ \A j \in DOMAIN w : i < j => p \notin DOMAIN w[j].values
                         => w[i].values[p] = v
  /\ (\A i \in DOMAIN w : p \notin DOMAIN w[i].values) => before = v

EditKept ==
  /\ edit_local \in Edits /\ edit_remote \in [E!AllPieces -> edit_Values]
  /\ edit_dirty \subseteq E!Fields /\ edit_count = E!Cardinality(edit_dirty)
  /\ edit_group \in 0..edit_MaxGroup /\ {edit_linked, edit_broken} \subseteq BOOLEAN
  /\ edit_wire \in Seq(Patches) /\ Len(edit_wire) <= edit_MaxWire
  /\ DOMAIN edit_rest \subseteq E!AllPieces
     /\ \A p \in DOMAIN edit_rest : edit_rest[p] \in edit_Values
  /\ ~edit_broken => /\ \A p, q \in Gravity : Arrived(p) = Arrived(q)
                     /\ \A p \in E!AllPieces : E!FieldOf(p) \notin edit_dirty =>
                          Brings(edit_wire, Arrived(p), p, edit_local[p])

\* The instance counts as the module of finite sets does.
LEMMA EditCounts == \A S : E!Cardinality(S) = Cardinality(S)
BY DEF Cardinality, E!Cardinality

\* The settings have finitely many fields, since their pieces are listed in order.
LEMMA FieldsAreFinite == IsFiniteSet(E!Fields)
<1>1. Len(edit_Order) \in Nat /\ DOMAIN edit_Order = 1..Len(edit_Order)
  BY EditAssumption
<1>2. IsFiniteSet(1..Len(edit_Order))
  BY <1>1, FS_Interval
<1>3. E!Fields = {E!FieldOf(edit_Order[i]) : i \in 1..Len(edit_Order)}
  BY <1>1 DEF E!Fields, E!AllPieces
<1> DEFINE f == [i \in 1..Len(edit_Order) |-> E!FieldOf(edit_Order[i])]
<1>4. f \in Surjection(1..Len(edit_Order), E!Fields)
  BY <1>3 DEF Surjection
<1>5. QED
  BY <1>2, <1>4, FS_Surjection

\* The count of the marks grows by one for a field that had none.
LEMMA MarksCount ==
  ASSUME NEW m \in SUBSET E!Fields
  PROVE  /\ IsFiniteSet(m) /\ E!Cardinality(m) \in 0..E!Cardinality(E!Fields)
         /\ E!Cardinality(E!Fields) \in Nat
         /\ m # {} => E!Cardinality(m) \in 1..E!Cardinality(E!Fields)
         /\ \A f \in E!Fields : E!Cardinality(m \cup {f}) =
              IF f \in m THEN E!Cardinality(m) ELSE E!Cardinality(m) + 1
<1>1. IsFiniteSet(m) /\ E!Cardinality(m) <= E!Cardinality(E!Fields)
  BY FieldsAreFinite, FS_Subset, EditCounts
<1>2. E!Cardinality(m) \in Nat /\ E!Cardinality(E!Fields) \in Nat
  BY <1>1, FieldsAreFinite, FS_CardinalityType, EditCounts
<1>3. m # {} => E!Cardinality(m) # 0
  BY <1>1, FS_EmptySet, EditCounts
<1>4. \A f \in E!Fields : E!Cardinality(m \cup {f}) =
      IF f \in m THEN E!Cardinality(m) ELSE E!Cardinality(m) + 1
  BY <1>1, FS_AddElement, EditCounts
<1>5. QED
  BY <1>1, <1>2, <1>3, <1>4

\* No field, no mark.
LEMMA NoMarks == E!Cardinality({}) = 0
BY FS_EmptySet, EditCounts

\* A patch has the pieces of the fields that it counts, with the values of one edit.
LEMMA PatchOfPieces ==
  ASSUME NEW n \in Patches
  PROVE  \E e \in Edits, m \in (SUBSET E!Fields) \ {{}} :
           /\ n.count = E!Cardinality(m) /\ DOMAIN n.values = E!Sent(m)
           /\ \A p \in E!Sent(m) : n.values[p] = e[p] /\ e[p] \in edit_Values
           /\ E!Sent(m) \subseteq E!AllPieces /\ m = {E!FieldOf(p) : p \in E!Sent(m)}
           /\ Gravity \subseteq E!Sent(m) \/ Gravity \cap E!Sent(m) = {}
<1>1. PICK e \in Edits, m \in (SUBSET E!Fields) \ {{}} : n = E!Patch(e, m, E!Cardinality(m))
  BY DEF Patches
<1>2. n.count = E!Cardinality(m) /\ n.values = [p \in E!Sent(m) |-> e[p]]
  BY <1>1 DEF E!Patch
<1>3. E!Sent(m) \subseteq E!AllPieces
  BY DEF E!Sent
<1>4. m = {E!FieldOf(p) : p \in E!Sent(m)}
  BY DEF E!Sent, E!Fields
<1>5. Gravity \subseteq E!Sent(m) \/ Gravity \cap E!Sent(m) = {}
  BY EditAssumption DEF Gravity, E!Sent, E!FieldOf
<1>6. \A p \in E!Sent(m) : n.values[p] = e[p] /\ e[p] \in edit_Values
  BY <1>2, <1>3 DEF Edits
<1>7. QED
  BY <1>2, <1>3, <1>4, <1>5, <1>6

\* A patch behind those on the way brings what it holds, and lets the others bring the rest.
LEMMA SendingBrings ==
  ASSUME NEW w \in Seq(Patches), NEW n \in Patches, NEW before, NEW p, NEW v,
         p \in DOMAIN n.values => n.values[p] = v,
         p \notin DOMAIN n.values => Brings(w, before, p, v)
  PROVE  Brings(Append(w, n), before, p, v)
<1> DEFINE a == Append(w, n)
<1>1. /\ Len(w) \in Nat /\ DOMAIN w = 1..Len(w) /\ DOMAIN a = 1..(Len(w) + 1)
      /\ \A i \in 1..Len(w) : a[i] = w[i]
      /\ a[Len(w) + 1] = n
  OBVIOUS
<1> HIDE DEF a
<1>2. CASE p \in DOMAIN n.values
  BY <1>1, <1>2 DEF Brings, a
<1>3. CASE p \notin DOMAIN n.values
  BY <1>1, <1>3 DEF Brings, a
<1>4. QED
  BY <1>2, <1>3

\* Reading the first patch on the way changes nothing of what they bring together.
LEMMA ReadingBrings ==
  ASSUME NEW w \in Seq(Patches), w # <<>>, NEW before, NEW p, NEW v, Brings(w, before, p, v)
  PROVE  Brings(Tail(w), IF p \in DOMAIN Head(w).values THEN Head(w).values[p] ELSE before, p, v)
<1> DEFINE t == Tail(w)
<1>1. /\ Len(w) \in Nat \ {0} /\ DOMAIN w = 1..Len(w) /\ DOMAIN t = 1..(Len(w) - 1)
      /\ \A i \in 1..(Len(w) - 1) : t[i] = w[i + 1] /\ i + 1 \in 1..Len(w)
      /\ Head(w) = w[1]
  OBVIOUS
<1>1a. \A i \in 2..Len(w) : i - 1 \in 1..(Len(w) - 1) /\ w[i] = t[i - 1]
  BY <1>1
<1> HIDE DEF t
<1>2. \A i \in DOMAIN t : /\ p \in DOMAIN t[i].values
                          /\ \A j \in DOMAIN t : i < j => p \notin DOMAIN t[j].values
                          => t[i].values[p] = v
  <2> SUFFICES ASSUME NEW i \in DOMAIN t, p \in DOMAIN t[i].values,
                      \A j \in DOMAIN t : i < j => p \notin DOMAIN t[j].values
               PROVE  t[i].values[p] = v
    OBVIOUS
  <2>1. p \in DOMAIN w[i + 1].values /\ i + 1 \in DOMAIN w
    BY <1>1
  <2>2. ASSUME NEW j \in DOMAIN w, i + 1 < j PROVE p \notin DOMAIN w[j].values
    <3>1. j \in 2..Len(w) /\ j - 1 \in DOMAIN t /\ i < j - 1
      BY <1>1, <2>2
    <3>2. QED
      BY <1>1a, <3>1
  <2>3. w[i + 1].values[p] = v
    BY <2>1, <2>2 DEF Brings
  <2>4. QED
    BY <1>1, <2>3
<1>3. ASSUME \A i \in DOMAIN t : p \notin DOMAIN t[i].values
      PROVE  (IF p \in DOMAIN Head(w).values THEN Head(w).values[p] ELSE before) = v
  <2>1. \A i \in 2..Len(w) : p \notin DOMAIN w[i].values
    BY <1>1, <1>1a, <1>3
  <2>2. CASE p \in DOMAIN w[1].values
    <3>1. \A j \in DOMAIN w : 1 < j => p \notin DOMAIN w[j].values
      BY <1>1, <2>1
    <3>2. 1 \in DOMAIN w
      BY <1>1
    <3>3. w[1].values[p] = v
      BY <2>2, <3>1, <3>2 DEF Brings
    <3>4. QED
      BY <1>1, <2>2, <3>3
  <2>3. CASE p \notin DOMAIN w[1].values
    <3>1. \A i \in DOMAIN w : p \notin DOMAIN w[i].values
      BY <1>1, <2>1, <2>3
    <3>2. QED
      BY <1>1, <2>3, <3>1 DEF Brings
  <2>4. QED
    BY <2>2, <2>3
<1>4. QED
  BY <1>2, <1>3 DEF Brings, t

\* No edit is marked, and no group open, at the start.
LEMMA EditInit == E!Init => EditKept
<1> SUFFICES ASSUME E!Init PROVE EditKept
  OBVIOUS
<1>1. edit_local \in Edits /\ edit_remote = edit_local
  BY DEF E!Init, Edits, Gravity
<1>2. edit_rest = E!Nothing /\ DOMAIN edit_rest = {}
  BY DEF E!Init, E!Nothing
<1>3. \A p : Arrived(p) = edit_remote[p]
  BY <1>2 DEF Arrived
<1>4. edit_wire = <<>> /\ DOMAIN edit_wire = {} /\ Len(edit_wire) = 0 /\ edit_wire \in Seq(Patches)
  BY DEF E!Init
<1>5. \A p \in E!AllPieces : Brings(edit_wire, Arrived(p), p, edit_local[p])
  BY <1>1, <1>3, <1>4 DEF Brings
<1>6. \A p, q \in Gravity : Arrived(p) = Arrived(q)
  BY <1>1, <1>3 DEF Edits
<1>7. /\ edit_dirty = {} /\ edit_count = E!Cardinality(edit_dirty) /\ edit_group = 0
      /\ edit_linked = FALSE /\ edit_broken = FALSE
  BY NoMarks DEF E!Init
<1>8. edit_remote \in [E!AllPieces -> edit_Values]
  BY <1>1 DEF Edits
<1>9. edit_group \in 0..edit_MaxGroup /\ Len(edit_wire) <= edit_MaxWire
  BY <1>4, <1>7, EditAssumption
<1>10. {edit_linked, edit_broken} \subseteq BOOLEAN /\ edit_dirty \subseteq E!Fields
  BY <1>7
<1>11. DOMAIN edit_rest \subseteq E!AllPieces
    /\ \A p \in DOMAIN edit_rest : edit_rest[p] \in edit_Values
  BY <1>2
<1>12. QED
  BY <1>1, <1>4, <1>5, <1>6, <1>7, <1>8, <1>9, <1>10, <1>11 DEF EditKept

\* What communicate does of the settings edited, whatever the client marked: p clean stays brought.
LEMMA EditSends ==
  ASSUME EditKept, NEW g \in Nat, NEW e \in Edits, NEW marks \in SUBSET E!Fields, marks # {},
         NEW arrives \in BOOLEAN, E!Communicate(g, e, marks, E!Cardinality(marks), arrives),
         Len(edit_wire) < edit_MaxWire, edit_dirty \subseteq marks,
         \A p \in E!AllPieces : E!FieldOf(p) \notin marks => e[p] = edit_local[p],
         edit_local' = e, edit_remote' = edit_remote, edit_rest' = edit_rest, edit_linked' =
               edit_linked,
         edit_group' \in 0..edit_MaxGroup
  PROVE  EditKept' /\ (g > 0 => edit_wire' = edit_wire)
<1> DEFINE n == E!Patch(e, marks, E!Cardinality(marks))
<1>a. /\ Patches' = Patches /\ Edits' = Edits /\ E!Fields' = E!Fields /\ E!AllPieces' = E!AllPieces
      /\ \A p : Arrived(p)' = Arrived(p)
  BY DEF Patches, Edits, E!Fields, E!AllPieces, Arrived
<1>1. n \in Patches
  BY DEF Patches
<1>2. /\ n.values = [p \in E!Sent(marks) |-> e[p]]
      /\ \A p \in E!AllPieces : p \in DOMAIN n.values <=> E!FieldOf(p) \in marks
  BY DEF E!Patch, E!Sent
<1>3. /\ edit_wire \in Seq(Patches) /\ Len(edit_wire) \in Nat /\ Len(edit_wire) <= edit_MaxWire
      /\ edit_broken \in BOOLEAN
      /\ edit_linked \in BOOLEAN /\ edit_remote \in [E!AllPieces -> edit_Values]
      /\ DOMAIN edit_rest \subseteq E!AllPieces
         /\ \A p \in DOMAIN edit_rest : edit_rest[p] \in edit_Values
      /\ edit_dirty \subseteq E!Fields /\ edit_count = E!Cardinality(edit_dirty)
      /\ ~edit_broken => /\ \A p, q \in Gravity : Arrived(p) = Arrived(q)
                         /\ \A p \in E!AllPieces : E!FieldOf(p) \notin edit_dirty =>
                              Brings(edit_wire, Arrived(p), p, edit_local[p])
  BY DEF EditKept
<1>4. \A p \in E!AllPieces : ~edit_broken /\ E!FieldOf(p) \notin marks =>
      Brings(edit_wire, Arrived(p), p, e[p])
  BY <1>3
<1>5. CASE g = 0 /\ edit_linked /\ arrives
  <2>1. edit_wire' = Append(edit_wire, n) /\ edit_broken' = edit_broken /\ edit_dirty' = {}
      /\ edit_count' = 0
    BY <1>3, <1>5 DEF E!Communicate, E!Sends
  <2> HIDE DEF n
  <2>2. edit_wire' \in Seq(Patches) /\ Len(edit_wire') <= edit_MaxWire
    BY <1>1, <1>3, <2>1, EditAssumption
  <2>3. ASSUME NEW p \in E!AllPieces, ~edit_broken PROVE Brings(edit_wire', Arrived(p), p, e[p])
    <3>1. p \in DOMAIN n.values => n.values[p] = e[p]
      BY <1>2
    <3>2. p \notin DOMAIN n.values => Brings(edit_wire, Arrived(p), p, e[p])
      BY <1>2, <1>4, <2>3
    <3>3. QED
      BY <1>1, <1>3, <2>1, <3>1, <3>2, SendingBrings
  <2>4. QED
    BY <1>a, <1>3, <1>5, <2>1, <2>2, <2>3, NoMarks DEF EditKept
<1>6. CASE g = 0 /\ edit_linked /\ ~arrives
  <2>1. edit_wire' = edit_wire /\ edit_broken' = TRUE /\ edit_dirty' = {} /\ edit_count' = 0
    BY <1>3, <1>6 DEF E!Communicate, E!Sends
  <2>2. QED
    BY <1>a, <1>3, <2>1, NoMarks DEF EditKept
<1>7. CASE ~(g = 0 /\ edit_linked)
  <2>1. edit_wire' = edit_wire /\ edit_broken' = edit_broken /\ edit_dirty' = marks
      /\ edit_count' = E!Cardinality(marks)
    BY <1>7 DEF E!Communicate, E!Sends
  <2>2. QED
    BY <1>a, <1>3, <1>4, <2>1 DEF EditKept
<1>8. QED
  BY <1>5, <1>6, <1>7

\* A setter marks its field, and sends what is marked outside of groups
\* (wholeBodyDynamicsSettings.h:199-330).
LEMMA EditSet ==
  ASSUME EditKept, NEW f \in E!Fields, NEW v \in edit_Values, NEW a \in BOOLEAN, E!Set(f, v, a)
  PROVE  EditKept' /\ (edit_group' > 0 => edit_wire' = edit_wire)
<1> DEFINE e == [p \in E!AllPieces |-> IF E!FieldOf(p) = f THEN v ELSE edit_local[p]]
<1>1. /\ Len(edit_wire) < edit_MaxWire /\ edit_local' = e /\ edit_group' = edit_group
      /\ edit_linked' = edit_linked /\ edit_rest' = edit_rest
      /\ edit_remote' = edit_remote
      /\ E!Communicate(edit_group, edit_local', edit_dirty \cup {f}, E!Mark(f), a)
  BY DEF E!Set
<1>2. edit_local \in Edits /\ edit_dirty \in SUBSET E!Fields
    /\ edit_count = E!Cardinality(edit_dirty) /\ edit_group \in 0..edit_MaxGroup
  BY DEF EditKept
<1>3. e \in Edits
  <2>1. \A p, q \in Gravity : E!FieldOf(p) = E!FieldOf(q) /\ p \in E!AllPieces
    BY EditAssumption DEF Gravity, E!FieldOf
  <2>2. QED
    BY <1>2, <2>1 DEF Edits
<1>4. E!Mark(f) = E!Cardinality(edit_dirty \cup {f})
  BY <1>2, MarksCount DEF E!Mark
<1>5. \A p \in E!AllPieces : E!FieldOf(p) \notin edit_dirty \cup {f} => e[p] = edit_local[p]
  OBVIOUS
<1> HIDE DEF e
<1>6. E!Communicate(edit_group, e, edit_dirty \cup {f}, E!Cardinality(edit_dirty \cup {f}), a)
  BY <1>1, <1>4
<1>7. /\ edit_dirty \cup {f} \in SUBSET E!Fields /\ edit_dirty \cup {f} # {}
      /\ edit_dirty \subseteq edit_dirty \cup {f}
      /\ edit_group \in Nat /\ edit_group' \in 0..edit_MaxGroup
  BY <1>1, <1>2
<1>8. QED
  BY <1>1, <1>3, <1>5, <1>6, <1>7, EditSends

\* The last end of a group sends what it marked (192-197).
LEMMA EditEnd ==
  ASSUME EditKept, NEW a \in BOOLEAN, E!End(a)
  PROVE  EditKept' /\ (edit_group' > 0 => edit_wire' = edit_wire)
<1>1. /\ edit_group > 0 /\ Len(edit_wire) < edit_MaxWire /\ edit_group' = edit_group - 1
      /\ edit_local' = edit_local
      /\ edit_linked' = edit_linked /\ edit_rest' = edit_rest /\ edit_remote' = edit_remote
  BY DEF E!End
<1>2. edit_local \in Edits /\ edit_dirty \in SUBSET E!Fields
    /\ edit_count = E!Cardinality(edit_dirty) /\ edit_group \in 0..edit_MaxGroup
  BY DEF EditKept
<1>3. edit_group' \in 0..edit_MaxGroup
  BY <1>1, <1>2, EditAssumption
<1>4. CASE edit_group' = 0 /\ edit_dirty # {}
  <2>1. E!Communicate(0, edit_local, edit_dirty, E!Cardinality(edit_dirty), a)
    BY <1>2, <1>4 DEF E!End
  <2>2. EditKept' /\ (0 > 0 => edit_wire' = edit_wire)
    BY <1>1, <1>2, <1>3, <1>4, <2>1, EditSends
  <2>3. QED
    BY <1>4, <2>2
<1>5. CASE ~(edit_group' = 0 /\ edit_dirty # {})
  <2>1. edit_dirty' = edit_dirty /\ edit_count' = edit_count /\ edit_wire' = edit_wire
      /\ edit_broken' = edit_broken
    BY <1>5 DEF E!End
  <2>2. QED
    BY <1>1, <1>3, <2>1 DEF EditKept, Patches, Edits, Arrived
<1>6. QED
  BY <1>4, <1>5

\* Reading a patch starts with its count.
LEMMA EditReadHeader == EditKept /\ E!ReadHeader => EditKept' /\ Len(edit_wire') <= Len(edit_wire)
<1> SUFFICES ASSUME EditKept, E!ReadHeader PROVE EditKept' /\ Len(edit_wire') <= Len(edit_wire)
  OBVIOUS
<1>1. /\ DOMAIN edit_rest = {} /\ edit_wire # <<>> /\ edit_rest' = Head(edit_wire).values
      /\ edit_wire' = Tail(edit_wire)
      /\ UNCHANGED <<edit_local, edit_dirty, edit_count, edit_group, edit_linked, edit_broken,
                     edit_remote>>
  BY DEF E!ReadHeader
<1>2. edit_wire \in Seq(Patches) /\ Len(edit_wire) \in Nat /\ Len(edit_wire) <= edit_MaxWire
  BY DEF EditKept
<1>3. /\ Head(edit_wire) \in Patches /\ edit_wire' \in Seq(Patches)
      /\ Len(edit_wire') = Len(edit_wire) - 1
      /\ Len(edit_wire') <= edit_MaxWire /\ Len(edit_wire') <= Len(edit_wire)
  BY <1>1, <1>2, EditAssumption
<1>4. PICK e \in Edits, m \in (SUBSET E!Fields) \ {{}} :
           /\ DOMAIN Head(edit_wire).values = E!Sent(m)
           /\ \A p \in E!Sent(m) : Head(edit_wire).values[p] = e[p] /\ e[p] \in edit_Values
           /\ E!Sent(m) \subseteq E!AllPieces
           /\ Gravity \subseteq E!Sent(m) \/ Gravity \cap E!Sent(m) = {}
  BY <1>3, PatchOfPieces
<1>5. DOMAIN edit_rest' \subseteq E!AllPieces
    /\ \A p \in DOMAIN edit_rest' : edit_rest'[p] \in edit_Values
  BY <1>1, <1>4
<1>6. \A p : /\ Arrived(p) = edit_remote[p]
             /\ Arrived(p)' =
                  IF p \in DOMAIN Head(edit_wire).values THEN Head(edit_wire).values[p] ELSE edit_remote[p]
  BY <1>1 DEF Arrived
<1>7. ~edit_broken => \A p, q \in Gravity : Arrived(p)' = Arrived(q)'
  <2>1. CASE Gravity \subseteq E!Sent(m)
    BY <1>4, <1>6, <2>1 DEF Edits
  <2>2. CASE Gravity \cap E!Sent(m) = {}
    <3>1. ~edit_broken => \A p, q \in Gravity : Arrived(p) = Arrived(q)
      BY DEF EditKept
    <3>2. QED
      BY <1>4, <1>6, <2>2, <3>1
  <2>3. QED
    BY <1>4, <2>1, <2>2
<1>8. ASSUME ~edit_broken, NEW p \in E!AllPieces, E!FieldOf(p) \notin edit_dirty
      PROVE  Brings(edit_wire', Arrived(p)', p, edit_local[p])
  <2>1. Brings(edit_wire, Arrived(p), p, edit_local[p])
    BY <1>8 DEF EditKept
  <2>2. Brings(edit_wire', IF p \in DOMAIN Head(edit_wire).values THEN Head(edit_wire).values[p] ELSE Arrived(p), p, edit_local[p])
    BY <1>1, <1>2, <2>1, ReadingBrings
  <2>3. QED
    BY <1>6, <2>2
<1>9. QED
  BY <1>1, <1>3, <1>5, <1>7, <1>8 DEF EditKept, Patches, Edits

\* One piece of a patch after the other is written into the remote settings.
LEMMA EditReadPiece == EditKept /\ E!ReadPiece => EditKept'
<1> SUFFICES ASSUME EditKept, E!ReadPiece PROVE EditKept'
  OBVIOUS
<1>1. PICK x \in DOMAIN edit_rest : /\ edit_remote' = [edit_remote EXCEPT ![x] = edit_rest[x]]
                                    /\ edit_rest' = [q \in DOMAIN edit_rest \ {x} |-> edit_rest[q]]
                                    /\ UNCHANGED <<edit_local, edit_dirty, edit_count, edit_group,
                                                   edit_linked, edit_wire, edit_broken>>
  BY DEF E!ReadPiece
<1>2. /\ edit_remote \in [E!AllPieces -> edit_Values] /\ DOMAIN edit_rest \subseteq E!AllPieces
      /\ \A p \in DOMAIN edit_rest : edit_rest[p] \in edit_Values
  BY DEF EditKept
<1>3. edit_remote' \in [E!AllPieces -> edit_Values]
  BY <1>1, <1>2
<1>4. DOMAIN edit_rest' = DOMAIN edit_rest \ {x}
    /\ \A p \in DOMAIN edit_rest' : edit_rest'[p] = edit_rest[p]
  BY <1>1
<1>5. \A p \in E!AllPieces : Arrived(p)' = Arrived(p)
  BY <1>1, <1>2, <1>4 DEF Arrived
<1>6. DOMAIN edit_rest' \subseteq E!AllPieces
    /\ \A p \in DOMAIN edit_rest' : edit_rest'[p] \in edit_Values
  BY <1>2, <1>4
<1>7. Gravity \subseteq E!AllPieces
  BY EditAssumption DEF Gravity
<1>8. QED
  BY <1>1, <1>3, <1>5, <1>6, <1>7 DEF EditKept, Patches, Edits

\* Every step keeps the bookkeeping, and sends only outside of groups.
LEMMA EditStep ==
  ASSUME EditKept, [E!Next]_(E!editorVars)
  PROVE  EditKept' /\ (edit_group' > 0 => Len(edit_wire') <= Len(edit_wire))
<1>1. Len(edit_wire) \in Nat
  BY DEF EditKept
<1>2. CASE \E f \in E!Fields, v \in edit_Values, a \in BOOLEAN : E!Set(f, v, a)
  BY <1>1, <1>2, EditSet
<1>3. CASE E!Begin
  <2>1. edit_group' = edit_group + 1 /\ edit_group < edit_MaxGroup
        /\ UNCHANGED <<edit_local, edit_dirty, edit_count, edit_linked, edit_wire, edit_rest,
                       edit_broken, edit_remote>>
    BY <1>3 DEF E!Begin
  <2>2. edit_group' \in 0..edit_MaxGroup
    BY <2>1, EditAssumption DEF EditKept
  <2>3. QED
    BY <1>1, <2>1, <2>2 DEF EditKept, Patches, Edits, Arrived
<1>4. CASE \E a \in BOOLEAN : E!End(a)
  BY <1>1, <1>4, EditEnd
<1>5. CASE E!Link
  BY <1>1, <1>5 DEF E!Link, EditKept, Patches, Edits, Arrived
<1>6. CASE E!ReadHeader
  BY <1>6, EditReadHeader
<1>7. CASE E!ReadPiece
  <2>1. edit_wire' = edit_wire
    BY <1>7 DEF E!ReadPiece
  <2>2. QED
    BY <1>1, <1>7, <2>1, EditReadPiece
<1>8. CASE E!ReadBreaks
  <2>1. /\ edit_broken' = TRUE /\ edit_rest' = E!Nothing
        /\ UNCHANGED <<edit_local, edit_dirty, edit_count, edit_group, edit_linked, edit_wire,
                       edit_remote>>
    BY <1>8 DEF E!ReadBreaks
  <2>2. DOMAIN edit_rest' = {}
    BY <2>1 DEF E!Nothing
  <2>3. QED
    BY <1>1, <2>1, <2>2 DEF EditKept, Patches, Edits
<1>9. CASE UNCHANGED E!editorVars
  BY <1>1, <1>9 DEF E!editorVars, EditKept, Patches, Edits, Arrived
<1>10. QED
  BY <1>2, <1>3, <1>4, <1>5, <1>6, <1>7, <1>8, <1>9 DEF E!Next

\* The bookkeeping of the editor.
LEMMA EditAlways == E!Spec => []EditKept
<1>1. EditKept /\ [E!Next]_(E!editorVars) => EditKept'
  BY EditStep
<1>2. QED
  BY EditInit, <1>1, PTL DEF E!Spec

\* The invariant has the types, and every patch on the way is one that can be read.
LEMMA EditTypes == EditKept => E!TypeOK /\ E!PatchesAreWellFormed
<1> SUFFICES ASSUME EditKept PROVE E!TypeOK /\ E!PatchesAreWellFormed
  OBVIOUS
<1>1. edit_wire \in Seq(Patches) /\ edit_dirty \in SUBSET E!Fields
    /\ edit_count = E!Cardinality(edit_dirty)
  BY DEF EditKept
<1>2. ASSUME NEW i \in DOMAIN edit_wire
      PROVE  /\ edit_wire[i].count \in 1..E!Cardinality(E!Fields)
             /\ edit_wire[i].count =
                  E!Cardinality({E!FieldOf(p) : p \in DOMAIN edit_wire[i].values})
  <2>1. edit_wire[i] \in Patches
    BY <1>1
  <2>2. PICK m \in (SUBSET E!Fields) \ {{}} :
           /\ edit_wire[i].count = E!Cardinality(m) /\ DOMAIN edit_wire[i].values = E!Sent(m)
           /\ m = {E!FieldOf(p) : p \in E!Sent(m)}
    BY <2>1, PatchOfPieces
  <2>3. E!Cardinality(m) \in 1..E!Cardinality(E!Fields)
    BY MarksCount
  <2>4. QED
    BY <2>2, <2>3
<1>3. edit_count \in 0..E!Cardinality(E!Fields)
  BY <1>1, MarksCount
<1>4. QED
  BY <1>2, <1>3 DEF EditKept, Edits, E!TypeOK, E!PatchesAreWellFormed

\* The invariant has what the client may rely on.
LEMMA EditArrives == EditKept => E!CleanMeansSent /\ E!GravityIsOneEdit
<1> SUFFICES ASSUME EditKept, ~edit_broken, DOMAIN edit_rest = {} PROVE E!CleanMeansSent
    /\ E!GravityIsOneEdit
  BY DEF E!CleanMeansSent, E!GravityIsOneEdit
<1>1. \A p : Arrived(p) = edit_remote[p]
  BY DEF Arrived
<1>2. E!GravityIsOneEdit
  BY <1>1 DEF EditKept, Gravity, E!GravityIsOneEdit
<1>3. ASSUME edit_wire =
      <<>>, NEW p \in E!AllPieces, E!FieldOf(p) \notin edit_dirty PROVE edit_remote[p] =
            edit_local[p]
  <2>1. Brings(edit_wire, Arrived(p), p, edit_local[p])
    BY <1>3 DEF EditKept
  <2>2. DOMAIN edit_wire = {}
    BY <1>3
  <2>3. QED
    BY <1>1, <2>1, <2>2 DEF Brings
<1>4. QED
  BY <1>2, <1>3 DEF E!CleanMeansSent

\* Nothing is sent while a group is open, for any order of edits and groups
\* (wholeBodyDynamicsSettings.h:192-197 and 330-336).
THEOREM GroupsAreSentWholeHolds == E!Spec => E!GroupsAreSentWhole
<1>1. EditKept /\ [E!Next]_(E!editorVars) =>
      [edit_group' > 0 => Len(edit_wire') <= Len(edit_wire)]_(E!editorVars)
  BY EditStep
<1>2. QED
  BY <1>1, EditAlways, PTL DEF E!Spec, E!GroupsAreSentWhole

\* A behaviour of all the components is one of SettingsEditor, which takes its steps or none.
LEMMA EditBehaves == AllSpec => E!Spec
<1>1. AllInit => E!Init
  BY DEF AllInit
<1>2. [AllNext]_allVars => [E!Next]_(E!editorVars)
  BY DEF AllNext, allVars, editVars, E!editorVars, DeviceEstimationRuns, ContactPointsRuns,
         SettingsEditorRuns, RemoteCallsRuns, FloatingBaseRuns, VirtualAnalogRuns,
         OffsetSmoothingRuns, TreeOdometryRuns, TreeContactsRuns
<1>3. QED
  BY <1>1, <1>2, PTL DEF AllSpec, E!Spec

--------------------------------------------------------------------------------
(* RemoteCalls *)

\* The types of the arguments.
ArgumentTypes == {"word", "float", "bool", "transform"}

\* A method as the interfaces have them: named by a word or two, the first of two being no name.
Shaped(m) ==
  /\ m = C!M(m.name, m.args, m.samples)
  /\ m.args \in Seq(ArgumentTypes) /\ m.samples \in BOOLEAN
  /\ \/ m.name = <<m.name[1]>> /\ m.name[1] \notin {"set", "get"}
     \/ m.name = <<m.name[1], m.name[2]>> /\ m.name[1] \in {"set", "get"}

FirstWord(m) == m.name[1]

CallKept ==
  /\ call_call = C!NoCall => /\ call_stub = FALSE /\ call_request = <<>> /\ call_server = "idle"
                             /\ call_done = <<>>
                             /\ call_answer = C!None
  /\ call_call # C!NoCall => call_call.server \in DOMAIN C!Servers
     /\ call_call.method \in C!Servers[call_call.server]
  /\ call_stub \in BOOLEAN /\ call_server \in {"idle", "decided", "refused", "answered"}
  /\ call_request # <<>> => call_server = "idle" /\ call_request \in C!Typed(call_call.method)
  /\ call_stub /\ call_request # <<>> => call_request = C!Written(call_call.method)
  /\ call_stub => call_server # "refused"
  /\ call_server \in {"decided", "answered"} =>
       /\ call_method.method = call_call.method
       /\ Len(call_method.given) >= Len(call_call.method.args)
       /\ call_stub /\ call_call.method.samples => call_method.samples = "asked"
  /\ call_server # "answered" => call_done = <<>> /\ call_answer # "true"
  /\ call_server = "answered" =>
       /\ \E r \in BOOLEAN : /\ call_done = <<[method |-> call_call.method, result |-> r]>>
                             /\ call_answer = "true" => r
  /\ call_answer \in {"true", "false", C!None}

\* A method named by one word.
LEMMA PlainMethod ==
  ASSUME NEW w, NEW args \in Seq(ArgumentTypes), NEW samples \in BOOLEAN, w \notin {"set", "get"}
  PROVE  Shaped(C!M(<<w>>, args, samples)) /\ FirstWord(C!M(<<w>>, args, samples)) = w
<1> DEFINE m == C!M(<<w>>, args, samples)
<1>1. m.name = <<w>> /\ m.args = args /\ m.samples = samples
  BY DEF C!M
<1>2. m.name[1] = w
  BY <1>1
<1> HIDE DEF m
<1>3. m = C!M(m.name, m.args, m.samples)
  BY <1>1 DEF m
<1>4. QED
  BY <1>1, <1>2, <1>3 DEF Shaped, FirstWord, m

\* A method named by two words.
LEMMA PairMethod ==
  ASSUME NEW v, NEW w, NEW args \in Seq(ArgumentTypes), v \in {"set", "get"}
  PROVE  /\ Shaped(C!M(<<v, w>>, args, FALSE)) /\ FirstWord(C!M(<<v, w>>, args, FALSE)) = v
         /\ C!M(<<v, w>>, args, FALSE).name[2] = w
<1> DEFINE m == C!M(<<v, w>>, args, FALSE)
<1>1. m.name = <<v, w>> /\ m.args = args /\ m.samples = FALSE
  BY DEF C!M
<1> HIDE DEF m
<1>2. m.name[1] = v /\ m.name[2] = w
  <2>1. <<v, w>>[1] = v /\ <<v, w>>[2] = w
    OBVIOUS
  <2>2. QED
    BY <1>1, <2>1
<1>3. m = C!M(m.name, m.args, m.samples)
  BY <1>1 DEF m
<1>4. QED
  BY <1>1, <1>2, <1>3 DEF Shaped, FirstWord, m

\* The lists of up to three elements.
LEMMA UpToThree ==
  ASSUME NEW S, NEW u \in S, NEW v \in S, NEW w \in S
  PROVE  {<<>>, <<u>>, <<u, v>>, <<u, v, w>>} \subseteq Seq(S)
OBVIOUS

\* The arguments that the interfaces have.
LEMMA ArgumentLists ==
  {<<>>, <<"word">>, <<"float">>, <<"bool">>, <<"word", "word">>, <<"word", "transform", "word">>}
    \subseteq Seq(ArgumentTypes)
<1>1. "word" \in ArgumentTypes /\ "float" \in ArgumentTypes /\ "bool" \in ArgumentTypes
    /\ "transform" \in ArgumentTypes
  BY DEF ArgumentTypes
<1>2. QED
  BY <1>1, UpToThree

\* The names of one word of wholeBodyDynamics are all different.
LEMMA WholeBodyNames ==
  /\ \A m \in (C!CalibrationMethods \cup C!OdometryMethods \cup C!KinematicSourceMethods) : Shaped(m) /\ FirstWord(m) \notin {"set", "get"}
  /\ \A m, n \in (C!CalibrationMethods \cup C!OdometryMethods \cup C!KinematicSourceMethods) : FirstWord(m) = FirstWord(n) => m = n
<1> DEFINE m1 == C!M(<<"calib">>, <<"word">>, TRUE)
           m2 == C!M(<<"calibStanding">>, <<"word">>, TRUE)
           m3 == C!M(<<"calibStandingLeftFoot">>, <<"word">>, TRUE)
           m4 == C!M(<<"calibStandingRightFoot">>, <<"word">>, TRUE)
           m5 == C!M(<<"calibStandingOnOneLink">>, <<"word">>, TRUE)
           m6 == C!M(<<"calibStandingOnTwoLinks">>, <<"word", "word">>, TRUE)
           m7 == C!M(<<"resetOffset">>, <<"word">>, FALSE)
           m8 == C!M(<<"quit">>, <<>>, FALSE)
           m9 == C!M(<<"resetSimpleLeggedOdometry">>, <<"word", "word">>, FALSE)
           m10 == C!M(<<"changeFixedLinkSimpleLeggedOdometry">>, <<"word">>, FALSE)
           m11 == C!M(<<"useIMUAsKinematicSource">>, <<>>, FALSE)
           m12 == C!M(<<"useFixedFrameAsKinematicSource">>, <<"word">>, FALSE)
           m13 == C!M(<<"setUseOfJointVelocities">>, <<"bool">>, FALSE)
           m14 == C!M(<<"setUseOfJointAccelerations">>, <<"bool">>, FALSE)
           m15 == C!M(<<"getCurrentSettingsString">>, <<>>, FALSE)
<1>1. /\ Shaped(m1) /\ FirstWord(m1) = "calib"
      /\ Shaped(m2) /\ FirstWord(m2) = "calibStanding"
      /\ Shaped(m3) /\ FirstWord(m3) = "calibStandingLeftFoot"
      /\ Shaped(m4) /\ FirstWord(m4) = "calibStandingRightFoot"
      /\ Shaped(m5) /\ FirstWord(m5) = "calibStandingOnOneLink"
      /\ Shaped(m6) /\ FirstWord(m6) = "calibStandingOnTwoLinks"
      /\ Shaped(m7) /\ FirstWord(m7) = "resetOffset"
      /\ Shaped(m8) /\ FirstWord(m8) = "quit"
      /\ Shaped(m9) /\ FirstWord(m9) = "resetSimpleLeggedOdometry"
      /\ Shaped(m10) /\ FirstWord(m10) = "changeFixedLinkSimpleLeggedOdometry"
      /\ Shaped(m11) /\ FirstWord(m11) = "useIMUAsKinematicSource"
      /\ Shaped(m12) /\ FirstWord(m12) = "useFixedFrameAsKinematicSource"
      /\ Shaped(m13) /\ FirstWord(m13) = "setUseOfJointVelocities"
      /\ Shaped(m14) /\ FirstWord(m14) = "setUseOfJointAccelerations"
      /\ Shaped(m15) /\ FirstWord(m15) = "getCurrentSettingsString"
  BY PlainMethod, ArgumentLists
<1>2. (C!CalibrationMethods \cup C!OdometryMethods \cup C!KinematicSourceMethods) =
      {m1, m2, m3, m4, m5, m6, m7, m8, m9, m10, m11, m12, m13, m14, m15}
  BY DEF C!CalibrationMethods, C!OdometryMethods, C!KinematicSourceMethods
<1> HIDE DEF m1, m2, m3, m4, m5, m6, m7, m8, m9, m10, m11, m12, m13, m14, m15
<1>3. QED
  BY <1>1, <1>2

\* So are those of floatingBaseEstimator.
LEMMA FloatingBaseNames ==
  /\ \A m \in C!FloatingBaseMethods : Shaped(m) /\ FirstWord(m) \notin {"set", "get"}
  /\ \A m, n \in C!FloatingBaseMethods : FirstWord(m) = FirstWord(n) => m = n
<1> DEFINE m1 == C!M(<<"resetSimpleLeggedOdometry">>, <<"word", "word">>, FALSE)
           m2 == C!M(<<"resetSimpleLeggedOdometryToArbitraryFrame">>, <<"word", "transform", "word">>, FALSE)
           m3 == C!M(<<"changeFixedLinkSimpleLeggedOdometry">>, <<"word">>, FALSE)
           m4 == C!M(<<"getCurrentSettingsString">>, <<>>, FALSE)
<1>1. /\ Shaped(m1) /\ FirstWord(m1) = "resetSimpleLeggedOdometry"
      /\ Shaped(m2) /\ FirstWord(m2) = "resetSimpleLeggedOdometryToArbitraryFrame"
      /\ Shaped(m3) /\ FirstWord(m3) = "changeFixedLinkSimpleLeggedOdometry"
      /\ Shaped(m4) /\ FirstWord(m4) = "getCurrentSettingsString"
  BY PlainMethod, ArgumentLists
<1>2. C!FloatingBaseMethods = {m1, m2, m3, m4}
  BY DEF C!FloatingBaseMethods
<1> HIDE DEF m1, m2, m3, m4
<1>3. QED
  BY <1>1, <1>2

\* So are those of eventRepeater.
LEMMA EventNames ==
  /\ \A m \in C!EventMethods : Shaped(m) /\ FirstWord(m) \notin {"set", "get"}
  /\ \A m, n \in C!EventMethods : FirstWord(m) = FirstWord(n) => m = n
<1> DEFINE m1 == C!M(<<"sendEvent">>, <<"word">>, FALSE)
           m2 == C!M(<<"se">>, <<"word">>, FALSE)
<1>1. /\ Shaped(m1) /\ FirstWord(m1) = "sendEvent"
      /\ Shaped(m2) /\ FirstWord(m2) = "se"
  BY PlainMethod, ArgumentLists
<1>2. C!EventMethods = {m1, m2}
  BY DEF C!EventMethods
<1> HIDE DEF m1, m2
<1>3. QED
  BY <1>1, <1>2

\* A cutoff is set or got, by its name.
LEMMA CutoffNames ==
  /\ \A m \in C!CutoffMethods : Shaped(m) /\ FirstWord(m) \in {"set", "get"}
  /\ \A m, n \in C!CutoffMethods : FirstWord(m) = FirstWord(n) /\ m.name[2] = n.name[2] => m = n
<1> DEFINE sets(c) == C!M(<<"set", c>>, <<"float">>, FALSE)
           gets(c) == C!M(<<"get", c>>, <<>>, FALSE)
<1>1. \A c : /\ Shaped(sets(c)) /\ FirstWord(sets(c)) = "set" /\ sets(c).name[2] = c
             /\ Shaped(gets(c)) /\ FirstWord(gets(c)) = "get" /\ gets(c).name[2] = c
  BY PairMethod, ArgumentLists
<1>2. C!CutoffMethods = {sets(c) : c \in C!Cutoffs} \cup {gets(c) : c \in C!Cutoffs}
  BY DEF C!CutoffMethods
<1> HIDE DEF sets, gets
<1>3. \A m \in C!CutoffMethods : Shaped(m) /\ FirstWord(m) \in {"set", "get"}
  BY <1>1, <1>2
<1>4. ASSUME NEW m \in C!CutoffMethods, NEW n \in C!CutoffMethods, FirstWord(m) =
      FirstWord(n), m.name[2] = n.name[2]
      PROVE  m = n
  BY <1>1, <1>2, <1>4
<1>5. QED
  BY <1>3, <1>4

\* All the methods of the interfaces.
LEMMA MethodsAreShaped == \A s \in DOMAIN C!Servers : \A m \in C!Servers[s] : Shaped(m)
BY WholeBodyNames, FloatingBaseNames, EventNames, CutoffNames DEF C!Servers, C!WholeBodyMethods

\* An interface has no two methods of one name.
LEMMA NamesTellApart ==
  ASSUME NEW s \in DOMAIN C!Servers, NEW m \in C!Servers[s], NEW n \in C!Servers[s], m.name = n.name
  PROVE  m = n
<1>1. FirstWord(m) = FirstWord(n) /\ m.name[2] = n.name[2]
  BY DEF FirstWord
<1>2. CASE s = "wholeBody"
  <2>1. m \in C!WholeBodyMethods /\ n \in C!WholeBodyMethods
    BY <1>2 DEF C!Servers
  <2>2. QED
    BY <1>1, <2>1, WholeBodyNames, CutoffNames DEF C!WholeBodyMethods
<1>3. CASE s = "floatingBase"
  BY <1>1, <1>3, FloatingBaseNames DEF C!Servers
<1>4. CASE s = "events"
  BY <1>1, <1>4, EventNames DEF C!Servers
<1>5. QED
  BY <1>2, <1>3, <1>4 DEF C!Servers

\* One word, or two joined.
LEMMA JoinedIs ==
  ASSUME NEW t
  PROVE  C!Joined(t, 1) = t[1].value /\ C!Joined(t, 2) = t[1].value \o t[2].value
<1> DEFINE Parts(k) == [i \in 1..k |-> t[i].value]
           Step(k, f) == [i \in 1..Len(Parts(k)) |-> IF i = 1 THEN Parts(k)[i] ELSE f[i - 1] \o Parts(k)[i]]
           Flat(k) == CHOOSE f : f = Step(k, f)
<1>1. Parts(1) \in Seq({t[1].value}) /\ Len(Parts(1)) = 1
  OBVIOUS
<1>2. Parts(2) \in Seq({t[1].value, t[2].value}) /\ Len(Parts(2)) = 2
  OBVIOUS
<1>3. /\ C!Joined(t, 1) = Flat(1)[1]
      /\ C!Joined(t, 2) = Flat(2)[2]
  BY <1>1, <1>2 DEF C!Joined, C!FlattenSeq
<1>4. Flat(1) = Step(1, Flat(1))
  <2>1. [i \in 1..1 |-> t[1].value] = Step(1, [i \in 1..1 |-> t[1].value])
    BY <1>1
  <2> HIDE DEF Step
  <2>2. QED
    BY <2>1
<1>5. Flat(2) = Step(2, Flat(2))
  <2> DEFINE g == [i \in 1..2 |-> IF i = 1 THEN t[1].value ELSE t[1].value \o t[2].value]
  <2>1. g = Step(2, g)
    BY <1>2
  <2> HIDE DEF Step, g
  <2>2. QED
    BY <2>1
<1> HIDE DEF Flat
<1>6. Flat(1)[1] = t[1].value
  BY <1>1, <1>4
<1>7. \A f, p : (\A i \in 1..2 : f[i] = IF i = 1 THEN p[i] ELSE f[i - 1] \o p[i]) =>
      f[2] = p[1] \o p[2]
  <2> SUFFICES ASSUME NEW f, NEW p, \A i \in 1..2 : f[i] = IF i = 1 THEN p[i] ELSE f[i - 1] \o p[i]
               PROVE  f[2] = p[1] \o p[2]
    OBVIOUS
  <2>1. 1 \in 1..2 /\ 2 \in 1..2 /\ 2 - 1 = 1
    OBVIOUS
  <2>2. f[1] = p[1]
    BY <2>1
  <2>3. f[2] = IF 2 = 1 THEN p[2] ELSE f[2 - 1] \o p[2]
    BY <2>1
  <2>4. f[2 - 1] = f[1] /\ 2 # 1
    BY <2>1
  <2> DEFINE q == f[2 - 1]
  <2>5. q = p[1]
    BY <2>2, <2>4
  <2>6. f[2] = q \o p[2]
    BY <2>3, <2>4
  <2> HIDE DEF q
  <2>7. QED
    BY <2>5, <2>6
<1>8. Flat(2)[2] = t[1].value \o t[2].value
  <2>1. Parts(2)[1] = t[1].value /\ Parts(2)[2] = t[2].value
    OBVIOUS
  <2> HIDE DEF Parts
  <2> DEFINE f == Flat(2)
             p == Parts(2)
  <2>2. \A i \in 1..2 : f[i] = IF i = 1 THEN p[i] ELSE f[i - 1] \o p[i]
    BY <1>2, <1>5
  <2> HIDE DEF f, p
  <2>3. f[2] = p[1] \o p[2]
    BY <1>7, <2>2
  <2>4. QED
    BY <2>1, <2>3 DEF f, p
<1>9. QED
  BY <1>3, <1>6, <1>8

WrittenLength(m) == Len(m.name) + Len(m.args) + (IF m.samples THEN 1 ELSE 0)

\* The lengths of what a method has.
LEMMA ShapeIs ==
  ASSUME NEW m, Shaped(m)
  PROVE  /\ Len(m.name) \in {1, 2} /\ DOMAIN m.name = 1..Len(m.name)
         /\ Len(m.args) \in Nat /\ DOMAIN m.args = 1..Len(m.args) /\ m.samples \in BOOLEAN
<1>1. m.args \in Seq(ArgumentTypes) /\ m.samples \in BOOLEAN
  BY DEF Shaped
<1>2. \E u, v : m.name = <<u>> \/ m.name = <<u, v>>
  BY DEF Shaped
<1>3. \A u, v : Len(<<u>>) = 1 /\ Len(<<u, v>>) = 2 /\ DOMAIN <<u>> = 1..1 /\ DOMAIN <<u, v>> = 1..2
  OBVIOUS
<1>4. Len(m.name) \in {1, 2} /\ DOMAIN m.name = 1..Len(m.name)
  BY <1>2, <1>3
<1>5. QED
  BY <1>1, <1>4

\* What write() makes of a method: its words, its arguments, and the samples.
LEMMA WrittenIs ==
  ASSUME NEW m, Shaped(m)
  PROVE  /\ \E S : C!Written(m) \in Seq(S)
         /\ Len(C!Written(m)) = WrittenLength(m)
         /\ \A i \in 1..Len(m.name) : C!Written(m)[i] = C!Word(<<m.name[i]>>)
         /\ \A i \in 1..Len(m.args) : C!Written(m)[Len(m.name) + i] = C!Value(m.args[i])
         /\ m.samples => C!Written(m)[WrittenLength(m)] = C!Value("int")
<1> DEFINE a == [i \in DOMAIN m.name |-> C!Word(<<m.name[i]>>)]
           b == [i \in DOMAIN m.args |-> C!Value(m.args[i])]
           c == IF m.samples THEN <<C!Value("int")>> ELSE <<>>
           S == {a[i] : i \in DOMAIN a} \cup {b[i] : i \in DOMAIN b} \cup {C!Value("int")}
           k == Len(m.name)
           n == Len(m.args)
<1>1. k \in {1, 2} /\ DOMAIN m.name = 1..k /\ n \in Nat /\ DOMAIN m.args = 1..n
    /\ m.samples \in BOOLEAN
  BY ShapeIs
<1>2. /\ DOMAIN a = 1..k /\ DOMAIN b = 1..n
      /\ \A i \in 1..k : a[i] = C!Word(<<m.name[i]>>)
      /\ \A i \in 1..n : b[i] = C!Value(m.args[i])
      /\ a = [i \in 1..k |-> a[i]] /\ b = [i \in 1..n |-> b[i]]
  BY <1>1
<1>3. C!Written(m) = (a \o b) \o c
  BY DEF C!Written
<1>4. c = (IF m.samples THEN <<C!Value("int")>> ELSE <<>>)
    /\ S = {a[i] : i \in DOMAIN a} \cup {b[i] : i \in DOMAIN b} \cup {C!Value("int")}
  OBVIOUS
<1> HIDE DEF a, b, c, S, k, n
<1>5. a \in Seq(S) /\ Len(a) = k
  <2>1. a \in [1..k -> S]
    BY <1>2, <1>4
  <2>2. QED
    BY <1>1, <2>1
<1>6. b \in Seq(S) /\ Len(b) = n
  <2>1. b \in [1..n -> S]
    BY <1>2, <1>4
  <2>2. QED
    BY <1>1, <2>1
<1> DEFINE l == IF m.samples THEN 1 ELSE 0
<1>7. /\ c \in Seq(S) /\ Len(c) = l /\ (m.samples => c[1] = C!Value("int"))
      /\ l \in {0, 1} /\ (m.samples => l = 1)
  <2>1. C!Value("int") \in S
    BY <1>4
  <2>2. CASE m.samples
    <3>1. c = <<C!Value("int")>> /\ l = 1
      BY <1>4, <2>2
    <3> HIDE DEF l
    <3>2. \A x \in S : <<x>> \in Seq(S) /\ Len(<<x>>) = 1 /\ <<x>>[1] = x
      OBVIOUS
    <3>3. QED
      BY <2>1, <3>1, <3>2
  <2>3. CASE ~m.samples
    <3>1. c = <<>> /\ l = 0
      BY <1>4, <2>3
    <3> HIDE DEF l
    <3>2. QED
      BY <2>3, <3>1
  <2>4. QED
    BY <2>2, <2>3
<1> DEFINE d == a \o b
<1>8. /\ d \in Seq(S) /\ Len(d) = k + n
      /\ \A i \in 1..k + n : d[i] = IF i <= k THEN a[i] ELSE b[i - k]
  BY <1>5, <1>6, ConcatProperties
<1> HIDE DEF d
<1>9. C!Written(m) = d \o c
  BY <1>3 DEF d
<1> HIDE DEF l
<1>10. /\ C!Written(m) \in Seq(S) /\ Len(C!Written(m)) = (k + n) + l
       /\ \A i \in 1..(k + n) + l : C!Written(m)[i] = IF i <= k + n THEN d[i] ELSE c[i - (k + n)]
  BY <1>7, <1>8, <1>9, ConcatProperties
<1>11. WrittenLength(m) = (k + n) + l /\ l \in {0, 1}
  BY <1>7 DEF WrittenLength, k, n, l
<1>12. ASSUME NEW i \in 1..k PROVE C!Written(m)[i] = C!Word(<<m.name[i]>>)
  <2>1. i \in 1..(k + n) + l /\ i <= k + n /\ i \in 1..k + n /\ i <= k
    BY <1>1, <1>11
  <2>2. QED
    BY <1>2, <1>8, <1>10, <2>1
<1>13. ASSUME NEW i \in 1..n PROVE C!Written(m)[k + i] = C!Value(m.args[i])
  <2>1. k + i \in 1..(k + n) + l /\ k + i <= k + n /\ k + i \in 1..k + n /\ ~(k + i <= k)
      /\ (k + i) - k = i
    BY <1>1, <1>11
  <2>2. C!Written(m)[k + i] = d[k + i]
    BY <1>10, <2>1
  <2>3. d[k + i] = b[(k + i) - k]
    BY <1>8, <2>1
  <2>4. QED
    BY <1>2, <2>1, <2>2, <2>3
<1>14. m.samples => C!Written(m)[WrittenLength(m)] = C!Value("int")
  <2> SUFFICES ASSUME m.samples PROVE C!Written(m)[WrittenLength(m)] = C!Value("int")
    OBVIOUS
  <2>1. l = 1
    BY <1>7
  <2>2. WrittenLength(m) = (k + n) + 1 /\ (k + n) + 1 \in 1..(k + n) + l /\ ~((k + n) + 1 <= k + n)
      /\ ((k + n) + 1) - (k + n) = 1
    <3>1. k + n \in Nat
      BY <1>1
    <3>2. QED
      BY <1>11, <2>1, <3>1
  <2>3. C!Written(m)[(k + n) + 1] = c[((k + n) + 1) - (k + n)]
    BY <1>10, <2>2
  <2>4. QED
    BY <1>7, <2>2, <2>3
<1>15. QED
  BY <1>10, <1>11, <1>12, <1>13, <1>14 DEF k, n

\* A word.
LEMMA WordIs == \A p : C!Word(p).type = "word" /\ C!Word(p).value = p
BY DEF C!Word

\* A list of two.
LEMMA TwoWords == \A u, v : <<u>> \o <<v>> = <<u, v>>
<1> SUFFICES ASSUME NEW u, NEW v PROVE <<u>> \o <<v>> = <<u, v>>
  OBVIOUS
<1> DEFINE a == <<u>>
           b == <<v>>
           c == a \o b
<1>1. /\ a \in Seq({u, v}) /\ b \in Seq({u, v}) /\ Len(a) = 1 /\ Len(b) = 1
      /\ a[1] = u /\ b[1] = v
  OBVIOUS
<1> HIDE DEF a, b
<1>2. /\ c \in Seq({u, v}) /\ Len(c) = 1 + 1
      /\ \A i \in 1..1 + 1 : c[i] = IF i <= 1 THEN a[i] ELSE b[i - 1]
  BY <1>1, ConcatProperties
<1> HIDE DEF c
<1>3. c[1] = u
  BY <1>1, <1>2
<1>4. c[2] = v
  <2>1. 2 \in 1..1 + 1 /\ ~(2 <= 1) /\ 2 - 1 = 1
    OBVIOUS
  <2>2. c[2] = b[2 - 1]
    BY <1>2, <2>1
  <2>3. QED
    BY <1>1, <2>1, <2>2
<1> DEFINE d == <<u, v>>
<1>5. d \in Seq({u, v}) /\ Len(d) = 2 /\ d[1] = u /\ d[2] = v
  OBVIOUS
<1> HIDE DEF d
<1>6. c = d
  BY <1>2, <1>3, <1>4, <1>5
<1>7. QED
  BY <1>6 DEF a, b, c, d

\* What the first words of a command are read as.
WordsOf(t) == {k \in DOMAIN t : \A i \in 1..k : t[i].type = "word"}
PlacesIn(t) == {k \in WordsOf(t) : C!FoundAt(t, k) # {}}

\* A command without a name of a method.
LEMMA FoundNone == \A t : PlacesIn(t) = {} => C!Found(t).method = C!NoMethod
BY DEF C!Found, PlacesIn, WordsOf

\* The method with the fewest words is found.
LEMMA FoundFirst ==
  ASSUME NEW t, NEW m, NEW k \in PlacesIn(t), PlacesIn(t) \subseteq Nat, \A j \in PlacesIn(t) : k <= j,
         C!FoundAt(t, k) = {m}
  PROVE  C!Found(t) = [method |-> m, rest |-> SubSeq(t, k + 1, Len(t))]
<1> DEFINE at == PlacesIn(t)
           found == [j \in WordsOf(t) |-> C!FoundAt(t, j)]
<1>1. at = {j \in WordsOf(t) : found[j] # {}} /\ at # {} /\ found[k] = {m}
  BY DEF PlacesIn
<1>2. C!Found(t) = [method |-> CHOOSE x \in found[C!Min(at)] : TRUE,
                  rest |-> SubSeq(t, C!Min(at) + 1, Len(t))]
  BY <1>1 DEF C!Found, WordsOf
<1> HIDE DEF found
<1>3. C!Min(at) = k
  <2>1. k \in at /\ \A y \in at : k <= y
    OBVIOUS
  <2>2. C!Min(at) \in at /\ \A y \in at : C!Min(at) <= y
    BY <2>1 DEF C!Min
  <2>3. C!Min(at) \in Nat /\ k \in Nat
    BY <2>2
  <2> HIDE DEF at
  <2>4. QED
    BY <2>1, <2>2, <2>3
<1>4. (CHOOSE x \in {m} : TRUE) = m
  OBVIOUS
<1>5. QED
  BY <1>1, <1>2, <1>3, <1>4

\* What has the name of a method is that method.
LEMMA NamedIs ==
  ASSUME NEW t, NEW k, call_call.server \in DOMAIN C!Servers, NEW m \in C!Servers[call_call.server], C!Joined(t, k) = m.name
  PROVE  C!FoundAt(t, k) = {m}
BY NamesTellApart DEF C!FoundAt, C!NameIs

\* The first of two words is no name.
LEMMA HalfANameIsNone ==
  ASSUME NEW t, call_call.server \in DOMAIN C!Servers, NEW m \in C!Servers[call_call.server], Len(m.name) = 2,
         t[1] = C!Word(<<m.name[1]>>)
  PROVE  C!FoundAt(t, 1) = {}
<1>1. C!Joined(t, 1) = <<m.name[1]>>
  BY JoinedIs, WordIs
<1>2. m.name[1] \in {"set", "get"}
  <2>1. \A u : Len(<<u>>) = 1
    OBVIOUS
  <2>2. Shaped(m)
    BY MethodsAreShaped
  <2>3. m.name # <<m.name[1]>>
    BY <2>1
  <2>4. QED
    BY <2>2, <2>3 DEF Shaped
<1>3. ASSUME NEW n \in C!Servers[call_call.server], n.name = <<m.name[1]>> PROVE FALSE
  <2>1. n.name[1] = m.name[1] /\ Len(n.name) = 1
    BY <1>3
  <2>2. Shaped(n)
    BY MethodsAreShaped
  <2>3. \A u, v : Len(<<u, v>>) = 2
    OBVIOUS
  <2>4. QED
    BY <1>2, <2>1, <2>2, <2>3 DEF Shaped
<1>4. QED
  BY <1>1, <1>3 DEF C!FoundAt, C!NameIs

\* A request that begins with the words of a method is for that method.
LEMMA FoundWhole ==
  ASSUME NEW t, call_call.server \in DOMAIN C!Servers, NEW m \in C!Servers[call_call.server],
         Len(t) \in Nat, DOMAIN t = 1..Len(t), Len(m.name) <= Len(t),
         \A i \in 1..Len(m.name) : t[i] = C!Word(<<m.name[i]>>)
  PROVE  C!Found(t) = [method |-> m, rest |-> SubSeq(t, Len(m.name) + 1, Len(t))]
<1> DEFINE k == Len(m.name)
<1>1. Shaped(m) /\ k \in {1, 2}
  BY MethodsAreShaped, ShapeIs
<1>2. \A i \in 1..k : t[i].type = "word" /\ t[i].value = <<m.name[i]>>
  BY WordIs
<1>3. C!FoundAt(t, k) = {m} /\ \A j \in 1..k : j # k => C!FoundAt(t, j) = {}
  <2>1. CASE k = 1
    <3>1. C!Joined(t, 1) = <<m.name[1]>>
      <4>1. 1 \in 1..k
        BY <2>1
      <4>2. t[1].value = <<m.name[1]>>
        BY <1>2, <4>1
      <4>3. QED
        BY <4>2, JoinedIs
    <3>2. m.name = <<m.name[1]>>
      <4>1. \A u, v : Len(<<u, v>>) = 2
        OBVIOUS
      <4>2. QED
        BY <1>1, <2>1, <4>1 DEF Shaped
    <3>3. C!FoundAt(t, 1) = {m}
      BY <3>1, <3>2, NamedIs
    <3>4. QED
      BY <2>1, <3>3
  <2>2. CASE k = 2
    <3>1. t[1].value = <<m.name[1]>> /\ t[2].value = <<m.name[2]>>
      BY <1>2, <2>2
    <3>2. m.name = <<m.name[1], m.name[2]>>
      <4>1. \A u : Len(<<u>>) = 1
        OBVIOUS
      <4>2. QED
        BY <1>1, <2>2, <4>1 DEF Shaped
    <3>4. C!Joined(t, 2) = m.name
      BY <3>1, <3>2, TwoWords, JoinedIs
    <3>5. C!FoundAt(t, 2) = {m}
      BY <3>4, NamedIs
    <3>6. t[1] = C!Word(<<m.name[1]>>)
      BY <2>2
    <3>7. C!FoundAt(t, 1) = {}
      BY <2>2, <3>6, HalfANameIsNone
    <3>8. QED
      BY <2>2, <3>5, <3>7
  <2>3. QED
    BY <1>1, <2>1, <2>2
<1>4. k \in PlacesIn(t)
  <2>1. k \in WordsOf(t)
    <3>1. k \in DOMAIN t
      BY <1>1
    <3>2. \A i \in 1..k : t[i].type = "word"
      BY <1>2
    <3>3. QED
      BY <3>1, <3>2 DEF WordsOf
  <2>2. C!FoundAt(t, k) # {}
    BY <1>3
  <2>3. QED
    BY <2>1, <2>2 DEF PlacesIn
<1>5. PlacesIn(t) \subseteq Nat /\ \A j \in PlacesIn(t) : k <= j
  BY <1>1, <1>3 DEF PlacesIn, WordsOf
<1>6. QED
  BY <1>3, <1>4, <1>5, FoundFirst

\* So is one that begins with all of them in one word.
LEMMA FoundAsOne ==
  ASSUME NEW t, call_call.server \in DOMAIN C!Servers, NEW m \in C!Servers[call_call.server],
         Len(t) \in Nat, DOMAIN t = 1..Len(t), 1 <= Len(t), t[1] = C!Word(m.name)
  PROVE  C!Found(t).method = m
<1>1. C!Joined(t, 1) = m.name /\ t[1].type = "word"
  BY JoinedIs, WordIs
<1>2. C!FoundAt(t, 1) = {m}
  BY <1>1, NamedIs
<1>3. 1 \in PlacesIn(t) /\ PlacesIn(t) \subseteq Nat /\ \A j \in PlacesIn(t) : 1 <= j
  <2>1. 1 \in WordsOf(t)
    BY <1>1 DEF WordsOf
  <2>2. WordsOf(t) \subseteq 1..Len(t)
    BY DEF WordsOf
  <2>3. 1 \in PlacesIn(t)
    BY <2>1, <1>2 DEF PlacesIn
  <2>4. PlacesIn(t) \subseteq WordsOf(t)
    BY DEF PlacesIn
  <2>5. QED
    BY <2>2, <2>3, <2>4
<1>4. C!Found(t) = [method |-> m, rest |-> SubSeq(t, 1 + 1, Len(t))]
  BY <1>2, <1>3, FoundFirst
<1>5. QED
  BY <1>4

\* A request that ends inside the name of a method is for none.
LEMMA FoundCut ==
  ASSUME NEW t, call_call.server \in DOMAIN C!Servers, NEW m \in C!Servers[call_call.server],
         Len(t) \in Nat, DOMAIN t = 1..Len(t), Len(t) <= Len(m.name),
         \A i \in DOMAIN t : i < Len(m.name) => t[i] = C!Word(<<m.name[i]>>),
         Len(t) = Len(m.name) => t[Len(t)].type = "double"
  PROVE  C!Found(t).method = C!NoMethod
<1>1. Shaped(m) /\ Len(m.name) \in {1, 2}
  BY MethodsAreShaped, ShapeIs
<1>2. ASSUME NEW j \in WordsOf(t) PROVE j = 1 /\ Len(m.name) = 2 /\ t[1] = C!Word(<<m.name[1]>>)
  <2>1. j \in 1..Len(t) /\ \A i \in 1..j : t[i].type = "word"
    BY DEF WordsOf
  <2>2. j # Len(m.name)
    BY <1>1, <2>1
  <2>3. j \in Nat /\ 1 <= j /\ j <= Len(t)
    BY <2>1
  <2>4. j = 1 /\ Len(m.name) = 2
    <3> DEFINE k == Len(m.name)
               n == Len(t)
    <3>1. k \in {1, 2} /\ n \in Nat /\ n <= k /\ j # k /\ 1 <= j /\ j <= n
      BY <1>1, <2>2, <2>3
    <3> HIDE DEF k, n
    <3>2. j = 1 /\ k = 2
      BY <2>3, <3>1
    <3>3. QED
      BY <3>2 DEF k
  <2>5. 1 \in DOMAIN t /\ 1 < Len(m.name)
    BY <2>1, <2>4
  <2>6. QED
    BY <2>4, <2>5
<1>3. PlacesIn(t) = {}
  BY <1>2, HalfANameIsNone DEF PlacesIn
<1>4. QED
  BY <1>3, FoundNone

\* The method of a request that begins with its words.
LEMMA FoundIt ==
  ASSUME NEW t, call_call.server \in DOMAIN C!Servers, NEW m \in C!Servers[call_call.server], NEW k, k = Len(m.name),
         Len(t) \in Nat, DOMAIN t = 1..Len(t), k <= Len(t), \A i \in 1..k : t[i] =
               C!Word(<<m.name[i]>>)
  PROVE  C!Found(t).method = m
<1>1. C!Found(t) = [method |-> m, rest |-> SubSeq(t, Len(m.name) + 1, Len(t))]
  BY FoundWhole
<1>2. QED
  BY <1>1

\* A command written by a stub is found, whole and with all its arguments.
LEMMA StubFound ==
  ASSUME call_call.server \in DOMAIN C!Servers, NEW m \in C!Servers[call_call.server]
  PROVE  LET f == C!Found(C!Written(m))
         IN  /\ f.method = m /\ m # C!NoMethod /\ C!ReadsAll(m, f.rest)
             /\ m.samples => C!SamplesOf(m, f.rest) = "asked"
<1> DEFINE w == C!Written(m)
           k == Len(m.name)
           n == Len(m.args)
           rest == SubSeq(w, k + 1, Len(w))
           l == IF m.samples THEN 1 ELSE 0
<1>1. Shaped(m)
  BY MethodsAreShaped
<1>2. k \in {1, 2} /\ n \in Nat /\ DOMAIN m.args = 1..n /\ m.samples \in BOOLEAN
  BY <1>1, ShapeIs
<1>3. /\ Len(w) = (k + n) + l /\ WrittenLength(m) = (k + n) + l /\ l \in {0, 1}
         /\ (m.samples => l = 1)
      /\ \A i \in 1..k : w[i] = C!Word(<<m.name[i]>>)
      /\ \A i \in 1..n : w[k + i] = C!Value(m.args[i])
      /\ m.samples => w[WrittenLength(m)] = C!Value("int")
  BY <1>1, <1>2, WrittenIs DEF WrittenLength
<1>4. PICK S : w \in Seq(S)
  BY <1>1, WrittenIs
<1> HIDE DEF w, k, n, l
<1>5. Len(w) \in Nat /\ DOMAIN w = 1..Len(w) /\ k <= Len(w)
  BY <1>2, <1>3, <1>4
<1>6. C!Found(w) = [method |-> m, rest |-> rest]
  BY <1>3, <1>5, FoundWhole DEF k
<1>7. Len(rest) = n + l /\ \A i \in 1..n + l : rest[i] = w[k + i]
  <2>1. \A i \in k + 1..Len(w) : w[i] \in S
    BY <1>2, <1>4, <1>5
  <2>2. k + 1 \in Int /\ Len(w) \in Int
    BY <1>2, <1>5
  <2>3. /\ Len(rest) = IF k + 1 <= Len(w) THEN Len(w) - (k + 1) + 1 ELSE 0
        /\ \A i \in 1..Len(w) - (k + 1) + 1 : rest[i] = w[(k + 1) + i - 1]
    BY <2>1, <2>2, SubSeqProperties
  <2>4. Len(w) - (k + 1) + 1 = n + l /\ (k + 1 <= Len(w) \/ n + l = 0)
    BY <1>2, <1>3
  <2>5. \A i \in 1..n + l : (k + 1) + i - 1 = k + i
    BY <1>2, <1>3
  <2> HIDE DEF rest
  <2>6. Len(rest) = n + l
    BY <2>3, <2>4
  <2>7. \A i \in 1..n + l : rest[i] = w[(k + 1) + i - 1]
    BY <2>3, <2>4
  <2>8. QED
    BY <2>5, <2>6, <2>7
<1> HIDE DEF rest
<1>8. C!ReadsAll(m, rest)
  <2>1. Len(rest) >= n
    BY <1>2, <1>3, <1>7
  <2>2. ASSUME NEW i \in 1..n PROVE rest[i].type = m.args[i]
    <3>1. i \in 1..n + l
      BY <1>2, <1>3
    <3>2. rest[i] = C!Value(m.args[i])
      BY <1>3, <1>7, <3>1
    <3>3. QED
      BY <3>2 DEF C!Value
  <2>3. QED
    BY <1>2, <2>1, <2>2 DEF C!ReadsAll, n
<1>9. m.samples => C!SamplesOf(m, rest) = "asked"
  <2> SUFFICES ASSUME m.samples PROVE C!SamplesOf(m, rest) = "asked"
    OBVIOUS
  <2>1. l = 1 /\ n + 1 \in 1..n + l /\ k + (n + 1) = WrittenLength(m)
    BY <1>2, <1>3
  <2>2. rest[n + 1] = C!Value("int")
    BY <1>3, <1>7, <2>1
  <2>3. rest[n + 1].type = "int" /\ n + 1 <= Len(rest)
    BY <1>7, <2>1, <2>2 DEF C!Value
  <2>4. QED
    BY <2>3 DEF C!SamplesOf, n
<1>10. m # C!NoMethod
  <2>1. Len(m.name) # 0
    <3>1. k # 0
      BY <1>2
    <3>2. QED
      BY <3>1 DEF k
  <2>2. Len(C!NoMethod.name) = 0
    BY DEF C!NoMethod, C!M
  <2>3. QED
    BY <2>1, <2>2
<1>11. QED
  BY <1>6, <1>8, <1>9, <1>10 DEF w

\* A command that is typed is that of its method or none.
LEMMA TypedFound ==
  ASSUME call_call.server \in DOMAIN C!Servers, NEW m \in C!Servers[call_call.server], NEW t \in C!Typed(m)
  PROVE  C!Found(t).method \in {m, C!NoMethod}
<1> DEFINE w == C!Written(m)
           k == Len(m.name)
           cut == C!Front(w)
           behind == SubSeq(w, k + 1, Len(w))
<1>0. k = Len(m.name)
  OBVIOUS
<1>1. Shaped(m) /\ k \in {1, 2}
  BY MethodsAreShaped, ShapeIs
<1>2. /\ Len(w) \in Nat /\ k <= Len(w) /\ DOMAIN w = 1..Len(w)
      /\ \A i \in 1..k : w[i] = C!Word(<<m.name[i]>>)
  <2>1. PICK S : w \in Seq(S)
    BY <1>1, WrittenIs
  <2>2. Len(w) = WrittenLength(m) /\ \A i \in 1..k : w[i] = C!Word(<<m.name[i]>>)
    BY <1>1, WrittenIs
  <2>3. k <= WrittenLength(m)
    <3>1. Len(m.args) \in Nat
      BY <1>1, ShapeIs
    <3>2. PICK l \in {0, 1} : WrittenLength(m) = (k + Len(m.args)) + l
      BY DEF WrittenLength
    <3> HIDE DEF k
    <3>3. QED
      BY <1>1, <3>1, <3>2
  <2> HIDE DEF w, k
  <2>4. Len(w) \in Nat /\ DOMAIN w = 1..Len(w)
    BY <2>1
  <2>5. QED
    BY <2>2, <2>3, <2>4
<1>3. PICK S : w \in Seq(S)
  BY <1>1, WrittenIs
<1>4. t = w \/ t = <<C!Word(m.name)>> \o behind \/ t = cut \/ t = Append(cut, C!Value("double"))
      \/ t = Append(w, C!Value("int"))
  BY DEF C!Typed
<1>5. t # <<>>
  BY DEF C!Typed
<1> DEFINE R == S \cup {C!Word(m.name), C!Value("double"), C!Value("int")}
<1> HIDE DEF w, k
<1>6. w \in Seq(R)
  BY <1>3
<1>7. /\ cut \in Seq(R) /\ Len(cut) = Len(w) - 1
      /\ \A i \in 1..Len(w) - 1 : cut[i] = w[i]
  <2>1. \A i \in 1..Len(w) - 1 : w[i] \in R
    BY <1>2, <1>6
  <2>2. 1 \in Int /\ Len(w) - 1 \in Int /\ 1 <= Len(w)
    BY <1>1, <1>2
  <2>3. /\ SubSeq(w, 1, Len(w) - 1) \in Seq(R)
        /\ Len(SubSeq(w, 1, Len(w) - 1)) = IF 1 <= Len(w) - 1 THEN (Len(w) - 1) - 1 + 1 ELSE 0
        /\ \A i \in 1..(Len(w) - 1) - 1 + 1 : SubSeq(w, 1, Len(w) - 1)[i] = w[1 + i - 1]
    BY <2>1, <2>2, SubSeqProperties
  <2>4. (Len(w) - 1) - 1 + 1 = Len(w) - 1 /\ (1 <= Len(w) - 1 \/ Len(w) - 1 = 0)
        /\ \A i \in 1..Len(w) - 1 : 1 + i - 1 = i
    BY <1>2, <2>2
  <2> HIDE DEF R
  <2>5. QED
    BY <2>3, <2>4 DEF C!Front
<1>8. behind \in Seq(R)
  <2>1. \A i \in k + 1..Len(w) : w[i] \in R
    BY <1>1, <1>2, <1>6
  <2>2. k + 1 \in Int /\ Len(w) \in Int
    BY <1>1, <1>2
  <2> HIDE DEF R
  <2>3. QED
    BY <2>1, <2>2, SubSeqProperties
<1>9. C!Word(m.name) \in R /\ C!Value("double") \in R /\ C!Value("int") \in R
  OBVIOUS
<1> HIDE DEF R, cut, behind
<1>10. CASE t = w
  BY <1>2, <1>10, <1>0, FoundIt
<1>11. CASE t = Append(w, C!Value("int"))
  <2>1. /\ t \in Seq(R) /\ Len(t) = Len(w) + 1 /\ \A i \in 1..Len(w) : t[i] = w[i]
    BY <1>6, <1>9, <1>11, AppendProperties
  <2>2. Len(t) \in Nat /\ DOMAIN t = 1..Len(t) /\ k <= Len(t)
      /\ \A i \in 1..k : t[i] = C!Word(<<m.name[i]>>)
    BY <1>1, <1>2, <2>1
  <2>3. QED
    BY <2>2, <1>0, FoundIt
<1>12. CASE t = <<C!Word(m.name)>> \o behind
  <2> DEFINE a == <<C!Word(m.name)>>
  <2>1. a \in Seq(R) /\ Len(a) = 1 /\ a[1] = C!Word(m.name)
    BY <1>9
  <2> HIDE DEF a
  <2>2. /\ t \in Seq(R) /\ Len(t) = 1 + Len(behind)
        /\ \A i \in 1..1 + Len(behind) : t[i] = IF i <= 1 THEN a[i] ELSE behind[i - 1]
    BY <1>8, <1>12, <2>1, ConcatProperties DEF a
  <2>3. Len(behind) \in Nat
    BY <1>8
  <2>4. t[1] = C!Word(m.name) /\ 1 <= Len(t) /\ Len(t) \in Nat /\ DOMAIN t = 1..Len(t)
    BY <2>1, <2>2, <2>3
  <2>5. QED
    BY <2>4, FoundAsOne
<1>13. CASE t = cut
  <2>1. Len(t) \in Nat /\ DOMAIN t = 1..Len(t) /\ Len(t) = Len(w) - 1
      /\ \A i \in 1..Len(t) : t[i] = w[i]
    BY <1>7, <1>13
  <2>2. CASE k <= Len(t)
    <3>1. \A i \in 1..k : t[i] = C!Word(<<m.name[i]>>)
      BY <1>1, <1>2, <2>1, <2>2
    <3>2. QED
      BY <2>1, <2>2, <3>1, <1>0, FoundIt
  <2>3. CASE Len(t) < k
    <3>1. \A i \in DOMAIN t : t[i] = C!Word(<<m.name[i]>>)
      BY <1>1, <1>2, <2>1, <2>3
    <3>2. Len(t) <= k /\ Len(t) # k
      BY <1>1, <2>1, <2>3
    <3>3. QED
      BY <2>1, <3>1, <3>2, FoundCut DEF k
  <2>4. QED
    BY <1>1, <2>1, <2>2, <2>3
<1>14. CASE t = Append(cut, C!Value("double"))
  <2>1. /\ t \in Seq(R) /\ Len(t) = Len(w) /\ t[Len(w)] = C!Value("double")
        /\ \A i \in 1..Len(w) - 1 : t[i] = w[i]
    <3>1. /\ t \in Seq(R) /\ Len(t) = (Len(w) - 1) + 1 /\ t[(Len(w) - 1) + 1] = C!Value("double")
          /\ \A i \in 1..Len(w) - 1 : t[i] = cut[i]
      BY <1>7, <1>9, <1>14, AppendProperties
    <3>2. (Len(w) - 1) + 1 = Len(w)
      BY <1>2
    <3>3. QED
      BY <1>7, <3>1, <3>2
  <2>2. Len(t) \in Nat /\ DOMAIN t = 1..Len(t)
    BY <2>1
  <2>3. CASE k < Len(w)
    <3>1. \A i \in 1..k : t[i] = C!Word(<<m.name[i]>>)
      BY <1>1, <1>2, <2>1, <2>3
    <3>2. QED
      BY <1>1, <1>2, <2>1, <2>2, <2>3, <3>1, <1>0, FoundIt
  <2>4. CASE ~(k < Len(w))
    <3>0. k = Len(w)
      <4> DEFINE n == Len(w)
      <4>1. k \in {1, 2} /\ n \in Nat /\ k <= n /\ ~(k < n)
        BY <1>1, <1>2, <2>4
      <4> HIDE DEF n
      <4>2. k = n
        BY <4>1
      <4>3. QED
        BY <4>2 DEF n
    <3>1. \A i \in DOMAIN t : i < k => t[i] = C!Word(<<m.name[i]>>)
      BY <1>1, <1>2, <2>1, <2>2, <3>0
    <3>2. t[Len(t)].type = "double" /\ Len(t) <= k
      BY <1>1, <2>1, <3>0 DEF C!Value
    <3>3. QED
      BY <2>2, <3>1, <3>2, FoundCut DEF k
  <2>5. QED
    BY <2>3, <2>4
<1>15. QED
  BY <1>4, <1>10, <1>11, <1>12, <1>13, <1>14

\* No call is made at the start.
LEMMA CallInit == C!Init => CallKept
<1> SUFFICES ASSUME C!Init PROVE CallKept
  OBVIOUS
<1>1. call_call = C!NoCall /\ call_stub = FALSE /\ call_request = <<>> /\ call_server = "idle"
    /\ call_done = <<>> /\ call_answer = C!None
  BY DEF C!Init
<1>2. call_answer # "true"
  BY <1>1 DEF C!None
<1>3. QED
  BY <1>1, <1>2 DEF CallKept

\* The command that is served, and what has become of it.
LEMMA CallRead == CallKept /\ C!Read => CallKept'
<1> SUFFICES ASSUME CallKept, C!Read PROVE CallKept'
  OBVIOUS
<1>1. call_request # <<>> /\ call_server = "idle" /\ call_request' = <<>>
      /\ call_call' = call_call /\ call_stub' = call_stub /\ call_done' = call_done
      /\ call_answer' = call_answer
  BY DEF C!Read, C!ReadOr
<1>2. call_call # C!NoCall /\ call_call.server \in DOMAIN C!Servers
    /\ call_call.method \in C!Servers[call_call.server]
      /\ call_request \in C!Typed(call_call.method)
         /\ (call_stub => call_request = C!Written(call_call.method))
      /\ call_done = <<>> /\ call_answer # "true" /\ call_answer \in {"true", "false", C!None}
      /\ call_stub \in BOOLEAN
  BY <1>1 DEF CallKept
<1> DEFINE found == C!Found(call_request)
           m == call_call.method
<1>3. found.method \in {m, C!NoMethod}
  BY <1>2, TypedFound
<1>4. call_stub => /\ found.method = m /\ m # C!NoMethod /\ C!ReadsAll(m, found.rest)
                   /\ m.samples => C!SamplesOf(m, found.rest) = "asked"
  BY <1>2, StubFound
<1>5. IF found.method # C!NoMethod /\ C!Reads(found.method, found.rest)
      THEN /\ call_server' = "decided"
           /\ call_method' = [method |-> found.method, given |-> found.rest,
                         samples |-> C!SamplesOf(found.method, found.rest)]
      ELSE call_server' = "refused"
  BY DEF C!Read, C!ReadOr
<1> HIDE DEF found, m
<1>6. CASE found.method # C!NoMethod /\ C!Reads(found.method, found.rest)
  <2>1. /\ call_server' = "decided" /\ found.method = m /\ call_method'.method = m
        /\ call_method'.given = found.rest /\ call_method'.samples = C!SamplesOf(m, found.rest)
    BY <1>3, <1>5, <1>6
  <2>2. Len(found.rest) >= Len(m.args)
    BY <1>6, <2>1 DEF C!Reads, C!ReadsAll
  <2>3. /\ call_method'.method = call_call'.method
        /\ Len(call_method'.given) >= Len(call_call'.method.args)
        /\ call_stub' /\ call_call'.method.samples => call_method'.samples = "asked"
    BY <1>1, <1>4, <2>1, <2>2 DEF m
  <2>4. QED
    BY <1>1, <1>2, <2>1, <2>3 DEF CallKept
<1>7. CASE ~(found.method # C!NoMethod /\ C!Reads(found.method, found.rest))
  <2>1. call_server' = "refused"
    BY <1>5, <1>7
  <2>2. ~call_stub
    BY <1>4, <1>7 DEF C!Reads
  <2>3. QED
    BY <1>1, <1>2, <2>1, <2>2 DEF CallKept
<1>8. QED
  BY <1>6, <1>7

\* Every step keeps the invariant.
LEMMA CallNext == CallKept /\ [C!Next]_(C!callVars) => CallKept'
<1> SUFFICES ASSUME CallKept, [C!Next]_(C!callVars) PROVE CallKept'
  OBVIOUS
<1>1. ASSUME NEW s \in DOMAIN C!Servers, NEW m \in C!Servers[s], call_call = C!NoCall,
             call_call' = [server |-> s, method |-> m], call_stub' \in BOOLEAN, call_request' \in C!Typed(m),
             call_stub' => call_request' = C!Written(m), UNCHANGED <<call_server, call_method,
                                                                     call_done, call_answer>>
      PROVE  CallKept'
  <2>1. call_server = "idle" /\ call_done = <<>> /\ call_answer = C!None
    BY <1>1 DEF CallKept
  <2>2. call_call'.server = s /\ call_call'.method = m /\ call_call' # C!NoCall
    <3>1. call_call'.server = s /\ call_call'.method = m
      BY <1>1
    <3>2. s # C!None
      BY DEF C!Servers, C!None
    <3>3. C!NoCall.server = C!None
      BY DEF C!NoCall
    <3>4. QED
      BY <3>1, <3>2, <3>3
  <2>3. QED
    BY <1>1, <2>1, <2>2 DEF CallKept, C!None
<1>2. CASE \E s \in DOMAIN C!Servers : \E m \in C!Servers[s] : C!Call(s, m)
  <2>0. PICK s \in DOMAIN C!Servers : \E m \in C!Servers[s] : C!Call(s, m)
    BY <1>2
  <2>1. PICK m \in C!Servers[s] : C!Call(s, m)
    BY <2>0
  <2>2. C!Written(m) \in C!Typed(m)
    <3>1. C!Written(m) # <<>>
      <4>1. Shaped(m)
        BY MethodsAreShaped
      <4>2. Len(C!Written(m)) = WrittenLength(m) /\ Len(m.args) \in Nat /\ Len(m.name) \in {1, 2}
        BY <4>1, WrittenIs, ShapeIs
      <4>3. PICK l \in {0, 1} : WrittenLength(m) = (Len(m.name) + Len(m.args)) + l
        BY DEF WrittenLength
      <4>4. Len(C!Written(m)) # 0
        <5> DEFINE k == Len(m.name)
                   n == Len(m.args)
        <5>1. k \in {1, 2} /\ n \in Nat /\ Len(C!Written(m)) = (k + n) + l
          BY <4>2, <4>3
        <5> HIDE DEF k, n
        <5>2. (k + n) + l # 0
          BY <5>1
        <5>3. QED
          BY <5>1, <5>2
      <4>5. QED
        BY <4>4
    <3>2. QED
      BY <3>1 DEF C!Typed
  <2>3. QED
    BY <1>1, <2>1, <2>2 DEF C!Call
<1>3. CASE \E s \in DOMAIN C!Servers : \E m \in C!Servers[s] : C!TypeCommand(s, m)
  <2>0. PICK s \in DOMAIN C!Servers : \E m \in C!Servers[s] : C!TypeCommand(s, m)
    BY <1>3
  <2>1. PICK m \in C!Servers[s] : C!TypeCommand(s, m)
    BY <2>0
  <2>2. QED
    BY <1>1, <2>1 DEF C!TypeCommand
<1>4. CASE C!Read
  BY <1>4, CallRead
<1>5. CASE \E r \in BOOLEAN : C!Run(r)
  <2>1. PICK r \in BOOLEAN : C!Run(r)
    BY <1>5
  <2>2. /\ call_server = "decided" /\ call_server' = "answered"
        /\ call_done' = Append(call_done, [method |-> call_method.method, result |-> r])
        /\ UNCHANGED <<call_call, call_stub, call_request, call_method, call_answer>>
    BY <2>1 DEF C!Run
  <2>3. call_done = <<>> /\ call_answer # "true" /\ call_method.method = call_call.method
    BY <2>2 DEF CallKept
  <2>4. call_done' = <<[method |-> call_call'.method, result |-> r]>>
    BY <2>2, <2>3
  <2>5. QED
    BY <2>2, <2>3, <2>4 DEF CallKept
<1>6. CASE C!Lost \/ C!Refused
  <2>1. /\ call_answer' = "false" /\ call_call # C!NoCall
        /\ UNCHANGED <<call_call, call_stub, call_request, call_server, call_method, call_done>>
    BY <1>6 DEF C!Lost, C!Refused, C!OnFailure, C!AnswerFalse, CallKept
  <2>2. QED
    BY <2>1 DEF CallKept
<1>7. CASE C!Answered
  <2>1. /\ call_server = "answered"
        /\ UNCHANGED <<call_call, call_stub, call_request, call_server, call_method, call_done>>
        /\ call_answer' = IF call_done[Len(call_done)].result THEN "true" ELSE "false"
    BY <1>7 DEF C!Answered
  <2>2. PICK r \in BOOLEAN : call_done = <<[method |-> call_call.method, result |-> r]>>
    BY <2>1 DEF CallKept
  <2>3. call_done[Len(call_done)].result = r
    BY <2>2
  <2>4. (call_answer' = "true" => r) /\ call_answer' \in {"true", "false"}
    BY <2>1, <2>3
  <2>5. call_call # C!NoCall
    BY <2>1 DEF CallKept
  <2>6. QED
    BY <2>1, <2>2, <2>4, <2>5 DEF CallKept
<1>8. CASE C!Again
  <2>1. call_request = <<>>
    BY <1>8 DEF C!Again, CallKept
  <2>2. QED
    BY <1>8, <2>1 DEF C!Again, CallKept, C!None
<1>9. CASE UNCHANGED C!callVars
  BY <1>9 DEF C!callVars, CallKept
<1>10. QED
  BY <1>2, <1>3, <1>4, <1>5, <1>6, <1>7, <1>8, <1>9 DEF C!Next

\* The invariant of a call.
LEMMA CallAlways == C!Spec => []CallKept
BY CallInit, CallNext, PTL DEF C!Spec

\* The invariant has what client and server agree on.
LEMMA CallAgrees == CallKept => C!TypeOK /\ C!RunsWhatWasCalled /\ C!StubsAreUnderstood
    /\ C!TrueMeansDone
<1> SUFFICES ASSUME CallKept PROVE C!TypeOK /\ C!RunsWhatWasCalled /\ C!StubsAreUnderstood
    /\ C!TrueMeansDone
  OBVIOUS
<1>1. CASE call_server = "answered"
  <2>1. PICK r \in BOOLEAN : call_done = <<[method |-> call_call.method, result |-> r]>>
      /\ (call_answer = "true" => r)
    BY <1>1 DEF CallKept
  <2>2. DOMAIN call_done = {1} /\ Len(call_done) = 1 /\ call_done # <<>>
      /\ call_done[1].method = call_call.method /\ call_done[1].result = r
    BY <2>1
  <2>3. QED
    BY <1>1, <2>1, <2>2 DEF CallKept, C!TypeOK, C!RunsWhatWasCalled, C!StubsAreUnderstood,
       C!TrueMeansDone
<1>2. CASE call_server # "answered"
  <2>1. call_done = <<>> /\ DOMAIN call_done = {} /\ Len(call_done) = 0 /\ call_answer # "true"
    BY <1>2 DEF CallKept
  <2>2. QED
    BY <1>2, <2>1 DEF CallKept, C!TypeOK, C!RunsWhatWasCalled, C!StubsAreUnderstood, C!TrueMeansDone
<1>3. QED
  BY <1>1, <1>2

\* A behaviour of all the components is one of RemoteCalls, which takes its steps or none.
LEMMA CallBehaves == AllSpec => C!Spec
<1>1. AllInit => C!Init
  BY DEF AllInit
<1>2. [AllNext]_allVars => [C!Next]_(C!callVars)
  BY DEF AllNext, allVars, callVars, C!callVars, DeviceEstimationRuns, ContactPointsRuns,
         SettingsEditorRuns, RemoteCallsRuns, FloatingBaseRuns, VirtualAnalogRuns,
         OffsetSmoothingRuns, TreeOdometryRuns, TreeContactsRuns
<1>3. QED
  BY <1>1, <1>2, PTL DEF AllSpec, C!Spec

--------------------------------------------------------------------------------
(* Together *)

\* The odometry stands on links of the model, those last asked for, and whoever keeps their names
\* agrees; ports and threads are there for who uses them.
THEOREM LinksAreThoseAskedHolds == AllSpec => []LinksAreThoseAsked
<1>1. AllSpec => []BaseKept
  BY BaseBehaves, BaseAlways, PTL
<1>2. AllSpec => []OdometryKept
  BY OdometryBehaves, OdometryAlways, PTL
<1>3. ASSUME BaseKept,
            OdometryKept
      PROVE  LinksAreThoseAsked
  <2>1. BaseKept => F!TypeOK /\ F!PosesOfModelFrames /\ F!FollowsTheCommands
    BY DEF BaseKept
  <2>2. OdometryKept => H!TypeOK /\ H!LinksAgree /\ H!PortsAreThere /\ H!AbortsOffTheFeet
      /\ H!ThreadIsThere
    BY DEF OdometryKept, OdometryTyped, OdometryLinks, H!LinksAgree
  <2>3. QED
    BY <1>3, <2>1, <2>2 DEF LinksAreThoseAsked
<1>4. QED
  BY <1>1, <1>2, <1>3, PTL

\* Client and server agree: an edit that is not marked has arrived unless a patch broke, a command runs
\* the method that was called with what it was given, and true means that it was done.
THEOREM BothSidesAgreeHolds == AllSpec => []BothSidesAgree
<1>1. AllSpec => []EditKept
  BY EditBehaves, EditAlways, PTL
<1>2. AllSpec => []CallKept
  BY CallBehaves, CallAlways, PTL
<1>3. ASSUME EditKept,
            CallKept
      PROVE  BothSidesAgree
  <2>1. EditKept => E!TypeOK /\ E!CleanMeansSent /\ E!PatchesAreWellFormed /\ E!GravityIsOneEdit
    BY EditTypes, EditArrives
  <2>2. CallKept => C!TypeOK /\ C!RunsWhatWasCalled /\ C!StubsAreUnderstood /\ C!TrueMeansDone
    BY CallAgrees
  <2>3. QED
    BY <1>3, <2>1, <2>2 DEF BothSidesAgree
<1>4. QED
  BY <1>1, <1>2, <1>3, PTL

\* No edit is sent from the middle of a group, no command changes the odometry in the middle of a run or
\* between the estimation of wrenches and their use, no offset jumps in the middle of a smoothing.
THEOREM NothingInTheMiddleHolds == AllSpec => NothingInTheMiddle
<1>1. AllSpec => E!GroupsAreSentWhole
  BY EditBehaves, GroupsAreSentWholeHolds
<1>2. AllSpec => F!RunSeesOneOdometry
  BY BaseBehaves, OneOdometryInARun
<1>3. AllSpec => O!MovesGradually
  BY SmoothBehaves, MovesGraduallyHolds
<1>4. AllSpec => H!ReadsWhatWasComputed
  BY OdometryBehaves, ReadsTheModelComputed
<1>5. QED
  BY <1>1, <1>2, <1>3, <1>4 DEF NothingInTheMiddle
================================================================================
