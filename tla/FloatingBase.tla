---- MODULE FloatingBase ----
(***************************************************************************)
(* floatingBaseEstimator: a device that computes the pose of the base from *)
(* the encoders and a link assumed to be fixed.  Three threads meet at     *)
(* deviceMutex: the one that opens, attaches, detaches and closes the      *)
(* device, its periodic thread, and the thread that serves the RPC port.   *)
(***************************************************************************)
EXTENDS Naturals

CONSTANTS Frames, ModelFrames,   \* names a request can hold, those of the model
          MaxCommands            \* bound on the RPC commands of a behaviour

VARIABLES settings,   \* initialFixedFrame and initialWorldFrame
          device,     \* closed, open, attached, detached
          owner,      \* what the owner of the device does
          thread,     \* the periodic thread: none, asleep, waiting, running
          mutex,      \* deviceMutex
          rpc,        \* the RPC port: closed, idle, or the command that waits
          served,     \* commands accepted so far
          moved,      \* estimator.updateKinematics has been called
          odometry,   \* fixed and world link of the estimator
          configured, \* correctlyConfigured
          asked,      \* links the last command answered TRUE asked for
          published   \* links of the pose published last

baseVars == <<settings, device, owner, thread, mutex, rpc, served, moved,
              odometry, configured, asked, published>>

None == "none"
Unset == [fixed |-> None, world |-> None]
Nothing == [fixed |-> "nothing", world |-> "nothing"]
Links == [fixed : Frames, world : Frames]
Command(kind, links) == [kind |-> kind, links |-> links]
Commands ==
    {Command("reset", l) : l \in Links} \cup {Command("get", Unset)}
      \cup {Command("change", [Unset EXCEPT !.fixed = f]) : f \in Frames}
Port == {Command("closed", Unset), Command("idle", Unset)}

\* SimpleLeggedOdometry: init and changeFixedFrame refuse an unknown frame and
\* then leave the estimate as it is; both need the kinematics (external).
Started(links, kinematics) ==
    kinematics /\ {links.fixed, links.world} \subseteq ModelFrames
Start(links, kinematics) == IF Started(links, kinematics) THEN links ELSE odometry
ChangeToAny(fixed) ==
    IF odometry # Unset THEN [odometry EXCEPT !.fixed = fixed] ELSE odometry
ChangeTo(fixed) ==
    IF fixed \in ModelFrames /\ odometry # Unset
      THEN [odometry EXCEPT !.fixed = fixed] ELSE odometry

Init ==
    /\ settings \in Links \cup {Unset}
    /\ device = "closed" /\ owner = "idle" /\ thread = "none"
    /\ mutex = None /\ rpc = Command("closed", Unset) /\ served = 0
    /\ moved = FALSE /\ odometry = Unset /\ configured = FALSE
    /\ asked = Unset /\ published = Nothing

(* open, attachAll, detachAll, close -------------------------------------*)
\* loadSettingsFromConfig refuses settings without initialFixedFrame; then
\* the model, the ports (served from here on) and the remapper are opened.
Open(modelLoads, portsOpen, remapperOpens) ==
    /\ device = "closed" /\ owner = "idle" /\ mutex = None
    /\ IF settings # Unset /\ modelLoads /\ portsOpen /\ remapperOpens
         THEN device' = "open" /\ rpc' = Command("idle", Unset)
         ELSE device' = "failed" /\ UNCHANGED rpc
    /\ UNCHANGED <<settings, owner, thread, mutex, served, moved, odometry,
                   configured, asked, published>>

AttachAll(boardsAttach) ==
    /\ device = "open" /\ mutex = None
    /\ device' = IF boardsAttach THEN "attached" ELSE "open"
    /\ thread' = IF boardsAttach THEN "asleep" ELSE thread
    /\ UNCHANGED <<settings, owner, mutex, rpc, served, moved, odometry,
                   configured, asked, published>>

\* detachAll keeps deviceMutex to its end.
DetachBegin ==
    /\ device = "attached" /\ owner = "idle" /\ mutex = None
    /\ owner' = "stopping" /\ mutex' = "owner" /\ configured' = FALSE
    /\ UNCHANGED <<settings, device, thread, rpc, served, moved, odometry,
                   asked, published>>
\* stop() waits for a run that has begun, which may be waiting for deviceMutex.
DetachStopWhen(threads) ==
    /\ owner = "stopping" /\ thread \in threads
    /\ thread' = "none" /\ owner' = "closing"
    /\ UNCHANGED <<settings, device, mutex, rpc, served, moved, odometry,
                   configured, asked, published>>
DetachStopAfterRun == DetachStopWhen({"running"})
DetachStop == DetachStopWhen({"asleep"})
\* Closing the RPC port waits for the command being served.
DetachEnd ==
    /\ owner = "closing" /\ rpc.kind = "idle"
    /\ rpc' = Command("closed", Unset) /\ device' = "detached" /\ owner' = "idle" /\ mutex' = None
    /\ UNCHANGED <<settings, thread, served, moved, odometry, configured,
                   asked, published>>

Close ==
    /\ device \in {"open", "detached", "failed"} /\ owner = "idle" /\ mutex = None
    /\ device' = "gone" /\ configured' = FALSE
    /\ UNCHANGED <<settings, owner, thread, mutex, rpc, served, moved, odometry,
                   asked, published>>

(* run -------------------------------------------------------------------*)
Wake == thread = "asleep" /\ thread' = "waiting"
        /\ UNCHANGED <<settings, device, owner, mutex, rpc, served, moved, odometry,
                       configured, asked, published>>
Lock == thread = "waiting" /\ mutex = None
        /\ thread' = "running" /\ mutex' = "thread"
        /\ UNCHANGED <<settings, device, owner, rpc, served, moved, odometry,
                       configured, asked, published>>

\* The first run with good readings starts the odometry, and repeats it until
\* it succeeds; a pose is published when the kinematics could be updated.
RunWith(reads, estimates, first, good) ==
    LET start == reads /\ first /\ good
    IN  /\ thread = "running"
        /\ thread' = "asleep" /\ mutex' = None
        /\ moved' = (moved \/ (reads /\ estimates))
        /\ odometry' = IF start /\ Started(settings, moved') THEN settings ELSE odometry
        /\ configured' = (configured \/ start)
        /\ asked' = IF start THEN settings ELSE asked
        /\ published' = IF reads /\ configured' /\ estimates THEN odometry' ELSE published
        /\ UNCHANGED <<settings, device, owner, rpc, served>>
RunUnchecked(reads, estimates) == RunWith(reads, estimates, ~configured, TRUE)
Run(reads, estimates) ==
    RunWith(reads, estimates, ~configured, Started(settings, moved \/ estimates))

(* RPC -------------------------------------------------------------------*)
Ask(c) ==
    /\ rpc.kind = "idle" /\ served < MaxCommands
    /\ rpc' = c /\ served' = served + 1
    /\ UNCHANGED <<settings, device, owner, thread, mutex, moved, odometry,
                   configured, asked, published>>
\* resetSimpleLeggedOdometry(ToArbitraryFrame), changeFixedLink..., get...
ServeWhen(free) ==
    /\ rpc \in Commands /\ free
    /\ odometry' = CASE rpc.kind = "reset" -> Start(rpc.links, moved)
                     [] rpc.kind = "change" -> ChangeTo(rpc.links.fixed)
                     [] OTHER -> odometry
    /\ asked' = CASE rpc.kind = "reset" /\ Started(rpc.links, moved) -> rpc.links
                  [] rpc.kind = "change" /\ odometry'.fixed = rpc.links.fixed
                       -> [asked EXCEPT !.fixed = rpc.links.fixed]
                  [] OTHER -> asked
    /\ rpc' = Command("idle", Unset)
    /\ UNCHANGED <<settings, device, owner, thread, mutex, served, moved,
                   configured, published>>
ServeUnlocked == ServeWhen(TRUE)
Serve == ServeWhen(mutex = None)

Next ==
    \/ \E m, p, r \in BOOLEAN : Open(m, p, r)
    \/ \E b \in BOOLEAN : AttachAll(b)
    \/ DetachBegin \/ DetachStop \/ DetachEnd \/ Close
    \/ Wake \/ Lock
    \/ \E r, e \in BOOLEAN : Run(r, e)
    \/ \E c \in Commands : Ask(c)
    \/ Serve

Spec == Init /\ [][Next]_baseVars
FairSpec ==
    /\ Spec
    /\ WF_baseVars(Lock) /\ WF_baseVars(Serve)
    /\ WF_baseVars(\E r, e \in BOOLEAN : Run(r, e))
    /\ WF_baseVars(DetachStop) /\ WF_baseVars(DetachEnd)

(* Properties ------------------------------------------------------------*)
TypeOK ==
    /\ settings \in Links \cup {Unset}
    /\ device \in {"closed", "open", "attached", "detached", "failed", "gone"}
    /\ owner \in {"idle", "stopping", "closing"}
    /\ thread \in {"none", "asleep", "waiting", "running"}
    /\ thread # "none" => device = "attached"
    /\ mutex \in {None, "owner", "thread"}
    /\ rpc \in Commands \cup Port
    /\ served \in 0 .. MaxCommands
    /\ {moved, configured} \subseteq BOOLEAN
    /\ odometry \in Links \cup {Unset} /\ published \in Links \cup {Nothing}

\* The pose published while the odometry is configured rests on frames the
\* model has, whatever the configuration and the commands ask for.
PosesOfModelFrames ==
    published # Nothing => {published.fixed, published.world} \subseteq ModelFrames

\* Once the first run has started the odometry, its fixed and world links are
\* those the last command answered with TRUE has asked for.
FollowsTheCommands == configured => odometry = asked

\* No command changes the odometry in the middle of a run, between the
\* kinematics and the poses it publishes from them.
RunSeesOneOdometry ==
    [][thread = "running" /\ thread' = "running" => odometry' = odometry]_baseVars

\* detachAll returns, unless a run or a command was already waiting for the
\* mutex it keeps while it waits for them.
DetachEnds ==
    (owner = "stopping")
       ~> (owner = "idle" \/ thread = "waiting" \/ rpc \in Commands)
====
