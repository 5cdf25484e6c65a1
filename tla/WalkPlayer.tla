------------------------------- MODULE WalkPlayer ------------------------------
(***************************************************************************)
(* walkPlayer plays a walking sequence: a thread sends the steps of the    *)
(* legs and the torso to the robot, and next to each step the head of the  *)
(* trajectories for torqueBalancing, which it consumes.  The RPC port      *)
(* starts, stops and resets the sequence; it is served before configure    *)
(* has read the files.  Thread and port exclude each other by a semaphore. *)
(*                                                                         *)
(* The steps of a file, and the rows of the trajectories, are numbered     *)
(* from 1; an empty bottle, and a step read out of bounds, is 0.           *)
(***************************************************************************)
EXTENDS Naturals, Sequences, SequencesExt

CONSTANTS
  Steps,       \* bound: the steps of a file, a natural number
  MaxCommands  \* bound: the commands in a behaviour, a natural number

Parts == {"left", "right", "torso"}

VARIABLES
  phase,
  options,  \* the command line: what the files hold, and refSpeedMinJerk
  actions,  \* action_vector
  stream,   \* action_vector_torqueBalancing
  status, current,
  mutex,    \* "lost": taken by a run that is over
  modes,    \* the control mode of each board
  moving,   \* the boards on their way to the first step
  sent,     \* the last step sent, and the row sent next to it
  commands, \* commands received so far
  afresh    \* was the sequence started at most once, with its files read, and never reset?

walkVars == <<phase, options, actions, stream, status, current, mutex, modes, moving, sent,
              commands, afresh>>

TypeOK ==
  /\ phase \in {"serving", "started", "ready", "ended"}
  /\ options \in [file : 0..Steps, again : 0..Steps, rows : 0..Steps, home : BOOLEAN]
  /\ actions \in Seq(1..Steps)
  /\ stream \in Seq(1..Steps)
  /\ status \in {"idle", "start", "running"}
  /\ current \in Nat /\ (actions # <<>> => current < Len(actions))
  /\ mutex \in {"free", "thread", "lost"}
  /\ modes \in [Parts -> {"position", "direct"}]
  /\ moving \in SUBSET Parts
  /\ sent \in [step : 0..Steps, row : 0..Steps]
  /\ commands \in 0..MaxCommands
  /\ afresh \in BOOLEAN

\* No rows: torqueBalancingSequence is not given.  again: the steps of the files that have the
\* name of that sequence
Init ==
  /\ phase = "serving"
  /\ options \in [file : 0..Steps, again : 0..Steps, rows : 0..Steps, home : BOOLEAN]
  /\ actions = <<>> /\ stream = <<>>
  /\ status = "idle" /\ current = 0
  /\ mutex = "free"
  /\ modes \in {m \in [Parts -> {"position", "direct"}] : m["left"] = m["right"]}
  /\ moving = {}
  /\ sent = [step |-> 0, row |-> 0]
  /\ commands = 0
  /\ afresh = TRUE

Numbers(n) == [i \in 1..n |-> i]

--------------------------------------------------------------------------------
(* configure, and the end of the module *)

StartThread ==
  /\ phase = "serving"
  /\ phase' = "started"
  /\ UNCHANGED <<options, actions, stream, status, current, mutex, modes, moving, sent, commands, afresh>>

\* the files are read without the semaphore
OpenFiles ==
  /\ phase = "started"
  /\ phase' = "ready"
  /\ actions' = actions \o Numbers(options.file)
  /\ stream' = stream \o Numbers(options.rows)
  /\ UNCHANGED <<options, status, current, mutex, modes, moving, sent, commands, afresh>>

--------------------------------------------------------------------------------
(* respond *)

Command ==
  /\ phase # "ended" /\ mutex = "free"
  /\ commands < MaxCommands
  /\ commands' = commands + 1
  /\ UNCHANGED <<phase, options, mutex, modes, moving, sent>>

CommandStart ==
  /\ Command
  /\ status' = IF current = 0 THEN "start" ELSE "running"
  /\ afresh' = (afresh /\ (sent.step = 0 \/ current > 0))
  /\ UNCHANGED <<actions, stream, current>>

CommandStop ==
  /\ Command
  /\ status' = "idle"
  /\ UNCHANGED <<actions, stream, current, afresh>>

\* what is read again is put after what is there
CommandReset ==
  /\ Command
  /\ status' = "idle"
  /\ current' = 0
  /\ actions' = actions \o Numbers(IF options.rows = 0 THEN 0 ELSE options.again)
  /\ stream' = stream \o Numbers(options.rows)
  /\ afresh' = FALSE

--------------------------------------------------------------------------------
(* run *)

Tick == phase \in {"started", "ready"} /\ mutex = "free"

\* the rows that go with a step, sent after it
Sends(step) ==
  /\ sent' = [step |-> step, row |-> IF stream = <<>> THEN 0 ELSE Head(stream)]
  /\ stream' = IF stream = <<>> THEN <<>> ELSE Tail(stream)

\* the first step of an empty sequence is read out of bounds
RunStartOutOfBounds ==
  /\ Tick /\ status = "start" /\ actions = <<>>
  /\ \/ phase' = "ended" /\ UNCHANGED <<status, stream, sent>>
     \/ status' = "running" /\ Sends(0) /\ UNCHANGED phase
  /\ afresh' = FALSE
  /\ UNCHANGED <<options, actions, current, mutex, modes, moving, commands>>

\* execute_joint_command: the first step, with a trajectory to it, holding the semaphore.
\* Wrong variant: the torso keeps the mode it has
RunStartHomeWith(ps) ==
  /\ Tick /\ status = "start" /\ actions # <<>> /\ options.home
  /\ mutex' = "thread"
  /\ modes' = [p \in Parts |-> IF p \in ps THEN "position" ELSE modes[p]]
  /\ moving' = Parts
  /\ UNCHANGED <<phase, options, actions, stream, status, current, sent, commands, afresh>>
RunStartHomeLegsOnly == RunStartHomeWith({"left", "right"})
RunStartHome == RunStartHomeWith(Parts)

\* The three answers of checkMotionDone are written over each other: that of the torso is left.
\* Wrong variant: that of a leg is left; the rows are sent twice
HomeDoneWhen(p, rows) ==
  /\ mutex = "thread" /\ p \notin moving
  /\ mutex' = "free"
  /\ sent' = [step |-> actions[1], row |-> IF rows = <<>> THEN 0 ELSE Head(rows)]
  /\ stream' = IF rows = <<>> THEN <<>> ELSE Tail(rows)
  /\ status' = "running"
  /\ UNCHANGED <<phase, options, actions, current, modes, moving, commands, afresh>>
HomeDoneOfLeg == HomeDoneWhen("left", stream)
HomeDoneDropsRow == HomeDoneWhen("torso", IF stream = <<>> THEN <<>> ELSE Tail(stream))
HomeDone == HomeDoneWhen("torso", stream)

MoveDone(p) ==
  /\ p \in moving
  /\ moving' = moving \ {p}
  /\ UNCHANGED <<phase, options, actions, stream, status, current, mutex, modes, sent, commands, afresh>>

\* the boards are switched if none of them is in direct mode
Directly ==
  modes' = IF \A p \in Parts : modes[p] # "direct" THEN [p \in Parts |-> "direct"] ELSE modes

RunStart ==
  /\ Tick /\ status = "start" /\ actions # <<>> /\ ~options.home
  /\ Directly
  /\ Sends(actions[1])
  /\ status' = "running"
  /\ UNCHANGED <<phase, options, actions, current, mutex, moving, commands, afresh>>

\* after the time between the two steps.  A board that still moves gets a position in direct mode
RunNext ==
  /\ Tick /\ status = "running" /\ current + 1 < Len(actions)
  /\ current' = current + 1
  /\ Directly
  /\ Sends(actions[current' + 1])
  /\ UNCHANGED <<phase, options, actions, status, mutex, moving, commands, afresh>>

\* Wrong variants: return without the semaphore; the status is kept
RunCompleteWith(m, s) ==
  /\ Tick /\ status = "running" /\ actions # <<>> /\ current + 1 >= Len(actions)
  /\ status' = s
  /\ mutex' = m
  /\ UNCHANGED <<phase, options, actions, stream, current, modes, moving, sent, commands, afresh>>
RunCompleteReturns == RunCompleteWith("lost", "idle")
RunCompleteStays == RunCompleteWith("free", "running")
RunComplete == RunCompleteWith("free", "idle")

\* returns without giving the semaphore back
RunEmpty ==
  /\ Tick /\ status = "running" /\ actions = <<>>
  /\ status' = "idle"
  /\ mutex' = "lost"
  /\ UNCHANGED <<phase, options, actions, stream, current, modes, moving, sent, commands, afresh>>

Run == RunStartOutOfBounds \/ RunStartHome \/ HomeDone \/ RunStart \/ RunNext \/ RunComplete \/ RunEmpty

Next ==
  \/ StartThread \/ OpenFiles
  \/ CommandStart \/ CommandStop \/ CommandReset
  \/ Run
  \/ \E p \in Parts : MoveDone(p)

Spec == Init /\ [][Next]_walkVars

\* the thread is periodic, configure goes on and the boards reach the first step; nobody has to
\* send a command
FairSpec ==
  /\ Spec
  /\ WF_walkVars(Run) /\ WF_walkVars(StartThread)
  /\ \A p \in Parts : WF_walkVars(MoveDone(p))

--------------------------------------------------------------------------------
(* Properties *)

\* The semaphore is lost to the commands only if the sequence is empty (workingThread.cpp:291-294)
LostOnlyWhenEmpty == [][mutex' = "lost" /\ mutex # "lost" => actions = <<>>]_walkVars

\* No step is sent, and no command served, while the torso is on its way to the first one,
\* although the legs may be (workingThread.cpp:122-130)
TorsoMovesAlone == "torso" \in moving => mutex = "thread"

\* In a sequence that was started once, after a trajectory to the first step, the boards of all
\* the parts take the next ones in direct mode, whatever mode they were in before
\* (workingThread.cpp:134-150)
StepsGoDirectly ==
  options.home /\ afresh /\ sent.step > 1 =>
    \A p \in Parts : modes[p] = "direct"

\* In a sequence that was started once and not reset, the row for torqueBalancing is the one of
\* the step next to it, stops included (workingThread.cpp:211-267)
RowsInStep ==
  afresh /\ sent.step \in 1..options.rows => sent.row = sent.step

\* A started sequence ends or is stopped, unless it blocks or kills the module
SequenceEnds == status # "idle" ~> status = "idle" \/ phase = "ended"

================================================================================
