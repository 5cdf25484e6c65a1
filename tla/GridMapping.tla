---- MODULE GridMapping ----
(***************************************************************************)
(* reachRandomJointPositions (module.cpp): two joints are driven through a *)
(* grid of positions drawn once, at configuration; the robot is left still *)
(* at each of them for a while, and two ports tell a fitting program which *)
(* of the positions it may use.  Angles are steps from the centre of the   *)
(* range, time is counted in periods of the module.                        *)
(***************************************************************************)
EXTENDS Integers, Sequences, SequencesExt

CONSTANTS Halves,        \* half the range of a joint, in steps
          Deltas,        \* distance of two rows, in steps
          StaticPeriod,  \* static_pose_period
          ReturnPeriod,  \* return_point_waiting_period
          Forever        \* a waiting time the elapsed time never exceeds

VARIABLES config,   \* mode and joints of the configuration file
          phase,    \* where configure, updateModule and close have got
          awaited,  \* flag ports whose connection is still waited for
          next,     \* next_desired_position
          wait, elapsed, returnPoint, keepFitting,
          arrived,  \* the motion commanded last has ended
          unread,   \* a checkMotionDone has failed since that command
          drivers,  \* the remote control boards: open, closed, dangling
          homed     \* close_drivers has restored speeds and homed the joints

gridVars == <<config, phase, awaited, next, wait, elapsed, returnPoint,
              keepFitting, arrived, unread, drivers, homed>>

Ports == {"return", "fitting"}
Modes == {"mapping", "mappingWithReturn", "other"}
Mapping(c) == c.mode # "other"

(* The positions ---------------------------------------------------------*)
Point(pos, time, flag, boundary) ==
    [pos |-> pos, time |-> time, flag |-> flag, boundary |-> boundary]
Center == <<0, 0>>
At(moving, m, f) == IF moving = 1 THEN <<m, f>> ELSE <<f, m>>
Home(flag) == Point(Center, ReturnPeriod, flag, "out")

Row(c, moving, step, flag, first, last) ==
    LET still == step * c.delta[3 - moving]
        one(m, b) == Point(At(moving, m, still), StaticPeriod, first, b)
    IN  <<one(0, "start"), one(-c.half[moving], "in"), one(c.half[moving], "in"),
          one(0, last)>>
        \o (IF c.mode = "mappingWithReturn" THEN <<Home(flag)>> ELSE <<>>)
DrawRowOpen(c, moving, step, flag) == Row(c, moving, step, flag, FALSE, "in")
DrawRowFlagged(c, moving, step, flag) == Row(c, moving, step, flag, flag, "stop")
DrawRow(c, moving, step, flag) == Row(c, moving, step, flag, FALSE, "stop")

\* ceil of the half range over the distance of the rows
LinesBeyond(c, j) == c.half[j] \div c.delta[j] + 1
Lines(c, j) == (c.half[j] + c.delta[j] - 1) \div c.delta[j]
Rows(c, moving) ==
    DrawRow(c, moving, 0, FALSE) \o
    FlattenSeq([i \in 1 .. Lines(c, 3 - moving) |->
                  DrawRow(c, moving, i, TRUE) \o DrawRow(c, moving, -i, FALSE)])
Positions(c) ==
    <<Home(TRUE)>> \o Rows(c, 2) \o <<Home(TRUE)>> \o Rows(c, 1) \o <<Home(TRUE)>>

(* configure -------------------------------------------------------------*)
Init ==
    /\ config \in [mode : Modes, half : [1 .. 2 -> Halves], delta : [1 .. 2 -> Deltas],
                   two : BOOLEAN, ports : SUBSET Ports]
    /\ phase = "configuring"
    /\ awaited = {} /\ next = 1 /\ elapsed = 0
    /\ wait \in {0, ReturnPeriod, Forever}      \* never initialised
    /\ keepFitting \in BOOLEAN                  \* never initialised
    /\ returnPoint = FALSE /\ arrived = TRUE /\ unread = FALSE
    /\ drivers = "none" /\ homed = FALSE

\* A part that does not open, before the joints are read.
OpenFails ==
    /\ phase = "configuring" /\ drivers = "none"
    /\ phase' = "closed" /\ drivers' = "closed"
    /\ UNCHANGED <<config, awaited, next, wait, elapsed, returnPoint, keepFitting,
                   arrived, unread, homed>>

Configure ==
    /\ phase = "configuring"
    /\ IF Mapping(config) /\ ~config.two
         THEN phase' = "closed" /\ drivers' = "closed" /\ homed' = TRUE /\ UNCHANGED awaited
         ELSE /\ phase' = "running" /\ drivers' = "open"
              /\ awaited' = config.ports /\ UNCHANGED homed
    /\ UNCHANGED <<config, next, wait, elapsed, returnPoint, keepFitting, arrived, unread>>

(* updateModule ----------------------------------------------------------*)
AwaitedNow == IF "return" \in awaited THEN "return" ELSE "fitting"
WaitForPort(connected) ==
    /\ phase = "running" /\ awaited # {}
    /\ awaited' = IF connected THEN awaited \ {AwaitedNow} ELSE awaited
    /\ UNCHANGED <<config, phase, next, wait, elapsed, returnPoint, keepFitting,
                   arrived, unread, drivers, homed>>

\* The next position is commanded, or the module ends.
NextDesired(last) ==
    LET list == Positions(config)
    IN  IF Mapping(config) /\ next <= last
        THEN /\ wait' = list[next].time
             /\ returnPoint' = list[next].flag
             /\ keepFitting' = (list[next].boundary \in {"start", "in"})
             /\ next' = next + 1
             /\ arrived' = FALSE /\ unread' = FALSE
             /\ UNCHANGED phase
        ELSE /\ phase' = "ended"
             /\ UNCHANGED <<next, wait, returnPoint, keepFitting, arrived, unread>>
MoveOnStillCounting == NextDesired(Len(Positions(config))) /\ UNCHANGED elapsed
MoveOnSkipsLast == NextDesired(Len(Positions(config)) - 1) /\ elapsed' = 0
MoveOn == NextDesired(Len(Positions(config))) /\ elapsed' = 0

\* A joint whose checkMotionDone fails counts as one that has arrived.
Counted(reads) == IF arrived \/ ~reads THEN elapsed + 1 ELSE elapsed

Over(reads) == wait # Forever /\ Counted(reads) > wait

Running == phase = "running" /\ awaited = {} /\ drivers = "open"
UpdateStays(reads) ==
    /\ Running /\ ~Over(reads)
    /\ elapsed' = IF wait = Forever THEN elapsed ELSE Counted(reads)
    /\ unread' = (unread \/ ~reads)
    /\ UNCHANGED <<config, phase, awaited, next, wait, returnPoint, keepFitting,
                   arrived, drivers, homed>>
UpdateMoves(reads) ==
    /\ Running /\ Over(reads)
    /\ MoveOn
    /\ UNCHANGED <<config, awaited, drivers, homed>>

Arrive ==
    /\ ~arrived /\ arrived' = TRUE
    /\ UNCHANGED <<config, phase, awaited, next, wait, elapsed, returnPoint,
                   keepFitting, unread, drivers, homed>>

(* interruptModule and close ---------------------------------------------*)
\* close_drivers uses the views of the parts and closes them: a call after
\* them, of the update thread or of a second close, uses freed views.
CloseDrivers ==
    /\ drivers' = IF drivers = "open" THEN "closed" ELSE "dangling"
    /\ homed' = TRUE
Interrupt ==
    /\ phase = "running" /\ drivers = "open"
    /\ CloseDrivers
    /\ UNCHANGED <<config, phase, awaited, next, wait, elapsed, returnPoint,
                   keepFitting, arrived, unread>>
UpdateInterrupted ==
    /\ phase = "running" /\ awaited = {} /\ drivers = "closed"
    /\ drivers' = "dangling"
    /\ UNCHANGED <<config, phase, awaited, next, wait, elapsed, returnPoint,
                   keepFitting, arrived, unread, homed>>
Close ==
    /\ phase = "ended" \/ (phase = "running" /\ drivers # "open")
    /\ phase' = "closed"
    /\ CloseDrivers
    /\ UNCHANGED <<config, awaited, next, wait, elapsed, returnPoint, keepFitting,
                   arrived, unread>>

Next ==
    \/ OpenFails \/ Configure
    \/ \E connected \in BOOLEAN : WaitForPort(connected)
    \/ \E reads \in BOOLEAN : UpdateStays(reads)
    \/ \E reads \in BOOLEAN : UpdateMoves(reads)
    \/ Arrive \/ Interrupt \/ UpdateInterrupted \/ Close

Spec == Init /\ [][Next]_gridVars
\* The module is run, the awaited ports are connected, the robot arrives.
Fairness ==
    /\ WF_gridVars(Configure)
    /\ WF_gridVars(WaitForPort(TRUE))
    /\ WF_gridVars(UpdateStays(TRUE) /\ (arrived \/ wait = Forever))
    /\ WF_gridVars(UpdateMoves(TRUE))
    /\ WF_gridVars(Arrive)
FairSpec == Spec /\ Fairness

(* Properties ------------------------------------------------------------*)
TypeOK ==
    /\ phase \in {"configuring", "running", "ended", "closed"}
    /\ awaited \subseteq Ports
    /\ next \in 1 .. Len(Positions(config)) + 1
    /\ wait \in {0, StaticPeriod, ReturnPeriod, Forever}
    /\ elapsed \in 0 .. wait
    /\ {returnPoint, keepFitting, arrived, unread, homed} \subseteq BOOLEAN
    /\ drivers \in {"none", "open", "closed", "dangling"}

\* While the fitting program is told to go on using the positions, only the
\* joint that moves along the present row moves, and the other stays still.
FittingAlongARow ==
    LET list == Positions(config)
        move(i) == [j \in 1 .. 2 |-> list[i].pos[j] - list[i - 1].pos[j]]
    IN  Mapping(config) /\ keepFitting /\ next \in 2 .. Len(list)
          => \E still \in 1 .. 2 :
                /\ move(next)[still] = 0
                /\ list[next - 1].boundary = "in" => move(next - 1)[still] = 0

\* A return point, from which drift is measured, is always the centre.
ReturnsToTheCentre ==
    returnPoint => Positions(config)[next - 1].pos = Center

\* No row lies further out of the range of a joint than part of one step.
RowsWithinAStep ==
    LET list == Positions(config)
    IN  Mapping(config) => \A i \in DOMAIN list, j \in 1 .. 2 :
            /\ list[i].pos[j] < config.half[j] + config.delta[j]
            /\ list[i].pos[j] > -config.half[j] - config.delta[j]

\* The time at a position runs only once the robot has arrived there, unless
\* a read of its motion has failed: none is left while on the way to it.
WaitsOnlyAtRest == elapsed > 0 => arrived \/ unread

\* Every position of the grid is visited: the mapping ends, unless it is
\* interrupted or its first waiting time, never initialised, holds it up.
VisitsAll ==
    (phase = "running" /\ drivers = "open" /\ wait # Forever)
       ~> (drivers # "open" \/ (phase = "ended" /\ (Mapping(config) => next = Len(Positions(config)) + 1)))
====
