--------------------------- MODULE WholeBodyEstimator ---------------------------
(***************************************************************************)
(* wholeBodyEstimator: a periodic thread that runs the estimators named in *)
(* the configuration.  They are made from their names, initialised one     *)
(* after another, run one after another in every run, and released when    *)
(* the module closes.  DirectFiltering and QuaternionEKF read, in a run,   *)
(* the measures of a board of the foot and wait for them.                  *)
(***************************************************************************)
EXTENDS Naturals, FiniteSetsExt, SequencesExt

CONSTANTS
  Alphabet,    \* the names, known ones and others, in their order, which is the alphabetical one
  Configs,     \* see Config
  Packages,    \* what boards send: sequences of six numbers
  Board,       \* MTB_RIGHT_FOOT_ACC_PLUS_GYRO_2_ID
  MaxPackages, \* bound: in a message
  MaxMessages  \* bound: the messages followed; later ones are read, empty, and forgotten

Filters == {"DirectFiltering", "QuaternionEKF"}
Known == Filters \cup {"LeggedOdometry"}
Names == Range(Alphabet)
Acc == 1
Gyro == 2

\* The names listed; the groups of parameters; whether there is a port of the board; the frames to
\* stream, if the center of mass is streamed and if the filter has its rotation
Config(c) ==
  /\ c.listed \in Seq(Names) /\ c.groups \subseteq Names /\ c.board \in BOOLEAN
  /\ c.frames \in {"absent", "good", "unknown"} /\ c.com \in BOOLEAN /\ c.rotation \in BOOLEAN

VARIABLES
  config,
  phase,    \* "created", "starting", "refused", "crashed", "running", "stopping" or "closed"
  at,       \* the estimator whose turn it is: 0 between two runs
  open,     \* open ports: an estimator and a name
  mailbox,  \* a message, not yet read, for each filter
  read,     \* messages each filter has read
  measure   \* m_measurements: for each filter the numbers, and how often they were converted

estimatorVars == <<config, phase, at, open, mailbox, read, measure>>

Messages == UNION {[1 .. n -> Packages] : n \in 0 .. MaxPackages}
Zero == [raw |-> <<0, 0, 0>>, times |-> 0]

Init ==
  /\ config \in {c \in Configs : Config(c)}
  /\ phase = "created" /\ at = 0 /\ open = {}
  /\ mailbox = [f \in Filters |-> <<>>]
  /\ read = [f \in Filters |-> <<>>]
  /\ measure = [f \in Filters |-> [k \in {Acc, Gyro} |-> Zero]]

--------------------------------------------------------------------------------
(* start *)

\* fillEstimatorsMap and fillEstimatorsList: a map, read in the order of its keys
(* variant: the order in which the names are listed *)
KeysAsListed == config.listed
Keys == Alphabet
Estimators == Range(config.listed)
\* the first estimator from a place on, or the end of the list
From(i) == Min({j \in i .. Len(Keys) + 1 : j \in DOMAIN Keys => Keys[j] \in Estimators})

StartThread ==
  /\ phase = "created"
  /\ phase' = "starting" /\ at' = From(1)
  /\ UNCHANGED <<config, open, mailbox, read, measure>>

Sensor(f) == {<<f, "rightFootMTBreader">>}
OdometryPort == <<"LeggedOdometry", "floatingbasestate">>
Outputs(e) ==
  {e} \X (CASE e = "DirectFiltering" -> {"orientationEuler", "tiltEuler"}
            [] e = "QuaternionEKF" -> {"filteredOrientation", "filteredOrientationEuler",
                                       "rawAccMeas", "rawGyroMeas", "floatingBaseRotationMatrix"}
            [] e = "LeggedOdometry" ->
                 {"floatingbasestate"} \cup (IF config.com THEN {"com"} ELSE {})
                   \cup (IF config.frames = "absent" THEN {} ELSE {"frames"}))

\* init of an estimator: how it ends, and the ports it has opened by then.  A port to read from
\* stays open when its connection fails.
Ends(how, ports) == [how |-> how, ports |-> ports]
InitOdometry ==
  IF "LeggedOdometry" \in config.groups /\ config.frames # "unknown"
  THEN Ends("done", Outputs("LeggedOdometry"))
  ELSE Ends("refused", {})
InitDirect ==
  IF "DirectFiltering" \in config.groups /\ config.board
  THEN Ends("done", Sensor("DirectFiltering") \cup Outputs("DirectFiltering"))
  ELSE Ends("refused", Sensor("DirectFiltering"))
InitFilter ==
  LET f == "QuaternionEKF"
      ports == Outputs(f) \cup Sensor(f)
  IN  CASE f \notin config.groups -> Ends("refused", {})
        [] f \in config.groups /\ ~config.rotation -> Ends("crashed", {})
        [] f \in config.groups /\ config.rotation ->
             IF ~config.board THEN Ends("refused", ports)
             ELSE Ends(IF OdometryPort \in open THEN "done" ELSE "refused",
                       ports \cup {<<f, "floatingBasePose">>})

\* EstimatorsFactory makes nothing of a name it does not know, and init is called on that nothing.
Initialised(e) ==
  CASE e = "DirectFiltering" -> InitDirect
    [] e = "LeggedOdometry" -> InitOdometry
    [] e = "QuaternionEKF" -> InitFilter
    [] e \notin Known -> Ends("crashed", {})

InitEstimator ==
  /\ phase = "starting" /\ at \in DOMAIN Keys
  /\ LET end == Initialised(Keys[at])
     IN  /\ open' = open \cup end.ports
         /\ phase' = IF end.how = "done" THEN phase ELSE end.how
  /\ at' = From(at + 1)
  /\ UNCHANGED <<config, mailbox, read, measure>>

Started ==
  /\ phase = "starting" /\ at > Len(Keys)
  /\ phase' = "running" /\ at' = 0
  /\ UNCHANGED <<config, open, mailbox, read, measure>>

--------------------------------------------------------------------------------
(* extractMTBDatafromPort *)

PackageSize == 6   \* MTB_PORT_DATA_PACKAGE_OFFSET

\* The message as the port delivers it: two numbers, then the packages.
Numbers(packages) ==
  [i \in 1 .. PackageSize * Len(packages) + 2 |->
     IF i <= 2 THEN 0 ELSE packages[(i + 3) \div PackageSize][((i + 3) % PackageSize) + 1]]

\* The numbers of an accelerometer and of a gyroscope.  The packages of the board are found by its
\* number, wherever it comes first from a position on; what lies after the end is unspecified.
Extracted(m, beyond) ==
  LET number(i) == IF i <= Len(m) THEN m[i] ELSE beyond
      found(i) == {k \in i .. Len(m) : m[k] = Board}
      from[i \in 1 .. Len(m) + PackageSize] ==
        IF found(i) = {} THEN [k \in {Acc, Gyro} |-> <<>>]
        ELSE LET p == Min(found(i))
                 later == from[p + PackageSize]
             IN  [k \in {Acc, Gyro} |->
                    IF later[k] = <<>> /\ number(p + 1) = k
                    THEN <<number(p + 3), number(p + 4), number(p + 5)>> ELSE later[k]]
  IN  from[3]

\* The numbers are converted where they are kept: those that did not come are converted again.
(* variant: the last numbers are converted to begin with *)
ConvertFirst(old, new) ==
  IF new = <<>> THEN [old EXCEPT !.times = @ + 1] ELSE [raw |-> new, times |-> 0]
Convert(old, new) ==
  [raw |-> IF new = <<>> THEN old.raw ELSE new, times |-> IF new = <<>> THEN old.times + 1 ELSE 1]

--------------------------------------------------------------------------------
(* run *)

Followed == Len(read["DirectFiltering"]) + Len(read["QuaternionEKF"])
Sent == Followed + Cardinality({f \in Filters : mailbox[f] # <<>>})

\* the board, to a filter
Message(f) ==
  /\ phase \in {"starting", "running", "stopping"} /\ Sensor(f) \subseteq open
  /\ mailbox[f] = <<>>
  /\ \E m \in IF Sent < MaxMessages THEN Messages ELSE {<<>>} :
       mailbox' = [mailbox EXCEPT ![f] = <<m>>]
  /\ UNCHANGED <<config, phase, at, open, read, measure>>

RunBegins ==
  /\ phase = "running" /\ at = 0 /\ From(1) \in DOMAIN Keys
  /\ at' = From(1)
  /\ UNCHANGED <<config, phase, open, mailbox, read, measure>>

(* variant: the next run follows at once *)
RunNextAgain == at' = IF From(at + 1) > Len(Keys) THEN From(1) ELSE From(at + 1)
RunNext == at' = IF From(at + 1) > Len(Keys) THEN 0 ELSE From(at + 1)
Runs(e) == phase \in {"running", "stopping"} /\ at \in DOMAIN Keys /\ Keys[at] = e

RunOdometry ==
  /\ Runs("LeggedOdometry") /\ RunNext
  /\ UNCHANGED <<config, phase, open, mailbox, read, measure>>

Measures(f, m) ==
  \E beyond \in {0, Acc, Gyro} :
    LET new == Extracted(Numbers(m), beyond)
    IN  measure' = [measure EXCEPT ![f] = [k \in {Acc, Gyro} |-> Convert(@[k], new[k])]]

\* a filter waits for a message in its run
RunFilter(f) ==
  /\ Runs(f) /\ mailbox[f] # <<>>
  /\ IF Followed < MaxMessages
     THEN Measures(f, mailbox[f][1]) /\ read' = [read EXCEPT ![f] = Append(@, mailbox[f][1])]
     ELSE UNCHANGED <<measure, read>>
  /\ mailbox' = [mailbox EXCEPT ![f] = <<>>]
  /\ RunNext
  /\ UNCHANGED <<config, phase, open>>

--------------------------------------------------------------------------------
(* close *)

Stop ==
  /\ phase = "running" /\ phase' = "stopping"
  /\ UNCHANGED <<config, at, open, mailbox, read, measure>>

\* threadRelease, once the run is over: every estimator closes its ports
(* variant: the ports to read from are left open *)
KeptInputs == {p \in open : p[2] \in {"rightFootMTBreader", "floatingBasePose"}}
Kept == {p \in open : p[1] \notin Estimators}
Release ==
  /\ phase = "stopping" /\ at = 0
  /\ phase' = "closed" /\ open' = Kept
  /\ UNCHANGED <<config, at, mailbox, read, measure>>

Thread ==
  \/ InitEstimator \/ Started \/ RunBegins \/ RunOdometry
  \/ (\E f \in Filters : RunFilter(f)) \/ Release

Next == StartThread \/ Thread \/ (\E f \in Filters : Message(f)) \/ Stop

Spec == Init /\ [][Next]_estimatorVars

\* the thread is scheduled, and the board keeps sending
FairSpec ==
  /\ Spec /\ WF_estimatorVars(Thread)
  /\ \A f \in Filters : WF_estimatorVars(Message(f))

--------------------------------------------------------------------------------
(* Properties *)

\* The state has the declared shape: in particular the turn is that of an estimator.
TypeOK ==
  /\ config \in Configs
  /\ phase \in {"created", "starting", "refused", "crashed", "running", "stopping", "closed"}
  /\ at \in 0 .. Len(Keys) + 1
  /\ phase \in {"running", "stopping", "closed"} => at <= Len(Keys)
  /\ at \in DOMAIN Keys => Keys[at] \in Estimators
  /\ \A p \in open : p[1] \in Known
  /\ \A f \in Filters : mailbox[f] = <<>> \/ mailbox[f][1] \in Messages
  /\ Followed <= MaxMessages

\* What the configuration fails to give an estimator
Lacks(e) ==
  \/ e \notin Known \/ e \notin config.groups
  \/ e \in Filters /\ ~config.board
  \/ e = "LeggedOdometry" /\ config.frames = "unknown"
  \/ e = "QuaternionEKF" /\ (~config.rotation \/ "LeggedOdometry" \notin Range(config.listed))

\* Whatever the order in which they are listed, the estimators start when each has what it needs
\* (and the filter, the odometry): the port of the odometry is open before the filter connects to
\* it, as the names are taken in alphabetical order.
StartsInAnyOrder == phase \in {"refused", "crashed"} => \E e \in Range(config.listed) : Lacks(e)

\* A number of a message that is that of the board, and is not in its place; the packages of the
\* board and of a kind; the last one, and how often its numbers have been converted
Clashes(m) == \E i \in DOMAIN m : \E n \in 2 .. PackageSize : m[i][n] = Board
Of(m, k) == {i \in DOMAIN m : m[i][1] = Board /\ m[i][2] = k}
SentBy(messages, k) ==
  LET with == {n \in DOMAIN messages : Of(messages[n], k) # {}}
      last == Max(with)
      p == messages[last][Max(Of(messages[last], k))]
  IN  IF with = {} THEN [raw |-> <<0, 0, 0>>, times |-> Len(messages)]
      ELSE [raw |-> <<p[4], p[5], p[6]>>, times |-> 1 + Len(messages) - last]

\* What a filter uses is what its board last sent - though converted once more for every message
\* since - unless some number of a message is that of the board and is not in its place.
UsesWhatWasSent ==
  \A f \in Filters :
    (\A n \in DOMAIN read[f] : ~Clashes(read[f][n])) =>
      \A k \in {Acc, Gyro} : measure[f][k] = SentBy(read[f], k)

\* No port outlives the module, once it has started.
NoPortIsLeft == phase = "closed" => open = {}

\* The module closes, as long as the board keeps sending: a run waits for it.
CloseEnds == phase = "stopping" ~> phase = "closed"
================================================================================
