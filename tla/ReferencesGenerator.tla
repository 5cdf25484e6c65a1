-------------------------- MODULE ReferencesGenerator --------------------------
(***************************************************************************)
(* torqueBalancingReferencesGenerator: it reads postures and set points of *)
(* the center of mass with the times at which to stream them, or a         *)
(* sinusoid, and streams them to torqueBalancing once per period.          *)
(*                                                                         *)
(* A reference is known by its place in its list, 0 being what was         *)
(* measured when the module started.                                       *)
(***************************************************************************)
EXTENDS Naturals, Sequences

CONSTANTS
  MaxTime,     \* bound: the times of the lists, and the time of a behaviour
  MaxPoints,   \* bound: the references of a list
  Timeout      \* timeoutBeforeStreamingRefs; all are natural numbers

\* a list that is absent, or the times of its elements
Lists == {<<"absent">>} \cup {<<"list", l>> : l \in UNION {[1..n -> 0..MaxTime] : n \in 0..MaxPoints}}
Absent == <<"absent">>
TimesOf(list) == IF list = Absent THEN <<>> ELSE list[2]

VARIABLES
  config,      \* what the configuration file holds
  module,      \* "configuring", "refused", "running" or, reading past a list, "undefined"
  flags,       \* changePostural and changeComWithSetPoints, which no constructor sets
  start,       \* is t0 set?
  time,        \* t - t0
  com, posture,\* what was streamed
  fresh        \* has updateModule run at this time?

generatorVars == <<config, module, flags, start, time, com, posture, fresh>>

Units == {"none", "radians", "degrees", "both"}
Files == [references : BOOLEAN, ports : {"absent", "incomplete", "given"},
          postures : Lists, units : Units,
          sine : {"absent", "incomplete", "given"}, points : Lists]

TypeOK ==
  /\ config \in Files
  /\ module \in {"configuring", "refused", "running", "undefined"}
  /\ flags \in [postural : BOOLEAN, points : BOOLEAN]
  /\ start \in BOOLEAN
  /\ time \in 0..MaxTime + 2
  /\ com \in 0..MaxPoints /\ posture \in 0..MaxPoints
  /\ fresh \in BOOLEAN

\* one of the two lists is enough to see what the units, the ports and the sinusoid do
Init ==
  /\ config \in {c \in Files : /\ c.postures = Absent \/ c.points = Absent
                               /\ c.postures = Absent => c.units = "none"
                               /\ ~c.references => c.postures = Absent /\ c.points = Absent
                               /\ c.ports # "given" => c.sine # "incomplete"}
  /\ module = "configuring"
  /\ flags \in [postural : BOOLEAN, points : BOOLEAN]
  /\ start = FALSE
  /\ time = 0
  /\ com = 0 /\ posture = 0
  /\ fresh = FALSE

--------------------------------------------------------------------------------
(* loadReferences and configure *)

Increasing(times) ==
  \A i \in DOMAIN times : times[i] > 0 /\ (i > 1 => times[i - 1] < times[i])

\* the unit of the postures must be said, and be one
PosturesGood == config.postures # Absent =>
                  config.units \in {"radians", "degrees"} /\ Increasing(TimesOf(config.postures))
\* a sinusoid excludes set points
ComGood ==
  /\ config.sine # "incomplete"
  /\ config.sine = "given" => config.points = Absent
  /\ Increasing(TimesOf(config.points))

(* variant: the sinusoid does not say that there are no set points *)
LoadedSine ==
  IF ~config.references THEN flags
  ELSE [postural |-> config.postures # Absent, points |-> config.points # Absent \/ flags.points]
\* without the group of the references nothing is set; the sinusoid and the set points set their flag
Loaded ==
  IF ~config.references THEN flags
  ELSE [postural |-> config.postures # Absent,
        points |-> IF config.points # Absent THEN TRUE
                   ELSE IF config.sine = "given" THEN FALSE ELSE flags.points]

\* without the group of the ports the module runs with its ports closed and an indeterminate t0
Configure ==
  /\ module = "configuring"
  /\ LET good == (config.references => PosturesGood /\ ComGood) /\ config.ports # "incomplete"
     IN  module' = IF good THEN "running" ELSE "refused"
  /\ flags' = Loaded
  /\ start' = (config.ports = "given")
  /\ time' \in IF start' THEN {0} ELSE 0..MaxTime + 2
  /\ UNCHANGED <<config, com, posture, fresh>>

--------------------------------------------------------------------------------
(* updateModule *)

\* the place of the reference to stream: that of the interval the time is in, the last one when it
\* is past, or the one held. The loop ends before the last element.
(* variants: the last element is forgotten; the interval counts from its end *)
Current(times, t) == {i \in 1..Len(times) - 1 : times[i] < t /\ t <= times[i + 1]}
DueNeverLast(times, held, t) ==
  IF Current(times, t) # {} THEN CHOOSE i \in Current(times, t) : TRUE ELSE 0
DueEarly(times, held, t) ==
  IF Current(times, t) # {} THEN (CHOOSE i \in Current(times, t) : TRUE) + 1 ELSE held
Due(times, held, t) ==
  IF Current(times, t) # {} THEN CHOOSE i \in Current(times, t) : TRUE
  ELSE IF Len(times) > 1 /\ t > times[Len(times)] THEN Len(times)
  ELSE held

\* the size of an empty list less one is a very large number: the loop reads past the list
Stream(t) ==
  LET points == TimesOf(config.points)
      postures == TimesOf(config.postures)
      past == t >= Timeout
      undefined == past /\ ((flags.points /\ points = <<>>) \/ (flags.postural /\ postures = <<>>))
  IN  /\ module' = IF undefined THEN "undefined" ELSE "running"
      /\ com' = IF past /\ flags.points THEN Due(points, com, t) ELSE 0
      /\ posture' = IF past /\ flags.postural THEN Due(postures, 0, t) ELSE IF past THEN posture ELSE 0

UpdateModule ==
  /\ module = "running"
  /\ Stream(time)
  /\ fresh' = TRUE
  /\ UNCHANGED <<config, flags, start, time>>

\* the module may be late
Pass ==
  /\ module = "running"
  /\ \E later \in {1, 2} : time + later <= MaxTime + 2 /\ time' = time + later
  /\ fresh' = FALSE
  /\ UNCHANGED <<config, module, flags, start, com, posture>>

Next == Configure \/ UpdateModule \/ Pass

Spec == Init /\ [][Next]_generatorVars

--------------------------------------------------------------------------------

\* The references are streamed in the order of their list, whatever updates are late; after the
\* last one nothing earlier comes back.
ReferencesInOrder == [][com <= com' /\ posture <= posture']_generatorVars

\* A reference is never streamed before the time it was given, nor before the time the module waits
\* for its ports to be connected (README.md of the module, "Launch procedure").
NeverBeforeItsTime ==
  /\ com > 0 => (start => time > TimesOf(config.points)[com] /\ time >= Timeout)
  /\ posture > 0 => (start => time > TimesOf(config.postures)[posture] /\ time >= Timeout)

\* There is no reference whose time has passed and that neither it nor a later one replaces what
\* is streamed: with at least two references every one is streamed in its own interval, whatever
\* updates were late.
NoReferenceSkipped ==
  fresh /\ start /\ module = "running" /\ time >= Timeout =>
    \A list \in {<<TimesOf(config.points), com>>, <<TimesOf(config.postures), posture>>} :
      Len(list[1]) > 1 => \A i \in DOMAIN list[1] : time > list[1][i] => list[2] >= i

\* With the references given and no list empty, the flags that no constructor sets are never used:
\* nothing is read past a list.
UndefinedOnlyWithout ==
  module = "undefined" =>
    \/ ~config.references
    \/ config.points = Absent /\ config.sine = "absent"
    \/ <<"list", <<>>>> \in {config.points, config.postures}

================================================================================
