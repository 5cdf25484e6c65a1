---------------------------- MODULE OffsetSmoothing ----------------------------
(***************************************************************************)
(* How a new offset of a force/torque sensor comes into use in             *)
(* wholeBodyDynamicsTree with the option smooth_calibration (class         *)
(* OffsetSmoother).  A calibration hands over a new offset; from then on   *)
(* every run of the estimation moves the offset in use from the one at     *)
(* that moment towards the new one, in proportion to the time elapsed,     *)
(* until a run finds that the period is over.  The reset command writes    *)
(* the offset in use directly.                                             *)
(*                                                                         *)
(* One sensor and one component of its offset: they do not depend on each  *)
(* other.  Time is counted in ticks; Late is the longest time between two  *)
(* runs.  Offsets are multiples of Units[n] after n calibrations, so that  *)
(* the proportions are integers: each calibration divides once more by     *)
(* Period.                                                                 *)
(***************************************************************************)
EXTENDS Integers

CONSTANTS
  Period,           \* smooth_calibration_period_in_ms, in ticks, positive
  Late,             \* the longest time between two runs, in ticks, positive
  MaxCalibrations,  \* bound on the calibrations
  Units,            \* for each number of calibrations, Period times that of one more
  Offsets           \* the offsets that calibrations find, in Units[0]

VARIABLES
  used,          \* sensor_status.ft_sensors_offset
  old, new,      \* old_offset, new_offset
  elapsed,       \* time since initial_smoothing_time
  smoothing,     \* is_smoothing
  gap,           \* time since the last run
  calibrations,  \* calibrations so far
  reset          \* what the last reset met: nothing since, "idle" or "smoothing"

vars == <<used, old, new, elapsed, smoothing, gap, calibrations, reset>>

Size(x) == IF x < 0 THEN -x ELSE x

Init == /\ used = 0 /\ old = 0 /\ new = 0
        /\ elapsed = 0 /\ smoothing = FALSE
        /\ gap = 0 /\ calibrations = 0 /\ reset = "none"

\* The clock.  elapsed is used only while smoothing.
Tick ==
  /\ gap < Late
  /\ gap' = gap + 1
  /\ elapsed' = IF smoothing THEN elapsed + 1 ELSE elapsed
  /\ UNCHANGED <<used, old, new, smoothing, calibrations, reset>>

\* old + progress * (new - old)
Blend == old + ((new - old) * elapsed) \div Period

\* Wrong variant: the last update starts over from the old offset
UpdateRestarts ==
  IF ~smoothing THEN used ELSE IF elapsed > Period THEN old ELSE Blend

\* updateOffset.  The value assigned when the period is over is assigned
\* again by the proportion, which is then above one.
UpdateOffset == IF smoothing THEN Blend ELSE used

\* Wrong variant: the smoothing goes on as long as the offset is not met exactly
RunUntilMet ==
  /\ used' = UpdateOffset
  /\ smoothing' = (smoothing /\ used' # new)
  /\ gap' = 0
  /\ elapsed' = IF smoothing' /\ elapsed < Period + Late THEN elapsed ELSE 0
  /\ UNCHANGED <<old, new, calibrations, reset>>

\* estimation_run
Run ==
  /\ used' = UpdateOffset
  /\ smoothing' = (smoothing /\ elapsed <= Period)
  /\ gap' = 0
  /\ elapsed' = IF smoothing' THEN elapsed ELSE 0
  /\ UNCHANGED <<old, new, calibrations, reset>>

\* Wrong variant: the smoothing starts from the offset of the last calibration
SetNewOffsetFromLast(offset) ==
  /\ calibrations < MaxCalibrations
  /\ calibrations = 0 \/ gap = 0
  /\ calibrations' = calibrations + 1
  /\ old' = new /\ new' = offset
  /\ elapsed' = 0 /\ smoothing' = TRUE /\ reset' = "none"
  /\ UNCHANGED <<used, gap>>

\* The run that completes a calibration: setNewFTOffset, setNewOffset.  The
\* estimation runs before it, except in the first calibration.
SetNewOffset(offset) ==
  /\ calibrations < MaxCalibrations
  /\ calibrations = 0 \/ gap = 0
  /\ calibrations' = calibrations + 1
  /\ old' = used /\ new' = offset
  /\ elapsed' = 0 /\ smoothing' = TRUE /\ reset' = "none"
  /\ UNCHANGED <<used, gap>>

\* Wrong variant: the reset is taken for a calibration that found zero, without its smoothing
ResetTarget ==
  /\ reset' = IF smoothing THEN "smoothing" ELSE "idle"
  /\ new' = 0
  /\ UNCHANGED <<used, old, elapsed, smoothing, gap, calibrations>>

\* resetOffset, which does not know of the smoothing
ResetOffset ==
  /\ used' = 0
  /\ reset' = IF smoothing THEN "smoothing" ELSE "idle"
  /\ UNCHANGED <<old, new, elapsed, smoothing, gap, calibrations>>

Next ==
  \/ Tick
  \/ Run
  \/ \E o \in Offsets : SetNewOffset(o * Units[0])
  \/ ResetOffset

Spec == Init /\ [][Next]_vars
FairSpec == Spec /\ WF_vars(Tick) /\ WF_vars(gap = Late /\ Run)

--------------------------------------------------------------------------------
(* Properties *)

\* The state has the declared shape; a smoothing is never older than its
\* period and one late run.
TypeOK ==
  /\ {used, old, new} \subseteq Int
  /\ elapsed \in 0 .. Period + Late
  /\ smoothing \in BOOLEAN
  /\ gap \in 0 .. Late
  /\ calibrations \in 0 .. MaxCalibrations
  /\ reset \in {"none", "idle", "smoothing"}

\* The offset that stays in use after a calibration misses the one found by
\* no more than the part of the change that a late run adds (the proportion
\* of updateOffset exceeds one in the run that ends the smoothing).
MissesByALateRun ==
  calibrations > 0 /\ ~smoothing /\ reset = "none" =>
    Period * Size(used - new) <= Late * Size(new - old)

\* A reset that no smoothing was under way for lasts until the next
\* calibration; one that met a smoothing is undone by the next run.
ResetLasts == reset = "idle" => used = 0

\* What the option is for: a run moves the offset in use by no more than the
\* share of the change for the time since the last run, unless a reset came
\* in between, and the end of a calibration does not move it.
MovesGradually ==
  [][used' # used /\ reset = "none" /\ reset' = "none" =>
       Period * Size(used' - used) <= gap * Size(new - old)]_vars

\* A smoothing ends, by itself or because the offset is calibrated anew.
SmoothingEnds == []<>(~smoothing)
================================================================================
