---------------------------- MODULE BalancingSwitch ----------------------------
(***************************************************************************)
(* What the torqueBalancing controller promises about the robot: torques   *)
(* are computed and written in an episode that begins and ends while the   *)
(* robot is in torque control.  The only way torque control ends during an *)
(* episode is that the episode itself finds the robot failing.             *)
(***************************************************************************)
VARIABLES
  torque,    \* are the robot's joints in torque control?
  computing  \* is a control cycle between its first read and writeTorques?

vars == <<torque, computing>>

Init == torque = FALSE /\ computing = FALSE

\* Somebody starts or stops the controller between two cycles
Start == ~computing /\ ~torque /\ torque' = TRUE /\ UNCHANGED computing
Stop == ~computing /\ torque /\ torque' = FALSE /\ UNCHANGED computing

BeginCycle == torque /\ ~computing /\ computing' = TRUE /\ UNCHANGED torque
EndCycle == computing /\ computing' = FALSE /\ UNCHANGED torque

\* The cycle finds that the robot fails and gives up torque control
Fail == computing /\ torque' = FALSE /\ computing' = FALSE

Next == Start \/ Stop \/ BeginCycle \/ EndCycle \/ Fail

Spec == Init /\ [][Next]_vars

================================================================================
