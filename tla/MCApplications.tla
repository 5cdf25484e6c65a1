----------------------------- MODULE MCApplications -----------------------------
\* Applications for TLC: the values of the constants, and one initial state of the components that
\* are not those of the behaviour.
EXTENDS Applications

SortedEstimators == <<"DirectFiltering", "KalmanFilter", "LeggedOdometry", "QuaternionEKF">>
AllEstimators == {"DirectFiltering", "LeggedOdometry", "QuaternionEKF"}
Estimate(listed, groups, board, frames) ==
  [listed |-> listed, groups |-> groups, board |-> board, frames |-> frames, com |-> TRUE,
   rotation |-> TRUE]
EstimatorLists ==
  {Estimate(<<"QuaternionEKF", "LeggedOdometry">>, AllEstimators, b, f) :
     b \in BOOLEAN, f \in {"absent", "good", "unknown"}} \cup
  {Estimate(<<"LeggedOdometry", "DirectFiltering", "QuaternionEKF">>, AllEstimators, TRUE, "good"),
   Estimate(<<"DirectFiltering">>, AllEstimators, FALSE, "good"),
   Estimate(<<"QuaternionEKF">>, AllEstimators, TRUE, "good"),
   Estimate(<<"QuaternionEKF", "LeggedOdometry">>, {"LeggedOdometry"}, TRUE, "good"),
   Estimate(<<"KalmanFilter", "LeggedOdometry">>, AllEstimators, TRUE, "good"),
   [Estimate(<<"LeggedOdometry", "QuaternionEKF">>, AllEstimators, TRUE, "good") EXCEPT !.rotation = FALSE]}
\* of an accelerometer and of a gyroscope of the board, and of another board whose numbers clash
BoardPackages == {<<33, 1, 0, 5, 6, 7>>, <<33, 2, 0, 8, 9, 10>>, <<25, 1, 0, 33, 1, 14>>}


MCInit ==
  /\ which \in components
  /\ \/ which = "traj"
     \/ which # "traj"
        /\ traj_comActive = FALSE
  /\ \/ which = "split"
     \/ which # "split"
        /\ split_ids = {}
  /\ \/ which = "walk"
     \/ which # "walk"
        /\ walk_options = [file |-> 0, again |-> 0, rows |-> 0, home |-> FALSE]
        /\ walk_modes = [p \in {"left", "right", "torso"} |-> "position"]
  /\ \/ which = "bal"
     \/ which # "bal"
        /\ bal_plan = [fails |-> 0, pids |-> FALSE, feet |-> {}]
  /\ \/ which = "refs"
     \/ which # "refs"
        /\ refs_config = [references |-> FALSE, ports |-> "absent", postures |-> <<"absent">>, units |-> "none", sine |-> "absent", points |-> <<"absent">>]
        /\ refs_flags = [postural |-> FALSE, points |-> FALSE]
  /\ \/ which = "grid"
     \/ which # "grid"
        /\ grid_config = [mode |-> "other", half |-> <<2, 2>>, delta |-> <<2, 2>>, two |-> FALSE, ports |-> {}]
        /\ grid_wait = 0
        /\ grid_keepFitting = FALSE
  /\ \/ which = "estim"
     \/ which # "estim"
        /\ estim_config = Estimate(<<"DirectFiltering">>, AllEstimators, FALSE, "good")
  /\ AllInit

MCSpec == MCInit /\ [][AllNext]_allVars
================================================================================
