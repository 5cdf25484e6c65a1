SPECIFICATION MCSpec
CONSTANTS
  traj_SplitParts = {"torso", "arm"}
  traj_Torso = "torso"
  traj_Legs = {"leg"}
  traj_MaxMessages = 2
  split_N = 7
  walk_Steps = 2
  walk_MaxCommands = 3
  bal_Feet = {"left", "right"}
  bal_Threshold = 1
  bal_FullWeight = 2
  bal_MaxCommands = 3
  refs_MaxTime = 3
  refs_MaxPoints = 2
  refs_Timeout = 2
  grid_Halves = {2, 3}
  grid_Deltas = {2}
  grid_StaticPeriod = 1
  grid_ReturnPeriod = 2
  grid_Forever = 99
  estim_Alphabet <- SortedEstimators
  estim_Configs <- EstimatorLists
  estim_Packages <- BoardPackages
  estim_Board = 33
  estim_MaxPackages = 2
  estim_MaxMessages = 2
INVARIANTS
  GraspIsSafe BalancingIsSafe  MeasuresAreUsable
PROPERTIES
  NothingOutOfTurn ApplicationsComplete
CHECK_DEADLOCK FALSE
