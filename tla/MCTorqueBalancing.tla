--------------------------- MODULE MCTorqueBalancing ---------------------------
(* Model checking of TorqueBalancing: the two tasks of the code, one or two   *)
(* callers, and a bounded number of sessions.                                 *)
EXTENDS TorqueBalancing, TLC

================================================================================
