------------------------- MODULE MCJointTorqueControl --------------------------
\* Instances of JointTorqueControl for TLC: a board of two joints
EXTENDS JointTorqueControl

TwoJoints == {1, 2}

\* the second joint is moved by the motors of both
SecondMixed == [j \in TwoJoints |-> 1..j]

\* one joint to each mode, and the two joints apart
AFewRequests == {[j \in {1} |-> m] : m \in {"torque", "position"}}
                \cup {[j \in {1, 2} |-> IF j = 1 THEN "position" ELSE "torque"]}

================================================================================
