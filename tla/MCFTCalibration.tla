---------------------------- MODULE MCFTCalibration ----------------------------
\* Instances of FTCalibration for TLC: an arm and a leg sensor
EXTENDS FTCalibration, TLC

CONSTANTS arm, leg

TwoSensors == {arm, leg}
AllAndArms == {TwoSensors, {arm}}
AnyCode == AllAndArms \cup {NoCode}
ClientSymmetry == Permutations(Clients)

================================================================================
