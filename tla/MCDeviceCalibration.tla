-------------------------- MODULE MCDeviceCalibration --------------------------
\* Instances of DeviceCalibration for TLC: the base link, a sole, and a frame that the model
\* of the robot does not have
EXTENDS DeviceCalibration

CONSTANTS base_link, l_sole, no_frame

TwoFrames == {base_link, l_sole}
ThreeFrames == TwoFrames \cup {no_frame}

\* nr_of_samples that the clients send, a negative one included
AnyCount == {-1, 0, 2}

================================================================================
