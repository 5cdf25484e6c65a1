------------------------------- MODULE MCDevices -------------------------------
\* Devices for TLC: the values of the constants, and one initial state of the components that
\* are not those of the behaviour.
EXTENDS Devices

OfLink == [x \in {"hand", "elbow", "foot", "sole"} |-> IF x \in {"hand", "elbow"} THEN "arm" ELSE "leg"]
SettingsOrder == <<"kinematicSource", "x", "y", "z">>

Four == {"arm", "hand", "leg", "foot"}
Subtree(L, d) == [links |-> L, default |-> d]
TreesOf(A, t, n) == [aliases |-> A, trees |-> t, minTaxel |-> n]
FewTrees ==
  {TreesOf({"arm", "hand", "foot"},
           <<Subtree({"arm", "hand"}, "hand"), Subtree({"leg", "foot"}, "foot")>>, n) : n \in {0, 1}} \cup
  {TreesOf({"arm", "hand", "leg"}, <<Subtree({"arm", "leg"}, "leg"), Subtree({"hand"}, "hand")>>, 0),
   TreesOf({"arm", "foot"}, <<Subtree({"arm"}, "arm"), Subtree({"arm", "foot", "leg"}, "foot")>>, 0),
   TreesOf({"hand"}, <<Subtree({"hand", "arm"}, "hand"), Subtree({"leg", "foot"}, "foot")>>, 0),
   TreesOf({"hand", "leg"}, <<Subtree({"hand"}, "arm"), Subtree({"leg"}, "leg")>>, 0)}

MCMissing == {<<"useIMUAsKinematicSource">>}
MCNamesOf == [arm |-> <<"shoulder", "elbow">>, leg |-> <<"hip", "elbow">>]
MCAxesLists == {<<"shoulder", "elbow">>, <<"elbow", "shoulder", "hip">>, <<"shoulder", "shoulder">>}
MCUnits == [n \in 0..2 |-> <<9, 3, 1>>[n + 1]]

MCInit ==
  /\ which \in components
  /\ \/ which = "est"
     \/ which # "est"
        /\ est_config = [fixed |-> "root", wrong |-> 1]
        /\ est_settings = [source |-> "imu", frame |-> "no frame", velocity |-> FALSE, acceleration |-> FALSE]
  /\ \/ which = "contact"
     \/ which # "contact"
        /\ contact_frames = <<>>
  /\ \/ which = "edit"
     \/ which # "edit"
        /\ edit_local = [p \in E!AllPieces |-> 0]
  /\ \/ which = "base"
     \/ which # "base"
        /\ base_settings = F!Unset
  /\ \/ which = "analog"
     \/ which # "analog"
        /\ analog_axes = <<"shoulder", "elbow">>
  /\ \/ which = "tree"
     \/ which # "tree"
        /\ tree_config = [group |-> "absent", link |-> "none", base |-> FALSE, streams |-> {}, extra |-> FALSE, fixed |-> FALSE, fromOdometry |-> FALSE, wrenchPorts |-> FALSE]
  /\ \/ which = "touch"
     \/ which # "touch"
        /\ touch_config = TreesOf({"hand"}, <<Subtree({"hand", "arm"}, "hand"), Subtree({"leg", "foot"}, "foot")>>, 0)
  /\ AllInit

MCSpec == MCInit /\ [][AllNext]_allVars
================================================================================
