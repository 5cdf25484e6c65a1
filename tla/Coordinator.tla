------------------------------- MODULE Coordinator -----------------------------
(***************************************************************************)
(* The coordinator of codycoTrajGenDemoY2: it takes references for the     *)
(* torso, the arms, the legs and the center of mass from a port, smooths   *)
(* them, sends the joints in position control to the robot and the others  *)
(* to torqueBalancing, and answers whether a motion is done.               *)
(*                                                                         *)
(* Three threads: the main one (configure, updateModule, close), that of   *)
(* the port of the references (onRead) and that of the RPC port (respond). *)
(* The last two start before configure has prepared what they use.         *)
(*                                                                         *)
(* A reference is known by the number of the message that brought it; 0 is *)
(* the measured position, or zero for the center of mass.  Zeros are sent  *)
(* to torqueBalancing instead of any reference for a torso of which some   *)
(* joints only are in torque control.                                      *)
(***************************************************************************)
EXTENDS Integers, FiniteSets

CONSTANTS
  SplitParts,  \* torso and arms: some of their joints may be in position control
  Torso,       \* the torso, one of them
  Legs,        \* all of their joints are in torque control
  MaxMessages  \* bound: the messages in a behaviour, a natural number

Parts == SplitParts \cup Legs
Zeros == -1

\* how far configure has come, and how far cleanup
Phases == <<"created", "listening", "serving", "connected", "mapped", "generators", "ready">>
Names == {Phases[i] : i \in 1..7} \cup {"closing", "closed"}

VARIABLES
  phase,
  messages,  \* messages received so far
  refs,      \* the references of each part
  position,  \* its joints in position control
  torque,    \* its joints in torque control
  whole,     \* are the three joints of the torso all in torque control?
  posOut,    \* the trajectory sent to the robot
  torqueOut, \* the trajectory sent to torqueBalancing
  com,       \* comReferences
  comActive, \* comTrajGenActive
  comStart,  \* the reference the trajectory of the center of mass started from
  comOut,    \* the trajectory of the center of mass sent to torqueBalancing
  generators,\* the pointers that the constructor leaves indeterminate, or sets to null
  early,     \* did a reference for the center of mass come before configure had returned?
  misuse     \* objects used before they were made, or after

vars == <<phase, messages, refs, position, torque, whole, posOut, torqueOut, com, comActive,
          comStart, comOut, generators, early, misuse>>

Before(p) == {Phases[i] : i \in {k \in 1..7 : \E j \in 1..7 : Phases[j] = p /\ k < j}}

TypeOK ==
  /\ phase \in Names
  /\ messages \in 0..MaxMessages
  /\ refs \in [Parts -> 0..MaxMessages]
  /\ position \in [SplitParts -> 0..MaxMessages]
  /\ torque \in [Parts -> 0..MaxMessages]
  /\ posOut \in [SplitParts -> 0..MaxMessages]
  /\ whole \in BOOLEAN
  /\ torqueOut \in [Parts -> Zeros..MaxMessages]
  /\ com \in 0..MaxMessages /\ comStart \in 0..MaxMessages /\ comOut \in 0..MaxMessages
  /\ comActive \in BOOLEAN /\ early \in BOOLEAN
  /\ generators \in {"indeterminate", "made", "deleted"}
  /\ misuse \in SUBSET {"com references", "com generator", "encoders", "generators"}

\* comTrajGenActive is not initialised either
Init ==
  /\ phase = "created"
  /\ messages = 0
  /\ refs = [p \in Parts |-> 0]
  /\ position = [p \in SplitParts |-> 0]
  /\ torque = [p \in Parts |-> 0]
  /\ whole = FALSE
  /\ posOut = [p \in SplitParts |-> 0]
  /\ torqueOut = [p \in Parts |-> 0]
  /\ com = 0 /\ comStart = 0 /\ comOut = 0
  /\ comActive \in BOOLEAN
  /\ generators = "indeterminate"
  /\ early = FALSE
  /\ misuse = {}

--------------------------------------------------------------------------------
(* configure *)

To(from, to) == phase = from /\ phase' = to

\* the port of the references is open and calls back
Listen ==
  /\ To("created", "listening")
  /\ UNCHANGED <<messages, refs, position, torque, whole, posOut, torqueOut, com, comActive,
                 comStart, comOut, generators, early, misuse>>

\* the output ports are open, and the RPC port serves
Serve ==
  /\ To("listening", "serving")
  /\ comActive' = FALSE
  /\ UNCHANGED <<messages, refs, position, torque, whole, posOut, torqueOut, com, comStart, comOut,
                 generators, early, misuse>>

\* the boards are open and their encoders read: the references are the measures
Connect ==
  /\ To("serving", "connected")
  /\ refs' = [p \in Parts |-> 0]
  /\ torque' = [p \in Parts |-> IF p \in Legs THEN 0 ELSE torque[p]]
  /\ com' = 0
  /\ UNCHANGED <<messages, position, whole, posOut, torqueOut, comActive, comStart, comOut,
                 generators, early, misuse>>

\* the list of joints says which are in torque control
MapJoints ==
  /\ To("connected", "mapped")
  /\ whole' \in BOOLEAN
  /\ UNCHANGED <<messages, refs, position, torque, posOut, torqueOut, com, comActive,
                 comStart, comOut, generators, early, misuse>>

MakeGenerators ==
  /\ To("mapped", "generators")
  /\ generators' = "made"
  /\ UNCHANGED <<messages, refs, position, torque, whole, posOut, torqueOut, com, comActive,
                 comStart, comOut, early, misuse>>

\* copyReferencesForTorqueOutput: "Case not allowed. Setting zero reference for torso"
Copied(references) ==
  [p \in Parts |-> IF p = Torso /\ ~whole THEN Zeros ELSE references[p]]

\* the trajectories start from the references there are now
InitGenerators ==
  /\ To("generators", "ready")
  /\ position' = [p \in SplitParts |-> refs[p]]
  /\ torque' = [p \in Parts |-> refs[p]]
  /\ posOut' = position'
  /\ torqueOut' = Copied(torque')
  /\ comStart' = com
  /\ UNCHANGED <<messages, refs, whole, com, comActive, comOut, generators, early, misuse>>

--------------------------------------------------------------------------------
(* The other threads *)

Listening == phase \notin {"created", "closing", "closed"}
Serving == Listening /\ phase # "listening"

\* Before the boards are connected the vectors of references have no elements, and before the
\* joints are mapped those of the two kinds of joints have none
Named(ps) == IF phase \in Before("connected") THEN {} ELSE ps
Split(ps) == IF phase \in {"mapped", "generators", "ready"} THEN ps \cap SplitParts ELSE {}

\* the first reference for the center of mass is where its trajectory starts
ReadCom(n) ==
  /\ com' = n
  /\ comActive' = TRUE
  /\ comStart' = IF comActive THEN comStart ELSE n
  /\ early' = (early \/ phase # "ready")
  /\ misuse' = misuse
       \cup {x \in {"com references"} : phase \in Before("connected")}
       \cup {x \in {"com generator"} : ~comActive /\ generators # "made"}

\* Wrong variants: the half in torque control is not mapped; parts that a message does not
\* name go to zero; the trajectory of the center of mass is not started
OnReadWith(ps, withCom, newTorque, ReadIt(_)) ==
  /\ Listening
  /\ messages < MaxMessages
  /\ messages' = messages + 1
  /\ refs' = [p \in Parts |-> IF p \in Named(ps) THEN messages' ELSE refs[p]]
  /\ position' = [p \in SplitParts |-> IF p \in Split(ps) THEN messages' ELSE position[p]]
  /\ torque' = newTorque
  /\ IF withCom THEN ReadIt(messages')
     ELSE UNCHANGED <<com, comActive, comStart, early, misuse>>
  /\ UNCHANGED <<phase, whole, posOut, torqueOut, comOut, generators>>
ReadComKeepsStart(n) ==
  com' = n /\ comActive' = TRUE /\ UNCHANGED <<comStart, early, misuse>>
Torque(ps, old) == [p \in Parts |-> IF p \in ps THEN messages + 1 ELSE old[p]]
Mapped(ps) == Split(ps) \cup (Named(ps) \cap Legs)
OnReadForgetsTorque(ps, withCom) == OnReadWith(ps, withCom, Torque(Named(ps) \cap Legs, torque), ReadCom)
OnReadZeroesOthers(ps, withCom) ==
  OnReadWith(ps, withCom, Torque(Mapped(ps), [p \in Parts |-> 0]), ReadCom)
OnReadKeepsStart(ps, withCom) == OnReadWith(ps, withCom, Torque(Mapped(ps), torque), ReadComKeepsStart)
OnRead(ps, withCom) == OnReadWith(ps, withCom, Torque(Mapped(ps), torque), ReadCom)

\* IS_DONE: reads the encoders.  Other commands change nothing
Respond ==
  /\ Serving
  /\ misuse' = misuse \cup {x \in {"encoders"} : phase = "serving"}
  /\ UNCHANGED <<phase, messages, refs, position, torque, whole, posOut, torqueOut, com, comActive,
                 comStart, comOut, generators, early>>

--------------------------------------------------------------------------------
(* updateModule and cleanup *)

\* Wrong variant: the references for torqueBalancing are not copied
UpdateModuleWith(copied) ==
  /\ phase = "ready"
  /\ posOut' = position
  /\ torqueOut' = copied
  /\ comOut' = IF comActive THEN com ELSE comOut
  /\ misuse' = misuse \cup {x \in {"generators"} : generators # "made"}
  /\ UNCHANGED <<phase, messages, refs, position, torque, whole, com, comActive, comStart,
                 generators, early>>
UpdateModuleForgetsCopy == UpdateModuleWith(torqueOut)
UpdateModule == UpdateModuleWith(Copied(torque))

\* close, or configure that finds no port, board, encoder or list of joints: the ports are
\* closed, which waits for what they serve, and then everything is deleted, the pointers that
\* are still indeterminate too.  Wrong variant: the other order
ClosePorts ==
  /\ phase \in {Phases[i] : i \in 2..7} \ {"generators"}
  /\ phase' = "closing"
  /\ UNCHANGED <<messages, refs, position, torque, whole, posOut, torqueOut, com, comActive,
                 comStart, comOut, generators, early, misuse>>
DeleteWhen(phases) ==
  /\ phase \in phases
  /\ phase' = IF phase = "closing" THEN "closed" ELSE phase
  /\ generators # "deleted"
  /\ generators' = "deleted"
  /\ misuse' = misuse \cup {x \in {"generators"} : generators = "indeterminate"}
  /\ UNCHANGED <<messages, refs, position, torque, whole, posOut, torqueOut, com, comActive,
                 comStart, comOut, early>>
DeleteFirst == DeleteWhen({"ready", "closing"})
Delete == DeleteWhen({"closing"})

Configure == Listen \/ Serve \/ Connect \/ MapJoints \/ MakeGenerators \/ InitGenerators
Cleanup == ClosePorts \/ Delete
Next ==
  \/ Configure \/ UpdateModule \/ Respond \/ Cleanup
  \/ \E ps \in SUBSET Parts, withCom \in BOOLEAN : OnRead(ps, withCom)

Spec == Init /\ [][Next]_vars

\* updateModule is called every period; nobody has to send references, or to close the module
FairSpec == Spec /\ WF_vars(UpdateModule)

--------------------------------------------------------------------------------
(* Properties *)

\* Once configure has returned, nothing is used before it was made or after it was deleted, also
\* while the module closes with messages and requests still coming (Coordinator.cpp:811-878)
NoMisuseOnceReady ==
  [][phase = "ready" \/ generators # "indeterminate" => misuse' = misuse]_vars

\* Both halves of a part are of the same message, the last one that named it (268-362)
HalvesAgree ==
  phase = "ready" =>
    /\ \A p \in SplitParts : position[p] = refs[p]
    /\ \A p \in Parts : torque[p] = refs[p]

\* The trajectory of the center of mass starts from a reference that was asked for, unless one
\* came before configure had returned, which restarts it from zero (333-346, 733-750)
ComStartsWhereAsked == phase = "ready" /\ comActive /\ ~early => comStart > 0

\* What is sent never goes back to the references of an earlier message (753-809)
NeverGoesBack ==
  [][phase = "ready" => /\ \A p \in Parts : torqueOut'[p] >= torqueOut[p]
                        /\ \A p \in SplitParts : posOut'[p] >= posOut[p]]_vars

\* A reference of a ready module is followed by the robot and by torqueBalancing, unless another
\* replaces it or the module closes; but a torso only part of which is in torque control stays at
\* zero for torqueBalancing (211-233, 753-809)
Followed(p, n) ==
  /\ p \in SplitParts => posOut[p] = n
  /\ torqueOut[p] = IF p = Torso /\ ~whole THEN Zeros ELSE n
ReferencesAreFollowed ==
  \A p \in Parts : \A n \in 1..MaxMessages :
    phase = "ready" /\ refs[p] = n ~> Followed(p, n) \/ refs[p] # n \/ phase # "ready"

================================================================================
