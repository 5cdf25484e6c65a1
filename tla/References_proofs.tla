--------------------------- MODULE References_proofs ---------------------------
(***************************************************************************)
(* The trajectory coordinator, the split of its joints, the walking        *)
(* player and the references generator send together what belongs together, in *)
(* its order, for messages, files and lists of any length.                 *)
(*                                                                         *)
(* There is no induction over lists: where a list is scanned, the loop is  *)
(* an action and its invariant says what has been passed; where an         *)
(* order is needed, the first place at which it fails is looked at         *)
(* (LeastNatural).                                                         *)
(***************************************************************************)
EXTENDS Applications_proofs

--------------------------------------------------------------------------------
(* Coordinator *)

\* The phases of the coordinator, in the order of configure.
LEMMA CoordinatorPhases ==
  /\ T!Phases[1] = "created" /\ T!Phases[2] = "listening" /\ T!Phases[3] = "serving"
  /\ T!Phases[4] = "connected" /\ T!Phases[5] = "mapped" /\ T!Phases[6] = "generators"
  /\ T!Phases[7] = "ready"
BY DEF T!Phases

\* The parts that a message names, splits and maps, once configure has returned.
LEMMA CoordinatorNames ==
  /\ T!Names = {"created", "listening", "serving", "connected", "mapped", "generators", "ready",
              "closing", "closed"}
  /\ T!Before("connected") = {"created", "listening", "serving"}
<1>1. 1..7 = {1, 2, 3, 4, 5, 6, 7}
  OBVIOUS
<1>2. T!Names = {"created", "listening", "serving", "connected", "mapped", "generators", "ready",
              "closing", "closed"}
  BY <1>1, CoordinatorPhases DEF T!Names
<1>3. \A j \in 1..7 : T!Phases[j] = "connected" <=> j = 4
  BY <1>1, CoordinatorPhases
<1>4. {k \in 1..7 : \E j \in 1..7 : T!Phases[j] = "connected" /\ k < j} = {1, 2, 3}
  BY <1>1, <1>3
<1>5. T!Before("connected") = {T!Phases[i] : i \in {1, 2, 3}}
  BY <1>4 DEF T!Before
<1>6. QED
  BY <1>2, <1>5, CoordinatorPhases

\* The generators are made by the last steps of configure, and deleted by close only.
GeneratorsOfPhase ==
  /\ traj_phase \in {"created", "listening", "serving", "connected", "mapped"} =>
       traj_generators = "indeterminate"
  /\ traj_phase \in {"generators", "ready"} => traj_generators = "made"

\* What a ready coordinator sends is not newer than what it has received.
SentWasReceived ==
  traj_phase = "ready" => /\ \A p \in T!Parts : traj_torqueOut[p] <= traj_torque[p]
                          /\ \A p \in traj_SplitParts : traj_posOut[p] <= traj_position[p]

\* Between the RPC port and the end of configure only an early reference starts the center of mass.
InactiveUnlessEarly ==
  traj_phase \in {"serving", "connected", "mapped", "generators"} /\ ~traj_early => ~traj_comActive

CoordinatorKept ==
  /\ T!TypeOK /\ GeneratorsOfPhase /\ SentWasReceived /\ InactiveUnlessEarly
  /\ \A p \in T!Parts : traj_refs[p] <= traj_messages
  /\ T!HalvesAgree /\ T!ComStartsWhereAsked

\* What is copied for torqueBalancing is a reference or zero, and no newer than the reference.
LEMMA CoordinatorCopies ==
  ASSUME NEW references \in [T!Parts -> 0..traj_MaxMessages]
  PROVE  /\ T!Copied(references) \in [T!Parts -> T!Zeros..traj_MaxMessages]
         /\ \A p \in T!Parts : T!Copied(references)[p] <= references[p]
<1>1. 0..traj_MaxMessages \subseteq Nat /\ T!Zeros \in Int /\ T!Zeros \in T!Zeros..traj_MaxMessages
      /\ \A n \in 0..traj_MaxMessages : n \in T!Zeros..traj_MaxMessages /\ T!Zeros <= n /\ n <= n
  BY CoordinatorAssumption DEF T!Zeros
<1> QED
  BY <1>1 DEF T!Copied

\* Everything starts from zero.
LEMMA CoordinatorInit == T!Init => CoordinatorKept
<1> SUFFICES ASSUME T!Init PROVE CoordinatorKept
  OBVIOUS
<1>1. 0 \in 0..traj_MaxMessages /\ 0 \in T!Zeros..traj_MaxMessages
  BY CoordinatorAssumption DEF T!Zeros
<1>2. T!TypeOK
  BY <1>1, CoordinatorNames DEF T!Init, T!TypeOK
<1>3. \A p \in T!Parts : traj_refs[p] <= traj_messages
  <2>1. traj_refs = [p \in T!Parts |-> 0] /\ traj_messages = 0
    BY DEF T!Init
  <2>2. QED
    BY <2>1
<1>4. GeneratorsOfPhase /\ SentWasReceived /\ InactiveUnlessEarly /\ T!HalvesAgree
    /\ T!ComStartsWhereAsked
  BY DEF T!Init, GeneratorsOfPhase, SentWasReceived, InactiveUnlessEarly, T!HalvesAgree,
     T!ComStartsWhereAsked
<1>5. QED
  BY <1>2, <1>3, <1>4 DEF CoordinatorKept

\* Messages are counted in naturals.
LEMMA CoordinatorNumbers ==
  ASSUME CoordinatorKept
  PROVE  /\ traj_messages \in Nat
         /\ \A p \in T!Parts : traj_refs[p] \in Nat /\ traj_torque[p] \in Nat
            /\ traj_torqueOut[p] \in Int
         /\ \A p \in traj_SplitParts : traj_position[p] \in Nat /\ traj_posOut[p] \in Nat
<1>1. 0..traj_MaxMessages \subseteq Nat /\ T!Zeros..traj_MaxMessages \subseteq Int
  BY CoordinatorAssumption
<1>2. traj_messages \in 0..traj_MaxMessages /\ traj_refs \in [T!Parts -> 0..traj_MaxMessages]
  BY DEF CoordinatorKept, T!TypeOK
<1>3. traj_torque \in [T!Parts -> 0..traj_MaxMessages]
    /\ traj_torqueOut \in [T!Parts -> T!Zeros..traj_MaxMessages]
  BY DEF CoordinatorKept, T!TypeOK
<1>4. traj_position \in [traj_SplitParts -> 0..traj_MaxMessages]
    /\ traj_posOut \in [traj_SplitParts -> 0..traj_MaxMessages]
  BY DEF CoordinatorKept, T!TypeOK
<1>5. QED
  BY <1>1, <1>2, <1>3, <1>4

\* A message brings the same number to both halves of the parts that it names.
LEMMA CoordinatorRead ==
  ASSUME CoordinatorKept, NEW ps \in SUBSET T!Parts, NEW withCom \in BOOLEAN, T!OnRead(ps, withCom)
  PROVE  CoordinatorKept'
<1>1. /\ T!Listening /\ traj_messages < traj_MaxMessages /\ traj_messages' = traj_messages + 1
      /\ traj_refs' = [p \in T!Parts |-> IF p \in T!Named(ps) THEN traj_messages' ELSE traj_refs[p]]
      /\ traj_position' =
           [p \in traj_SplitParts |-> IF p \in T!Split(ps) THEN traj_messages' ELSE traj_position[p]]
      /\ traj_torque' =
           [p \in T!Parts |-> IF p \in T!Mapped(ps) THEN traj_messages + 1 ELSE traj_torque[p]]
      /\ IF withCom THEN T!ReadCom(traj_messages') ELSE UNCHANGED <<traj_com, traj_comActive,
                                                                    traj_comStart, traj_early, traj_misuse>>
      /\ UNCHANGED <<traj_phase, traj_whole, traj_posOut, traj_torqueOut, traj_comOut,
                     traj_generators>>
  BY DEF T!OnRead, T!OnReadWith, T!Torque
<1>2. traj_messages \in 0..traj_MaxMessages /\ traj_messages' \in 0..traj_MaxMessages
  <2>1. traj_messages \in 0..traj_MaxMessages
    BY DEF CoordinatorKept, T!TypeOK
  <2>2. QED
    BY <1>1, <2>1, CoordinatorAssumption
<1>3. /\ traj_refs' \in [T!Parts -> 0..traj_MaxMessages]
      /\ traj_position' \in [traj_SplitParts -> 0..traj_MaxMessages]
      /\ traj_torque' \in [T!Parts -> 0..traj_MaxMessages]
  BY <1>1, <1>2 DEF CoordinatorKept, T!TypeOK
<1>4. /\ traj_com' \in 0..traj_MaxMessages /\ traj_comStart' \in 0..traj_MaxMessages
      /\ traj_comActive' \in BOOLEAN
      /\ traj_early' \in BOOLEAN
      /\ traj_misuse' \in SUBSET {"com references", "com generator", "encoders", "generators"}
  BY <1>1, <1>2 DEF CoordinatorKept, T!TypeOK, T!ReadCom
<1>5. T!TypeOK'
  BY <1>1, <1>2, <1>3, <1>4 DEF CoordinatorKept, T!TypeOK
<1>6. \A p \in T!Parts : traj_refs[p] \in Nat /\ traj_refs[p] <= traj_messages
  BY CoordinatorNumbers DEF CoordinatorKept
<1>7. \A p \in T!Parts : traj_refs'[p] <= traj_messages'
  BY <1>1, <1>2, <1>6
<1>8. T!HalvesAgree'
  <2> SUFFICES ASSUME traj_phase = "ready"
               PROVE  /\ \A p \in traj_SplitParts : traj_position'[p] = traj_refs'[p]
                      /\ \A p \in T!Parts : traj_torque'[p] = traj_refs'[p]
    BY <1>1 DEF T!HalvesAgree
  <2>1. T!Named(ps) = ps /\ T!Split(ps) = ps \cap traj_SplitParts /\ T!Mapped(ps) = ps
    BY CoordinatorNames DEF T!Named, T!Split, T!Mapped, T!Parts
  <2>2. QED
    BY <1>1, <2>1 DEF CoordinatorKept, T!HalvesAgree, T!Parts
<1>9. SentWasReceived'
  <2> SUFFICES ASSUME traj_phase = "ready"
               PROVE  /\ \A p \in T!Parts : traj_torqueOut[p] <= traj_torque'[p]
                      /\ \A p \in traj_SplitParts : traj_posOut[p] <= traj_position'[p]
    BY <1>1 DEF SentWasReceived
  <2>1. \A p \in T!Parts : traj_torqueOut[p] \in Int /\ traj_torqueOut[p] <= traj_torque[p]
      /\ traj_torque[p] = traj_refs[p]
    BY CoordinatorNumbers DEF CoordinatorKept, SentWasReceived, T!HalvesAgree
  <2>2. \A p \in traj_SplitParts : p \in T!Parts /\ traj_posOut[p] \in Nat
      /\ traj_posOut[p] <= traj_position[p] /\ traj_position[p] = traj_refs[p]
    BY CoordinatorNumbers DEF CoordinatorKept, SentWasReceived, T!HalvesAgree, T!Parts
  <2>3. \A p \in T!Parts : traj_torqueOut[p] <= traj_torque'[p]
    BY <1>1, <1>2, <1>6, <2>1
  <2>4. \A p \in traj_SplitParts : traj_posOut[p] <= traj_position'[p]
    BY <1>1, <1>2, <1>6, <2>2
  <2>5. QED
    BY <2>3, <2>4
<1>10. GeneratorsOfPhase'
  BY <1>1 DEF CoordinatorKept, GeneratorsOfPhase
<1>11. InactiveUnlessEarly'
  BY <1>1 DEF CoordinatorKept, InactiveUnlessEarly, T!ReadCom
<1>12. T!ComStartsWhereAsked'
  <2>1. CASE traj_comActive' = traj_comActive /\ traj_comStart' = traj_comStart
      /\ (~traj_early' => ~traj_early)
    BY <1>1, <2>1 DEF CoordinatorKept, T!ComStartsWhereAsked
  <2>2. CASE traj_comStart' = traj_messages'
    BY <1>1, <1>2, <2>2 DEF T!ComStartsWhereAsked
  <2>3. QED
    BY <1>1, <2>1, <2>2 DEF T!ReadCom, CoordinatorKept, T!TypeOK
<1>13. QED
  BY <1>5, <1>7, <1>8, <1>9, <1>10, <1>11, <1>12 DEF CoordinatorKept

\* configure (477-750): the generators start from what has been received.
LEMMA CoordinatorConfigure ==
  ASSUME CoordinatorKept, T!Configure
  PROVE  CoordinatorKept'
<1> USE DEF CoordinatorKept
<1>1. 0 \in 0..traj_MaxMessages
  BY CoordinatorAssumption
<1>2. CASE T!Listen
  BY <1>2, CoordinatorNames DEF T!Listen, T!To, T!TypeOK, GeneratorsOfPhase, SentWasReceived,
     InactiveUnlessEarly, T!HalvesAgree, T!ComStartsWhereAsked
<1>20. CASE T!MapJoints
  BY <1>20, CoordinatorNames DEF T!MapJoints, T!To, T!TypeOK, GeneratorsOfPhase, SentWasReceived,
     InactiveUnlessEarly, T!HalvesAgree, T!ComStartsWhereAsked
<1>3. CASE T!Serve
  BY <1>3, CoordinatorNames DEF T!Serve, T!To, T!TypeOK, GeneratorsOfPhase, SentWasReceived,
     InactiveUnlessEarly, T!HalvesAgree, T!ComStartsWhereAsked
<1>4. CASE T!Connect
  <2>1. T!TypeOK'
    BY <1>1, <1>4, CoordinatorNames DEF T!Connect, T!To, T!TypeOK
  <2>2. \A p \in T!Parts : traj_refs'[p] <= traj_messages'
    BY <1>4, CoordinatorNumbers DEF T!Connect
  <2>3. QED
    BY <1>4, <2>1, <2>2 DEF T!Connect, T!To, GeneratorsOfPhase, SentWasReceived,
       InactiveUnlessEarly, T!HalvesAgree, T!ComStartsWhereAsked
<1>5. CASE T!MakeGenerators
  BY <1>5, CoordinatorNames DEF T!MakeGenerators, T!To, T!TypeOK, GeneratorsOfPhase,
     SentWasReceived,
     InactiveUnlessEarly, T!HalvesAgree, T!ComStartsWhereAsked
<1>6. CASE T!InitGenerators
  <2>1. \A p \in traj_SplitParts : p \in T!Parts
    BY DEF T!Parts
  <2>a. /\ traj_torque' \in [T!Parts -> 0..traj_MaxMessages]
        /\ traj_torqueOut' = T!Copied(traj_torque')
    BY <1>6 DEF T!InitGenerators, T!TypeOK
  <2>b. /\ traj_torqueOut' \in [T!Parts -> T!Zeros..traj_MaxMessages]
        /\ \A p \in T!Parts : traj_torqueOut'[p] <= traj_torque'[p]
    BY <2>a, CoordinatorCopies
  <2>2. T!TypeOK'
    BY <1>6, <2>1, <2>a, <2>b, CoordinatorNames DEF T!InitGenerators, T!To, T!TypeOK
  <2>3. T!HalvesAgree'
    BY <1>6, <2>1 DEF T!InitGenerators, T!To, T!HalvesAgree
  <2>4. SentWasReceived'
    <3>1. /\ \A p \in traj_SplitParts : traj_posOut'[p] = traj_refs[p]
             /\ traj_position'[p] = traj_refs[p]
      BY <1>6 DEF T!InitGenerators
    <3>2. QED
      BY <2>1, <2>b, <3>1, CoordinatorNumbers DEF SentWasReceived
  <2>5. QED
    BY <1>6, <2>2, <2>3, <2>4 DEF T!InitGenerators, T!To, GeneratorsOfPhase,
       InactiveUnlessEarly, T!ComStartsWhereAsked
<1>7. QED
  BY <1>2, <1>20, <1>3, <1>4, <1>5, <1>6 DEF T!Configure

\* An update sends what was received, but zeros for a torso which is not wholly in torque control
\* (211-233 and 753-809).
LEMMA CoordinatorUpdate ==
  ASSUME CoordinatorKept, T!UpdateModule
  PROVE  CoordinatorKept'
<1>1. /\ traj_phase = "ready" /\ traj_posOut' = traj_position
      /\ traj_torqueOut' = T!Copied(traj_torque)
      /\ traj_comOut' = IF traj_comActive THEN traj_com ELSE traj_comOut
      /\ traj_misuse' = traj_misuse \cup {x \in {"generators"} : traj_generators # "made"}
      /\ UNCHANGED <<traj_phase, traj_messages, traj_refs, traj_position, traj_torque, traj_whole,
                     traj_com, traj_comActive, traj_comStart,
                     traj_generators, traj_early>>
  BY DEF T!UpdateModule, T!UpdateModuleWith
<1>a. traj_torque \in [T!Parts -> 0..traj_MaxMessages]
  BY DEF CoordinatorKept, T!TypeOK
<1>b. /\ traj_torqueOut' \in [T!Parts -> T!Zeros..traj_MaxMessages]
      /\ \A p \in T!Parts : traj_torqueOut'[p] <= traj_torque[p]
  BY <1>1, <1>a, CoordinatorCopies
<1>2. T!TypeOK'
  BY <1>1, <1>b DEF CoordinatorKept, T!TypeOK
<1>3. SentWasReceived'
  BY <1>1, <1>b, CoordinatorNumbers DEF SentWasReceived
<1>4. QED
  BY <1>1, <1>2, <1>3 DEF CoordinatorKept, GeneratorsOfPhase, InactiveUnlessEarly, T!HalvesAgree,
     T!ComStartsWhereAsked

\* The requests and close leave the references alone (811-943).
LEMMA CoordinatorOthers ==
  ASSUME CoordinatorKept, T!Respond \/ T!Cleanup \/ UNCHANGED T!vars
  PROVE  CoordinatorKept'
<1>1. CASE T!Respond
  BY <1>1 DEF T!Respond, CoordinatorKept, T!TypeOK, GeneratorsOfPhase, SentWasReceived,
     InactiveUnlessEarly, T!HalvesAgree, T!ComStartsWhereAsked
<1>2. CASE T!ClosePorts
  BY <1>2, CoordinatorNames DEF T!ClosePorts, CoordinatorKept, T!TypeOK, GeneratorsOfPhase,
     SentWasReceived,
     InactiveUnlessEarly, T!HalvesAgree, T!ComStartsWhereAsked
<1>3. CASE T!Delete
  BY <1>3, CoordinatorNames DEF T!Delete, T!DeleteWhen, CoordinatorKept, T!TypeOK,
     GeneratorsOfPhase, SentWasReceived,
     InactiveUnlessEarly, T!HalvesAgree, T!ComStartsWhereAsked
<1>4. CASE UNCHANGED T!vars
  BY <1>4 DEF T!vars, CoordinatorKept, T!TypeOK, GeneratorsOfPhase, SentWasReceived,
     InactiveUnlessEarly, T!HalvesAgree, T!ComStartsWhereAsked
<1>5. QED
  BY <1>1, <1>2, <1>3, <1>4 DEF T!Cleanup

\* Every step keeps the invariant.
LEMMA CoordinatorNext == CoordinatorKept /\ [T!Next]_(T!vars) => CoordinatorKept'
BY CoordinatorRead, CoordinatorConfigure, CoordinatorUpdate, CoordinatorOthers DEF T!Next

\* The invariant of the coordinator.
LEMMA CoordinatorAlways == T!Spec => []CoordinatorKept
BY CoordinatorInit, CoordinatorNext, PTL DEF T!Spec

\* Once configure has returned nothing is used outside its life (Coordinator.cpp:811-878).
THEOREM NoMisuseOnceReadyHolds == T!Spec => T!NoMisuseOnceReady
<1>1. CoordinatorKept /\ [T!Next]_(T!vars) =>
        [traj_phase = "ready" \/ traj_generators # "indeterminate" => traj_misuse' = traj_misuse]_(T!vars)
  <2> SUFFICES ASSUME CoordinatorKept, T!Next, traj_phase =
        "ready" \/ traj_generators # "indeterminate"
               PROVE  traj_misuse' = traj_misuse
    OBVIOUS
  <2>1. traj_phase \notin {"created", "listening", "serving", "connected", "mapped"}
    BY DEF CoordinatorKept, GeneratorsOfPhase
  <2>2. CASE \E ps \in SUBSET T!Parts, withCom \in BOOLEAN : T!OnRead(ps, withCom)
    <3>1. traj_phase \in {"generators", "ready"}
      BY <2>1, <2>2, CoordinatorNames DEF T!OnRead, T!OnReadWith, T!Listening, CoordinatorKept,
         T!TypeOK
    <3>2. traj_generators = "made" /\ traj_phase \notin T!Before("connected")
      BY <3>1, CoordinatorNames DEF CoordinatorKept, GeneratorsOfPhase
    <3>3. QED
      BY <2>2, <3>2 DEF T!OnRead, T!OnReadWith, T!ReadCom
  <2>3. CASE T!Respond \/ T!Configure
    BY <2>1, <2>3 DEF T!Respond, T!Configure, T!Listen, T!Serve, T!Connect, T!MapJoints,
       T!MakeGenerators,
       T!InitGenerators
  <2>4. CASE T!UpdateModule
    BY <2>4 DEF T!UpdateModule, T!UpdateModuleWith, CoordinatorKept, GeneratorsOfPhase
  <2>5. CASE T!ClosePorts
    BY <2>5 DEF T!ClosePorts
  <2>6. CASE T!Delete
    BY <2>6 DEF T!Delete, T!DeleteWhen
  <2>7. QED
    BY <2>2, <2>3, <2>4, <2>5, <2>6 DEF T!Next, T!Cleanup
<1>2. QED
  BY <1>1, CoordinatorAlways, PTL DEF T!Spec, T!NoMisuseOnceReady

\* A ready coordinator sends zeros for a torso that is not wholly in torque control.
SentWasCopied ==
  traj_phase = "ready" => \A p \in T!Parts : p = traj_Torso /\ ~traj_whole =>
        traj_torqueOut[p] = T!Zeros

\* A ready coordinator has sent nothing but zeros for such a torso (211-233).
LEMMA CoordinatorZeros == T!Spec => []SentWasCopied
<1>1. T!Init => SentWasCopied
  BY DEF T!Init, SentWasCopied
<1>2. CoordinatorKept /\ SentWasCopied /\ [T!Next]_(T!vars) => SentWasCopied'
  <2> SUFFICES ASSUME CoordinatorKept, SentWasCopied, [T!Next]_(T!vars) PROVE SentWasCopied'
    OBVIOUS
  <2>1. CASE UNCHANGED <<traj_phase, traj_whole, traj_torqueOut>>
    BY <2>1 DEF SentWasCopied
  <2>2. CASE traj_phase' # "ready"
    BY <2>2 DEF SentWasCopied
  <2>3. CASE T!InitGenerators \/ T!UpdateModule
    <3>1. (traj_torqueOut' = T!Copied(traj_torque') \/ traj_torqueOut' = T!Copied(traj_torque))
        /\ UNCHANGED traj_whole
      BY <2>3 DEF T!InitGenerators, T!UpdateModule, T!UpdateModuleWith
    <3>2. QED
      BY <3>1 DEF T!Copied, SentWasCopied
  <2>4. QED
    BY <2>1, <2>2, <2>3
    DEF T!Next, T!OnRead, T!OnReadWith, T!Respond, T!Configure, T!Listen, T!Serve, T!Connect,
        T!MapJoints,
        T!MakeGenerators, T!To, T!Cleanup, T!ClosePorts, T!Delete, T!DeleteWhen, T!vars
<1>3. QED
  BY <1>1, <1>2, CoordinatorAlways, PTL DEF T!Spec

\* What is sent never goes back to an older reference, nor from a reference to the zeros of a
\* torso which is not wholly in torque control (211-233, 753-809).
THEOREM NeverGoesBackHolds == T!Spec => T!NeverGoesBack
<1>1. CoordinatorKept /\ SentWasCopied /\ [T!Next]_(T!vars) =>
        [traj_phase = "ready" => /\ \A p \in T!Parts : traj_torqueOut'[p] >= traj_torqueOut[p]
                                 /\ \A p \in traj_SplitParts : traj_posOut'[p] >= traj_posOut[p]]_(T!vars)
  <2> SUFFICES ASSUME CoordinatorKept, SentWasCopied, T!Next, traj_phase = "ready"
               PROVE  /\ \A p \in T!Parts : traj_torqueOut'[p] >= traj_torqueOut[p]
                      /\ \A p \in traj_SplitParts : traj_posOut'[p] >= traj_posOut[p]
    OBVIOUS
  <2>1. /\ \A p \in T!Parts : traj_torqueOut[p] \in Int /\ traj_torque[p] \in Nat
           /\ traj_torqueOut[p] <= traj_torque[p]
        /\ \A p \in traj_SplitParts : traj_posOut[p] \in Nat /\ traj_position[p] \in Nat
           /\ traj_posOut[p] <= traj_position[p]
    BY CoordinatorNumbers DEF CoordinatorKept, SentWasReceived
  <2>2. \/ traj_torqueOut' = traj_torqueOut /\ traj_posOut' = traj_posOut
        \/ traj_torqueOut' = T!Copied(traj_torque) /\ traj_posOut' = traj_position
    BY DEF T!Next, T!OnRead, T!OnReadWith, T!Respond, T!Configure, T!Listen, T!Serve, T!Connect,
       T!MapJoints,
       T!MakeGenerators, T!InitGenerators, T!To, T!UpdateModule, T!UpdateModuleWith, T!Cleanup, T!ClosePorts,
       T!Delete, T!DeleteWhen
  <2>3. ASSUME NEW p \in T!Parts PROVE T!Copied(traj_torque)[p] >= traj_torqueOut[p]
    <3>1. CASE p = traj_Torso /\ ~traj_whole
      BY <2>1, <3>1 DEF SentWasCopied, T!Copied, T!Zeros
    <3>2. CASE ~(p = traj_Torso /\ ~traj_whole)
      BY <2>1, <3>2 DEF T!Copied
    <3>3. QED
      BY <3>1, <3>2
  <2>4. QED
    BY <2>1, <2>2, <2>3
<1>2. QED
  BY <1>1, CoordinatorAlways, CoordinatorZeros, PTL DEF T!Spec, T!NeverGoesBack

\* A behaviour of all the components is one of Coordinator, which takes its steps or none.
LEMMA CoordinatorBehaves == AllSpec => T!Spec
<1>1. AllInit => T!Init
  BY DEF AllInit
<1>2. [AllNext]_allVars => [T!Next]_(T!vars)
  BY DEF AllNext, allVars, trajVars, T!vars, GraspManagerRuns, CoordinatorRuns, JointSplitRuns,
         WalkPlayerRuns, BalancingModuleRuns, ReferencesGeneratorRuns, GridMappingRuns,
         WholeBodyEstimatorRuns
<1>3. QED
  BY <1>1, <1>2, PTL DEF AllSpec, T!Spec

--------------------------------------------------------------------------------
(* JointSplit *)

\* erase of one element: those behind it move one place to the front.
LEMMA RemoveAtShifts ==
  ASSUME NEW S, NEW s \in Seq(S), NEW i \in 1..Len(s)
  PROVE  /\ J!RemoveAt(s, i) \in Seq(S) /\ Len(J!RemoveAt(s, i)) = Len(s) - 1
         /\ \A k \in 1..Len(s) - 1 : J!RemoveAt(s, i)[k] = IF k < i THEN s[k] ELSE s[k + 1]
<1> DEFINE a == SubSeq(s, 1, i - 1)
           b == SubSeq(s, i + 1, Len(s))
<1>1. a \in Seq(S) /\ Len(a) = i - 1 /\ \A k \in 1..i - 1 : a[k] = s[k]
  <2>1. \A k \in 1..i - 1 : s[k] \in S
    OBVIOUS
  <2>2. QED
    BY <2>1
<1>2. b \in Seq(S) /\ Len(b) = Len(s) - i /\ \A k \in 1..Len(s) - i : b[k] = s[k + i]
  <2>1. \A k \in i + 1..Len(s) : s[k] \in S
    OBVIOUS
  <2>2. QED
    BY <2>1
<1>3. J!RemoveAt(s, i) = a \o b
  BY DEF J!RemoveAt
<1> HIDE DEF a, b
<1>4. a \o b \in Seq(S) /\ Len(a \o b) = Len(s) - 1
  <2>1. a \o b \in Seq(S) /\ Len(a \o b) = Len(a) + Len(b)
    BY <1>1, <1>2, ConcatProperties
  <2>2. QED
    BY <1>1, <1>2, <2>1
<1>5. ASSUME NEW k \in 1..Len(s) - 1 PROVE (a \o b)[k] = IF k < i THEN s[k] ELSE s[k + 1]
  <2>1. CASE k < i
    BY <1>1, <1>2, <2>1
  <2>2. CASE ~(k < i)
    <3>1. (a \o b)[k] = b[k - (i - 1)]
      BY <1>1, <1>2, <2>2
    <3>2. k - (i - 1) \in 1..Len(s) - i
      BY <2>2
    <3>3. b[k - (i - 1)] = s[(k - (i - 1)) + i]
      BY <1>2, <3>2
    <3>4. (k - (i - 1)) + i = k + 1
      OBVIOUS
    <3>5. QED
      BY <2>2, <3>1, <3>3, <3>4
  <2>3. QED
    BY <2>1, <2>2
<1>6. QED
  BY <1>3, <1>4, <1>5

\* Nothing that is in position control comes before the iterator, and what comes after it has not been
\* touched, unless the list is clear.
ClearedSoFar == \A i \in 1..Len(split_list) : split_list[i] \notin split_ids
PassedAreKept ==
  J!Isolated => \/ ClearedSoFar
                \/ /\ \A i \in 1..Len(split_list) : i < split_at => split_list[i] \notin split_ids
                   /\ \A i \in 1..Len(split_list) - 1 : split_at <= i =>
                        split_list[i + 1] = split_list[i] + 1

\* The ways of the iterator through the joints of an arm.
Below(n) == \A i \in 1..n : split_list[i] = i - 1
WristPasses ==
  split_ids = J!Wrist =>
    /\ split_N >= 3
    /\ \/ Len(split_list) = split_N /\ Below(split_N) /\ split_at <= split_N - 2
       \/ /\ Len(split_list) = split_N - 1 /\ Below(split_N - 3)
          /\ split_list[split_N - 2] = split_N - 2 /\ split_list[split_N - 1] = split_N - 1
          /\ split_at = split_N - 1
       \/ Len(split_list) = split_N - 2 /\ Below(split_N - 3)
          /\ split_list[split_N - 2] = split_N - 2 /\ split_at <= split_N - 2
       \/ Len(split_list) = split_N - 3 /\ Below(split_N - 3)

SplitKept ==
  /\ J!TypeOK
  /\ \A i \in 1..Len(split_list), k \in 1..Len(split_list) : i < k => split_list[i] < split_list[k]
  /\ \A j \in J!Joints \ split_ids : \E i \in 1..Len(split_list) : split_list[i] = j
  /\ split_mapped => ~J!Here
  /\ PassedAreKept
  /\ WristPasses

\* All the joints are listed, and none has been passed (140-146).
LEMMA SplitInit == J!Init => SplitKept
<1> SUFFICES ASSUME J!Init PROVE SplitKept
  OBVIOUS
<1> USE SplitAssumption
<1>1. split_list \in Seq(J!Joints) /\ Len(split_list) = split_N /\ Below(split_N)
  BY DEF J!Init, J!Joints, Below
<1>2. split_at \in 1..(Len(split_list) + 1)
  BY <1>1 DEF J!Init
<1>3. J!TypeOK
  BY <1>1, <1>2 DEF J!Init, J!TypeOK
<1>4. \A i \in 1..Len(split_list), k \in 1..Len(split_list) : i < k => split_list[i] < split_list[k]
  BY <1>1 DEF Below
<1>5. \A j \in J!Joints \ split_ids : \E i \in 1..Len(split_list) : split_list[i] = j
  <2>1. \A j \in J!Joints : j + 1 \in 1..split_N /\ split_list[j + 1] = j
    BY <1>1 DEF J!Joints, Below
  <2>2. QED
    BY <1>1, <2>1
<1>6. PassedAreKept
  <2>1. CASE split_ids = {}
    BY <2>1 DEF PassedAreKept, ClearedSoFar
  <2>2. CASE split_at = 1
    BY <1>1, <2>2 DEF PassedAreKept, Below
  <2>3. QED
    BY <2>1, <2>2 DEF J!Init
<1>7. WristPasses
  <2>1. SUFFICES ASSUME split_ids = J!Wrist PROVE split_N >= 3 /\ split_at = 1
    BY <1>1 DEF WristPasses
  <2>2. split_N - 3 \in split_ids /\ split_ids \subseteq J!Joints
    BY <2>1 DEF J!Init, J!Wrist
  <2>3. QED
    BY <2>2 DEF J!Joints, J!Init
<1>8. QED
  BY <1>3, <1>4, <1>5, <1>6, <1>7 DEF SplitKept, J!Init

\* A joint that is kept has been passed (179-190).
LEMMA SplitKeep == SplitKept /\ J!Keep => SplitKept'
<1> SUFFICES ASSUME SplitKept, J!Keep PROVE SplitKept'
  OBVIOUS
<1> USE SplitAssumption
<1>1. /\ split_at \in 1..Len(split_list) /\ split_list[split_at] \notin split_ids
      /\ split_at' = split_at + 1
      /\ split_ids' = split_ids /\ split_list' = split_list /\ split_mapped' = split_mapped
      /\ Len(split_list) \in Nat
  BY DEF SplitKept, J!TypeOK, J!Keep, J!KeepTo, J!Here
<1>2. J!TypeOK'
  BY <1>1 DEF SplitKept, J!TypeOK
<1>3. PassedAreKept'
  <2>1. ClearedSoFar' = ClearedSoFar
    BY <1>1 DEF ClearedSoFar
  <2>2. J!Isolated' = J!Isolated
    BY <1>1 DEF J!Isolated
  <2>3. \A i \in 1..Len(split_list) : i < split_at + 1 => i < split_at \/ i = split_at
    BY <1>1
  <2>4. \A i \in 1..Len(split_list) - 1 : split_at + 1 <= i => split_at <= i
    BY <1>1
  <2>5. QED
    BY <1>1, <2>1, <2>2, <2>3, <2>4 DEF SplitKept, PassedAreKept
<1>4. WristPasses'
  <2>1. SUFFICES ASSUME split_ids = J!Wrist PROVE WristPasses'
    BY <1>1 DEF WristPasses, J!Wrist
  <2>2. split_N - 3 \in split_ids /\ split_N - 2 \in split_ids /\ split_N - 1 \in split_ids
      /\ WristPasses
    BY <2>1 DEF J!Wrist, SplitKept
  <2>3. CASE Len(split_list) = split_N /\ Below(split_N) /\ split_at <= split_N - 2
    <3>1. split_at # split_N - 2
      BY <1>1, <2>2, <2>3 DEF Below
    <3>2. QED
      BY <1>1, <2>1, <2>2, <2>3, <3>1 DEF WristPasses, Below
  <2>4. CASE split_list[split_N - 1] = split_N - 1 /\ split_at = split_N - 1
    BY <1>1, <2>2, <2>4
  <2>5. CASE Len(split_list) = split_N - 2 /\ Below(split_N - 3)
      /\ split_list[split_N - 2] = split_N - 2 /\ split_at <= split_N - 2
    <3>1. split_at # split_N - 2
      BY <1>1, <2>2, <2>5
    <3>2. QED
      BY <1>1, <2>1, <2>2, <2>5, <3>1 DEF WristPasses, Below
  <2>6. CASE Len(split_list) = split_N - 3 /\ Below(split_N - 3)
    BY <1>1, <2>1, <2>2, <2>6 DEF WristPasses, Below
  <2>7. QED
    BY <2>1, <2>2, <2>3, <2>4, <2>5, <2>6 DEF WristPasses
<1>5. split_mapped' => ~J!Here'
  BY <1>1 DEF SplitKept, J!Here
<1>6. QED
  BY <1>1, <1>2, <1>3, <1>4, <1>5 DEF SplitKept, J!Joints

\* An erased joint is one of those in position control, and the loop then passes over the next one
\* (147-158).
LEMMA SplitErase == SplitKept /\ J!EraseFound => SplitKept'
<1> SUFFICES ASSUME SplitKept, J!EraseFound PROVE SplitKept'
  OBVIOUS
<1> USE SplitAssumption
<1> DEFINE n == Len(split_list)
<1>1. /\ split_at \in 1..n /\ split_list[split_at] \in split_ids
         /\ split_at' = (IF split_at = n THEN 1 ELSE split_at + 1)
      /\ split_list' = J!RemoveAt(split_list, split_at)
      /\ split_ids' = split_ids /\ split_mapped' = split_mapped /\ split_list \in Seq(J!Joints)
      /\ n \in Nat /\ split_ids \in SUBSET J!Joints
  BY DEF SplitKept, J!TypeOK, J!EraseFound, J!Erase, J!Here
<1>2. /\ split_list' \in Seq(J!Joints) /\ Len(split_list') = n - 1
      /\ \A k \in 1..n - 1 : split_list'[k] =
           IF k < split_at THEN split_list[k] ELSE split_list[k + 1]
  BY <1>1, RemoveAtShifts
<1>3. J!TypeOK'
  <2>1. split_at' \in 1..(Len(split_list') + 1)
    BY <1>1, <1>2
  <2>2. QED
    BY <1>1, <1>2, <2>1 DEF SplitKept, J!TypeOK, J!Joints
<1>4. \A i \in 1..n - 1, k \in 1..n - 1 : i < k => split_list'[i] < split_list'[k]
  <2> SUFFICES ASSUME NEW i \in 1..n - 1, NEW k \in 1..n - 1, i < k PROVE split_list'[i] < split_list'[k]
    OBVIOUS
  <2> DEFINE shifted == IF i < split_at THEN i ELSE i + 1
             K == IF k < split_at THEN k ELSE k + 1
  <2>1. shifted \in 1..n /\ K \in 1..n /\ shifted < K
    BY <1>1
  <2>2. split_list'[i] = split_list[shifted] /\ split_list'[k] = split_list[K]
    BY <1>2
  <2>3. QED
    BY <2>1, <2>2 DEF SplitKept
<1>5. \A j \in J!Joints \ split_ids : \E i \in 1..n - 1 : split_list'[i] = j
  <2> SUFFICES ASSUME NEW j \in J!Joints \ split_ids PROVE \E i \in 1..n - 1 : split_list'[i] = j
    OBVIOUS
  <2>1. PICK i \in 1..n : split_list[i] = j
    BY DEF SplitKept
  <2>2. i # split_at
    BY <1>1, <2>1
  <2>3. CASE i < split_at
    <3>1. i \in 1..n - 1
      BY <1>1, <2>3
    <3>2. QED
      BY <1>2, <2>1, <2>3, <3>1
  <2>4. CASE split_at < i
    <3>1. i - 1 \in 1..n - 1 /\ ~(i - 1 < split_at) /\ (i - 1) + 1 = i
      BY <1>1, <2>4
    <3>2. split_list'[i - 1] = j
      BY <1>2, <2>1, <3>1
    <3>3. QED
      BY <3>1, <3>2
  <2>5. QED
    BY <1>1, <2>2, <2>3, <2>4
<1>6. PassedAreKept'
  <2>1. SUFFICES ASSUME J!Isolated PROVE
                   \/ ClearedSoFar'
                   \/ /\ \A i \in 1..n - 1 : i < split_at' => split_list'[i] \notin split_ids
                      /\ \A i \in 1..n - 2 : split_at' <= i =>
                           split_list'[i + 1] = split_list'[i] + 1
    BY <1>1, <1>2 DEF PassedAreKept, J!Isolated
  <2>2. /\ \A i \in 1..n : i < split_at => split_list[i] \notin split_ids
        /\ \A i \in 1..n - 1 : split_at <= i => split_list[i + 1] = split_list[i] + 1
    BY <1>1, <2>1 DEF SplitKept, PassedAreKept, ClearedSoFar
  <2>3. CASE split_at = n
    <3>1. \A i \in 1..n - 1 : split_list'[i] \notin split_ids
      BY <1>1, <1>2, <2>2, <2>3
    <3>2. QED
      BY <1>1, <1>2, <3>1 DEF ClearedSoFar
  <2>4. CASE split_at # n
    <3>1. split_at' = split_at + 1 /\ split_at \in 1..n - 1
      BY <1>1, <2>4
    <3>2. split_list[split_at + 1] \notin split_ids
      <4>1. split_list[split_at + 1] = split_list[split_at] + 1
        BY <2>2, <3>1
      <4>2. QED
        BY <1>1, <2>1, <4>1 DEF J!Isolated
    <3>3. ASSUME NEW i \in 1..n - 1, i < split_at' PROVE split_list'[i] \notin split_ids
      <4>1. CASE i = split_at
        BY <1>1, <1>2, <3>2, <4>1
      <4>2. CASE i < split_at
        BY <1>1, <1>2, <2>2, <4>2
      <4>3. QED
        BY <1>1, <3>1, <3>3, <4>1, <4>2
    <3>4. ASSUME NEW i \in 1..n - 2, split_at' <= i PROVE split_list'[i + 1] = split_list'[i] + 1
      <4>1. i + 1 \in 1..n - 1 /\ ~(i < split_at) /\ ~(i + 1 < split_at) /\ split_at <= i + 1
          /\ i \in 1..n - 1
        BY <1>1, <3>1, <3>4
      <4>2. split_list'[i + 1] = split_list[(i + 1) + 1] /\ split_list'[i] = split_list[i + 1]
        BY <1>2, <4>1
      <4>3. QED
        BY <2>2, <4>1, <4>2
    <3>5. QED
      BY <3>3, <3>4
  <2>5. QED
    BY <2>3, <2>4
<1>7. WristPasses'
  <2>1. SUFFICES ASSUME split_ids = J!Wrist PROVE WristPasses'
    BY <1>1 DEF WristPasses, J!Wrist
  <2>2. split_ids = {split_N - 3, split_N - 2, split_N - 1} /\ WristPasses /\ split_N >= 3
      /\ split_ids' = J!Wrist'
    BY <1>1, <2>1 DEF J!Wrist, SplitKept, WristPasses
  <2>3. CASE n = split_N /\ Below(split_N) /\ split_at <= split_N - 2
    <3>1. split_at = split_N - 2 /\ split_at' = split_N - 1
      BY <1>1, <2>2, <2>3 DEF Below
    <3>2. Below(split_N - 3)'
      BY <1>2, <2>2, <2>3, <3>1 DEF Below
    <3>3. split_list'[split_N - 2] = split_N - 2 /\ split_list'[split_N - 1] = split_N - 1
      BY <1>2, <2>2, <2>3, <3>1 DEF Below
    <3>4. QED
      BY <1>2, <2>2, <2>3, <3>1, <3>2, <3>3 DEF WristPasses
  <2>4. CASE n = split_N - 1 /\ Below(split_N - 3) /\ split_list[split_N - 2] = split_N - 2
      /\ split_list[split_N - 1] = split_N - 1 /\ split_at = split_N - 1
    <3>1. split_at' = 1
      BY <1>1, <2>4
    <3>2. Below(split_N - 3)' /\ split_list'[split_N - 2] = split_N - 2
      BY <1>2, <2>2, <2>4 DEF Below
    <3>3. QED
      BY <1>2, <2>2, <2>4, <3>1, <3>2 DEF WristPasses
  <2>5. CASE n = split_N - 2 /\ Below(split_N - 3) /\ split_list[split_N - 2] = split_N - 2
      /\ split_at <= split_N - 2
    <3>1. split_at = split_N - 2
      BY <1>1, <2>2, <2>5 DEF Below
    <3>2. Below(split_N - 3)'
      BY <1>2, <2>2, <2>5, <3>1 DEF Below
    <3>3. QED
      BY <1>2, <2>2, <2>5, <3>2 DEF WristPasses
  <2>6. CASE n = split_N - 3 /\ Below(split_N - 3)
    BY <1>1, <2>2, <2>6 DEF Below
  <2>7. QED
    BY <2>1, <2>2, <2>3, <2>4, <2>5, <2>6 DEF WristPasses
<1>8. ~split_mapped'
  BY <1>1 DEF SplitKept, J!Here
<1>9. QED
  BY <1>1, <1>2, <1>3, <1>4, <1>5, <1>6, <1>7, <1>8 DEF SplitKept, J!Joints

\* Every step keeps the invariant.
LEMMA SplitNext == SplitKept /\ [J!Next]_(J!vars) => SplitKept'
<1> SUFFICES ASSUME SplitKept, [J!Next]_(J!vars) PROVE SplitKept'
  OBVIOUS
<1>1. CASE J!MapInput
  BY <1>1 DEF J!MapInput, SplitKept, J!TypeOK, J!Here, PassedAreKept, J!Isolated, ClearedSoFar,
     WristPasses, J!Wrist, Below, J!Joints
<1>2. CASE UNCHANGED J!vars
  BY <1>2 DEF J!vars, SplitKept, J!TypeOK, J!Here, PassedAreKept, J!Isolated, ClearedSoFar,
     WristPasses, J!Wrist, Below, J!Joints
<1>3. QED
  BY <1>1, <1>2, SplitKeep, SplitErase DEF J!Next

\* The invariant of the loop over the joints.
LEMMA SplitAlways == J!Spec => []SplitKept
BY SplitInit, SplitNext, PTL DEF J!Spec

\* The references of the joints in torque control are all mapped, in their order, for any number of
\* joints (Coordinator.cpp:140-190 and 349-362).
THEOREM KeepsTorqueJointsHolds == J!Spec => []J!KeepsTorqueJoints
<1>1. SplitKept => J!KeepsTorqueJoints
  <2> SUFFICES ASSUME SplitKept PROVE J!KeepsTorqueJoints
    OBVIOUS
  <2>1. Len(split_list) \in Nat /\ DOMAIN split_list = 1..Len(split_list)
    BY DEF SplitKept, J!TypeOK
  <2>2. \A j \in J!Joints \ split_ids : j \in J!Range(split_list)
    BY <2>1 DEF SplitKept, J!Range
  <2>3. \A i \in 1..(Len(split_list) - 1) : i \in 1..Len(split_list)
      /\ i + 1 \in 1..Len(split_list) /\ i < i + 1
    BY <2>1
  <2>4. QED
    BY <2>2, <2>3 DEF SplitKept, J!KeepsTorqueJoints
<1>2. QED
  BY <1>1, SplitAlways, PTL

\* The mapping is right if no two neighbours are in position control, or only the last three
\* (Coordinator.cpp:140-190).
THEOREM SplitIsRightHolds == J!Spec => []J!SplitIsRight
<1>1. SplitKept => J!SplitIsRight
  <2> SUFFICES ASSUME SplitKept, split_mapped, J!Isolated \/ split_ids =
        J!Wrist PROVE J!Range(split_list) = J!Joints \ split_ids
    BY DEF J!SplitIsRight
  <2>1. /\ Len(split_list) \in Nat /\ DOMAIN split_list = 1..Len(split_list)
        /\ split_at = Len(split_list) + 1
        /\ \A i \in 1..Len(split_list) : split_list[i] \in J!Joints
    BY DEF SplitKept, J!TypeOK, J!Here
  <2>2. ClearedSoFar
    <3>1. CASE J!Isolated
      <4>1. PassedAreKept
        BY DEF SplitKept
      <4>2. \A i \in 1..Len(split_list) : i < split_at
        BY <2>1
      <4>3. QED
        BY <3>1, <4>1, <4>2 DEF PassedAreKept, ClearedSoFar
    <3>2. CASE split_ids = J!Wrist
      <4>1. split_N >= 3 /\ Len(split_list) = split_N - 3 /\ Below(split_N - 3)
        <5>1. WristPasses
          BY DEF SplitKept
        <5> DEFINE n == Len(split_list)
        <5>2. n \in Nat /\ split_at = n + 1
          BY <2>1
        <5>3. /\ split_N >= 3
              /\ \/ n = split_N /\ split_at <= split_N - 2
                 \/ n = split_N - 1 /\ split_at = split_N - 1
                 \/ n = split_N - 2 /\ split_at <= split_N - 2
                 \/ n = split_N - 3 /\ Below(split_N - 3)
          BY <3>2, <5>1 DEF WristPasses
        <5> HIDE DEF n
        <5>4. n = split_N - 3 /\ Below(split_N - 3)
          BY <5>2, <5>3, SplitAssumption
        <5>5. QED
          BY <5>3, <5>4 DEF n
      <4>2. QED
        BY <3>2, <4>1, SplitAssumption DEF ClearedSoFar, Below, J!Wrist
    <3>3. QED
      BY <3>1, <3>2
  <2>3. QED
    BY <2>1, <2>2 DEF SplitKept, ClearedSoFar, J!Range
<1>2. QED
  BY <1>1, SplitAlways, PTL

\* A behaviour of all the components is one of JointSplit, which takes its steps or none.
LEMMA SplitBehaves == AllSpec => J!Spec
<1>1. AllInit => J!Init
  BY DEF AllInit
<1>2. [AllNext]_allVars => [J!Next]_(J!vars)
  BY DEF AllNext, allVars, splitVars, J!vars, GraspManagerRuns, CoordinatorRuns, JointSplitRuns,
         WalkPlayerRuns, BalancingModuleRuns, ReferencesGeneratorRuns, GridMappingRuns,
         WholeBodyEstimatorRuns
<1>3. QED
  BY <1>1, <1>2, PTL DEF AllSpec, J!Spec

--------------------------------------------------------------------------------
(* WalkPlayer *)

\* The rows that are left when k have been sent.
Left(n, k) == [i \in 1..(n - k) |-> i + k]

\* Sending a row leaves the rows behind it.
LEMMA LeftSteps ==
  ASSUME NEW n \in Nat, NEW k \in Nat
  PROVE  /\ k < n => Left(n, k) # <<>> /\ Head(Left(n, k)) = k + 1
            /\ Tail(Left(n, k)) = Left(n, k + 1)
         /\ k >= n => Left(n, k) = <<>>
<1>1. CASE k < n
  <2> DEFINE s == Left(n, k)
  <2>1. s \in Seq(Nat) /\ Len(s) = n - k
    BY <1>1 DEF Left
  <2>2. s # <<>> /\ Head(s) = k + 1
    BY <1>1, <2>1 DEF Left
  <2>3. Tail(s) = [i \in 1..(n - (k + 1)) |-> s[i + 1]]
    <3> HIDE DEF s
    <3>1. /\ Tail(s) \in Seq(Nat) /\ Len(Tail(s)) = n - (k + 1)
          /\ \A i \in 1..Len(Tail(s)) : Tail(s)[i] = s[i + 1]
      BY <1>1, <2>1, <2>2, HeadTailProperties
    <3>2. \A t \in Seq(Nat) : t = [i \in 1..Len(t) |-> t[i]]
      OBVIOUS
    <3>3. Tail(s) = [i \in 1..Len(Tail(s)) |-> Tail(s)[i]]
      BY <3>1, <3>2, Zenon
    <3>4. QED
      BY <3>1, <3>3, Zenon
  <2>4. \A i \in 1..(n - (k + 1)) : s[i + 1] = i + (k + 1)
    BY <1>1 DEF Left
  <2>5. Tail(s) = Left(n, k + 1)
    BY <2>3, <2>4 DEF Left
  <2>6. QED
    BY <1>1, <2>2, <2>5
<1>2. CASE k >= n
  <2>1. 1..(n - k) = {}
    BY <1>2
  <2>2. QED
    BY <1>2, <2>1 DEF Left
<1>3. QED
  BY <1>1, <1>2

\* A file that has been read is all left to send.
LEMMA NumbersAreLeft ==
  ASSUME NEW n \in Nat
  PROVE  /\ W!Numbers(n) = Left(n, 0)
         /\ W!Numbers(n) \in Seq(1..n) /\ Len(W!Numbers(n)) = n
         /\ \A i \in 1..n : W!Numbers(n)[i] = i
         /\ <<>> \o W!Numbers(n) = W!Numbers(n)
<1>1. W!Numbers(n) \in Seq(1..n) /\ Len(W!Numbers(n)) = n
  BY DEF W!Numbers
<1>2. QED
  BY <1>1 DEF W!Numbers, Left

WalkOptions == [file : 0..walk_Steps, again : 0..walk_Steps, rows : 0..walk_Steps, home : BOOLEAN]
WalkModes == [W!Parts -> {"position", "direct"}]

\* The step sent, in a sequence started once with its files read and not reset.
SentInOrder ==
  /\ walk_phase # "ended"
  /\ walk_actions = IF walk_phase = "ready" THEN W!Numbers(walk_options.file) ELSE <<>>
  /\ walk_sent.step = 0 => /\ walk_current = 0 /\ walk_sent.row = 0 /\ walk_status # "running"
                           /\ walk_stream = IF walk_phase =
                                "ready" THEN W!Numbers(walk_options.rows) ELSE <<>>
  /\ walk_sent.step > 0 => /\ walk_phase = "ready" /\ walk_status # "start"
                           /\ walk_sent.step = walk_current + 1
                           /\ walk_stream = Left(walk_options.rows, walk_sent.step)
                           /\ walk_sent.row =
                                IF walk_sent.step <= walk_options.rows THEN walk_sent.step ELSE 0
  /\ walk_mutex = "thread" => /\ walk_phase = "ready" /\ walk_actions # <<>>
                              /\ walk_status = "start" /\ walk_sent.step = 0 /\ walk_options.home
                              /\ walk_modes = [p \in W!Parts |-> "position"]
  /\ walk_options.home /\ walk_sent.step = 1 => walk_modes = [p \in W!Parts |-> "position"]
  /\ walk_options.home /\ walk_sent.step > 1 => walk_modes = [p \in W!Parts |-> "direct"]

WalkKept ==
  /\ W!TypeOK
  /\ walk_actions = <<>> => walk_current = 0
  /\ walk_mutex = "thread" => walk_actions # <<>>
  /\ W!TorsoMovesAlone
  /\ walk_afresh => SentInOrder

\* Nothing is read or sent before the thread starts.
LEMMA WalkInit == W!Init => WalkKept
<1> SUFFICES ASSUME W!Init PROVE WalkKept
  OBVIOUS
<1> USE WalkAssumption
<1>1. W!TypeOK
  BY DEF W!Init, W!TypeOK
<1>2. QED
  BY <1>1 DEF W!Init, WalkKept, W!TorsoMovesAlone, SentInOrder

\* The types, and what a step does to the sequence.
LEMMA WalkTyped ==
  ASSUME WalkKept, W!Next
  PROVE  W!TypeOK' /\ (walk_actions' = <<>> => walk_current' = 0)
      /\ (walk_mutex' = "thread" => walk_actions' # <<>>) /\ W!TorsoMovesAlone'
<1> USE WalkAssumption
<1> USE DEF WalkKept, W!TypeOK, W!TorsoMovesAlone
<1>a. \A n \in 0..walk_Steps : W!Numbers(n) \in Seq(1..walk_Steps) /\ Len(W!Numbers(n)) = n
  <2>1. SUFFICES ASSUME NEW n \in 0..walk_Steps PROVE W!Numbers(n) \in Seq(1..walk_Steps)
      /\ Len(W!Numbers(n)) = n
    OBVIOUS
  <2>2. QED
    BY NumbersAreLeft DEF W!Numbers
<1>b. \A s \in Seq(1..walk_Steps), t \in Seq(1..walk_Steps) : s \o t \in Seq(1..walk_Steps)
    /\ Len(s \o t) = Len(s) + Len(t)
  OBVIOUS
<1>c. \A s \in Seq(1..walk_Steps) : s # <<>> => Head(s) \in 1..walk_Steps
    /\ Tail(s) \in Seq(1..walk_Steps) /\ Len(s) > 0
  OBVIOUS
<1>d. walk_options.file \in 0..walk_Steps /\ walk_options.rows \in 0..walk_Steps
    /\ walk_options.again \in 0..walk_Steps
  OBVIOUS
<1>e. \A s \in 0..walk_Steps : W!Sends(s) => walk_stream' \in Seq(1..walk_Steps)
    /\ walk_sent' \in [step : 0..walk_Steps, row : 0..walk_Steps]
  <2> SUFFICES ASSUME NEW s \in 0..walk_Steps, W!Sends(s)
               PROVE  walk_stream' \in Seq(1..walk_Steps)
                   /\ walk_sent' \in [step : 0..walk_Steps, row : 0..walk_Steps]
    OBVIOUS
  <2>1. CASE walk_stream = <<>>
    BY <2>1 DEF W!Sends
  <2>2. CASE walk_stream # <<>>
    <3>1. Head(walk_stream) \in 1..walk_Steps /\ Tail(walk_stream) \in Seq(1..walk_Steps)
      BY <2>2, <1>c
    <3>2. walk_sent' = [step |-> s, row |-> Head(walk_stream)] /\ walk_stream' = Tail(walk_stream)
      BY <2>2 DEF W!Sends
    <3>3. QED
      BY <3>1, <3>2
  <2>3. QED
    BY <2>1, <2>2
<1>1. CASE W!StartThread
  BY <1>1 DEF W!StartThread
<1>2. CASE W!OpenFiles
  <2>1. W!Numbers(walk_options.file) \in Seq(1..walk_Steps)
      /\ W!Numbers(walk_options.rows) \in Seq(1..walk_Steps)
    BY <1>a, <1>d
  <2>2. walk_actions' \in Seq(1..walk_Steps) /\ walk_stream' \in Seq(1..walk_Steps)
      /\ Len(walk_actions') >= Len(walk_actions)
    BY <1>2, <1>b, <2>1 DEF W!OpenFiles
  <2>3. /\ walk_phase' = "ready"
        /\ UNCHANGED <<walk_options, walk_status, walk_current, walk_mutex, walk_modes,
                       walk_moving, walk_sent, walk_commands, walk_afresh>>
    BY <1>2 DEF W!OpenFiles
  <2>4. /\ walk_actions # <<>> => walk_actions' # <<>> /\ walk_current' < Len(walk_actions')
        /\ walk_actions' = <<>> => walk_current' = 0
    BY <2>2, <2>3
  <2>5. walk_actions' # <<>> => walk_current' < Len(walk_actions')
    BY <2>2, <2>3
  <2>6. QED
    BY <2>2, <2>3, <2>4, <2>5
<1>3. CASE W!CommandStart
  BY <1>3 DEF W!CommandStart, W!Command
<1>4. CASE W!CommandStop
  BY <1>4 DEF W!CommandStop, W!Command
<1>5. CASE W!CommandReset
  <2>1. walk_commands' \in 0..walk_MaxCommands
    BY <1>5 DEF W!CommandReset, W!Command
  <2>2. (IF walk_options.rows = 0 THEN 0 ELSE walk_options.again) \in 0..walk_Steps
    BY <1>d
  <2>3. walk_actions' \in Seq(1..walk_Steps) /\ walk_stream' \in Seq(1..walk_Steps)
      /\ Len(walk_actions') >= Len(walk_actions)
    <3> DEFINE n == IF walk_options.rows = 0 THEN 0 ELSE walk_options.again
    <3>1. W!Numbers(n) \in Seq(1..walk_Steps) /\ W!Numbers(walk_options.rows) \in Seq(1..walk_Steps)
      BY <1>a, <1>d, <2>2
    <3>2. walk_actions' = walk_actions \o W!Numbers(n)
        /\ walk_stream' = walk_stream \o W!Numbers(walk_options.rows)
      BY <1>5 DEF W!CommandReset
    <3> HIDE DEF n
    <3>3. QED
      BY <1>b, <3>1, <3>2
  <2>5. walk_actions # <<>> => walk_actions' # <<>>
    BY <2>3
  <2>4. QED
    <3>1. /\ walk_phase' = walk_phase /\ walk_options' = walk_options /\ walk_mutex' = walk_mutex
          /\ walk_mutex = "free"
          /\ walk_modes' = walk_modes /\ walk_moving' = walk_moving /\ walk_sent' = walk_sent
          /\ walk_status' = "idle" /\ walk_current' = 0 /\ walk_afresh' = FALSE
      BY <1>5 DEF W!CommandReset, W!Command
    <3>2. walk_actions' # <<>> => walk_current' < Len(walk_actions')
      BY <2>3, <3>1
    <3>3. QED
      BY <2>1, <2>3, <2>5, <3>1, <3>2
<1>6. CASE W!RunStartOutOfBounds
  <2>1. walk_stream' \in Seq(1..walk_Steps)
      /\ walk_sent' \in [step : 0..walk_Steps, row : 0..walk_Steps]
    BY <1>6, <1>e DEF W!RunStartOutOfBounds
  <2>2. QED
    BY <1>6, <2>1 DEF W!RunStartOutOfBounds, W!Tick
<1>7. CASE W!RunStartHome
  BY <1>7 DEF W!RunStartHome, W!RunStartHomeWith, W!Tick
<1>8. CASE W!HomeDone
  <2>1. walk_actions # <<>> => walk_actions[1] \in 1..walk_Steps
    OBVIOUS
  <2>2. walk_sent' \in [step : 0..walk_Steps, row : 0..walk_Steps]
      /\ walk_stream' \in Seq(1..walk_Steps)
    BY <1>8, <1>e, <2>1 DEF W!HomeDone, W!HomeDoneWhen, W!Sends
  <2>3. QED
    BY <1>8, <2>2 DEF W!HomeDone, W!HomeDoneWhen
<1>9. CASE W!RunStart
  <2>1. walk_actions[1] \in 0..walk_Steps
    BY <1>9 DEF W!RunStart
  <2>2. walk_modes' \in [W!Parts -> {"position", "direct"}]
    BY <1>9 DEF W!RunStart, W!Directly
  <2>3. QED
    BY <1>9, <1>e, <2>1, <2>2 DEF W!RunStart, W!Tick
<1>10. CASE W!RunNext
  <2>1. walk_current' \in Nat /\ walk_current' < Len(walk_actions)
      /\ walk_actions[walk_current' + 1] \in 0..walk_Steps
    <3>1. walk_current \in Nat /\ walk_current' = walk_current + 1
        /\ walk_current + 1 < Len(walk_actions)
      BY <1>10 DEF W!RunNext
    <3>2. walk_actions \in Seq(1..walk_Steps) /\ Len(walk_actions) \in Nat
      OBVIOUS
    <3>3. walk_current' + 1 \in 1..Len(walk_actions)
      BY <3>1, <3>2
    <3>4. QED
      BY <3>1, <3>2, <3>3
  <2>2. walk_modes' \in [W!Parts -> {"position", "direct"}]
    BY <1>10 DEF W!RunNext, W!Directly
  <2>3. walk_stream' \in Seq(1..walk_Steps)
      /\ walk_sent' \in [step : 0..walk_Steps, row : 0..walk_Steps]
    BY <1>10, <1>e, <2>1 DEF W!RunNext
  <2>4. /\ walk_phase' = walk_phase /\ walk_options' = walk_options /\ walk_actions' = walk_actions
        /\ walk_status' = walk_status
        /\ walk_mutex' = walk_mutex /\ walk_mutex = "free" /\ walk_moving' = walk_moving
        /\ walk_commands' = walk_commands /\ walk_afresh' = walk_afresh
    BY <1>10 DEF W!RunNext, W!Tick
  <2>5. W!TypeOK' /\ W!TorsoMovesAlone'
    BY <2>1, <2>2, <2>3, <2>4
  <2>6. walk_actions # <<>>
    BY <1>10 DEF W!RunNext
  <2>7. QED
    BY <2>4, <2>5, <2>6
<1>11. CASE W!RunComplete
  BY <1>11 DEF W!RunComplete, W!RunCompleteWith, W!Tick
<1>12. CASE W!RunEmpty
  BY <1>12 DEF W!RunEmpty, W!Tick
<1>13. CASE \E p \in W!Parts : W!MoveDone(p)
  BY <1>13 DEF W!MoveDone
<1>14. QED
  BY <1>1, <1>2, <1>3, <1>4, <1>5, <1>6, <1>7, <1>8, <1>9, <1>10, <1>11, <1>12, <1>13 DEF W!Next,
     W!Run

\* In a sequence that was started once, a run sends the step after the last one, next to its row.
LEMMA WalkOrdered ==
  ASSUME WalkKept, W!Next, walk_afresh'
  PROVE  SentInOrder'
<1> USE WalkAssumption
<1>a. walk_options.file \in Nat /\ walk_options.rows \in Nat /\ walk_current \in Nat
    /\ walk_sent.step \in Nat /\ walk_sent.row \in Nat
  BY DEF WalkKept, W!TypeOK
<1>b. walk_afresh => SentInOrder
  BY DEF WalkKept
<1>c. walk_afresh \in BOOLEAN /\ walk_sent \in [step : 0..walk_Steps, row : 0..walk_Steps]
    /\ walk_modes \in WalkModes
      /\ walk_status \in {"idle", "start", "running"} /\ walk_moving \in SUBSET W!Parts
      /\ walk_mutex \in {"free", "thread", "lost"}
      /\ walk_phase \in {"serving", "started", "ready", "ended"}
  BY DEF WalkKept, W!TypeOK, WalkModes
<1>d. \A n \in Nat : W!Numbers(n) = Left(n, 0) /\ Len(W!Numbers(n)) = n
    /\ <<>> \o W!Numbers(n) = W!Numbers(n)
                     /\ \A i \in 1..n : W!Numbers(n)[i] = i
  BY NumbersAreLeft
<1>e. \A k \in Nat : \A s : walk_stream = Left(walk_options.rows, k) /\ s = k + 1 /\ W!Sends(s) =>
        /\ walk_sent'.step = k + 1
           /\ walk_sent'.row = IF k + 1 <= walk_options.rows THEN k + 1 ELSE 0
        /\ walk_stream' = Left(walk_options.rows, k + 1)
  <2> SUFFICES ASSUME NEW k \in Nat, walk_stream = Left(walk_options.rows, k), W!Sends(k + 1)
               PROVE  /\ walk_sent'.step = k + 1
                         /\ walk_sent'.row = IF k + 1 <= walk_options.rows THEN k + 1 ELSE 0
                      /\ walk_stream' = Left(walk_options.rows, k + 1)
    OBVIOUS
  <2>a. walk_options.rows \in Nat /\ k + 1 \in Nat
    BY <1>a
  <2>1. CASE k < walk_options.rows
    <3>1. walk_stream # <<>> /\ Head(walk_stream) = k + 1
        /\ Tail(walk_stream) = Left(walk_options.rows, k + 1)
      BY <2>1, <2>a, LeftSteps
    <3>2. walk_sent' = [step |-> k + 1, row |-> k + 1]
        /\ walk_stream' = Left(walk_options.rows, k + 1)
      BY <3>1, Zenon DEF W!Sends
    <3>3. k + 1 <= walk_options.rows
      BY <2>1, <2>a
    <3>4. QED
      BY <3>2, <3>3
  <2>2. CASE k >= walk_options.rows
    <3>1. walk_stream = <<>> /\ Left(walk_options.rows, k + 1) = <<>>
      <4>1. k + 1 >= walk_options.rows
        BY <2>2, <2>a
      <4>2. QED
        BY <2>2, <2>a, <4>1, LeftSteps
    <3>2. QED
      BY <2>2, <3>1, <1>a DEF W!Sends
  <2>3. QED
    BY <1>a, <2>1, <2>2
<1>1. CASE W!StartThread
  BY <1>1, <1>b DEF W!StartThread, SentInOrder
<1>2. CASE W!OpenFiles
  <2>1. walk_afresh /\ walk_sent.step = 0 /\ walk_actions = <<>> /\ walk_stream = <<>>
      /\ walk_phase' = "ready" /\ walk_mutex # "thread"
    BY <1>2, <1>a, <1>b DEF W!OpenFiles, SentInOrder
  <2>2. walk_actions' = W!Numbers(walk_options.file) /\ walk_stream' = W!Numbers(walk_options.rows)
    BY <1>2, <2>1, <1>a, <1>d DEF W!OpenFiles
  <2>3. QED
    BY <1>2, <1>b, <2>1, <2>2 DEF W!OpenFiles, SentInOrder
<1>3. CASE W!CommandStart
  <2>1. walk_afresh /\ SentInOrder /\ walk_mutex = "free"
      /\ (walk_sent.step = 0 \/ walk_current > 0)
    BY <1>3, <1>b, <1>c DEF W!CommandStart, W!Command
  <2>2. walk_sent.step > 0 => walk_status' = "running"
    BY <1>3, <1>a, <2>1 DEF W!CommandStart
  <2>3. walk_sent.step = 0 => walk_status' = "start"
    BY <1>3, <2>1 DEF W!CommandStart, SentInOrder
  <2>4. QED
    BY <1>3, <2>1, <2>2, <2>3 DEF W!CommandStart, W!Command, SentInOrder
<1>4. CASE W!CommandStop
  BY <1>4, <1>b DEF W!CommandStop, W!Command, SentInOrder
<1>5. CASE W!CommandReset
  BY <1>5 DEF W!CommandReset
<1>6. CASE W!RunStartOutOfBounds
  BY <1>6 DEF W!RunStartOutOfBounds
<1>7. CASE W!RunStartHome
  <2>1. walk_afresh /\ SentInOrder /\ walk_status = "start" /\ walk_sent.step = 0
      /\ walk_phase = "ready" /\ walk_actions # <<>> /\ walk_options.home
    BY <1>7, <1>a, <1>b DEF W!RunStartHome, W!RunStartHomeWith, SentInOrder, W!Tick
  <2>2. walk_modes' = [p \in W!Parts |-> "position"]
    BY <1>7 DEF W!RunStartHome, W!RunStartHomeWith
  <2>3. QED
    BY <1>7, <2>1, <2>2 DEF W!RunStartHome, W!RunStartHomeWith, SentInOrder
<1>8. CASE W!HomeDone
  <2>1. walk_afresh /\ SentInOrder /\ walk_mutex = "thread" /\ walk_phase = "ready"
      /\ walk_sent.step = 0 /\ walk_current = 0
        /\ walk_actions # <<>> /\ walk_actions = W!Numbers(walk_options.file)
        /\ walk_stream = Left(walk_options.rows, 0)
        /\ walk_modes = [p \in W!Parts |-> "position"]
    BY <1>8, <1>a, <1>b, <1>d DEF W!HomeDone, W!HomeDoneWhen, SentInOrder
  <2>2. walk_options.file > 0
    BY <2>1, <1>a, <1>d
  <2>3. walk_actions[1] = 0 + 1
    BY <2>1, <2>2, <1>a, <1>d
  <2>4. W!Sends(walk_actions[1])
    BY <1>8 DEF W!HomeDone, W!HomeDoneWhen, W!Sends
  <2>5. /\ walk_sent'.step = 1 /\ walk_sent'.row = IF 1 <= walk_options.rows THEN 1 ELSE 0
        /\ walk_stream' = Left(walk_options.rows, 1)
    BY <1>e, <2>1, <2>3, <2>4
  <2>6. /\ walk_phase' = walk_phase /\ walk_options' = walk_options /\ walk_actions' = walk_actions
        /\ walk_current' = walk_current
        /\ walk_mutex' = "free" /\ walk_modes' = walk_modes /\ walk_status' = "running"
    BY <1>8 DEF W!HomeDone, W!HomeDoneWhen
  <2>7. QED
    BY <2>1, <2>5, <2>6 DEF SentInOrder
<1>9. CASE W!RunStart
  <2>1. walk_afresh /\ SentInOrder /\ walk_mutex = "free" /\ walk_phase = "ready"
      /\ walk_sent.step = 0 /\ walk_current = 0 /\ ~walk_options.home
        /\ walk_actions # <<>> /\ walk_actions = W!Numbers(walk_options.file)
        /\ walk_stream = Left(walk_options.rows, 0)
    BY <1>9, <1>a, <1>b, <1>d DEF W!RunStart, W!Tick, SentInOrder
  <2>2. walk_options.file > 0
    BY <2>1, <1>a, <1>d
  <2>3. walk_actions[1] = 0 + 1
    BY <2>1, <2>2, <1>a, <1>d
  <2>5. /\ walk_sent'.step = 1 /\ walk_sent'.row = IF 1 <= walk_options.rows THEN 1 ELSE 0
        /\ walk_stream' = Left(walk_options.rows, 1)
    BY <1>9, <1>e, <2>1, <2>3 DEF W!RunStart
  <2>6. QED
    BY <1>9, <2>1, <2>5 DEF W!RunStart, SentInOrder
<1>10. CASE W!RunNext
  <2>1. walk_afresh /\ SentInOrder /\ walk_mutex = "free" /\ walk_phase = "ready"
      /\ walk_sent.step = walk_current + 1 /\ walk_sent.step > 0
        /\ walk_actions = W!Numbers(walk_options.file)
        /\ walk_stream = Left(walk_options.rows, walk_current + 1)
    BY <1>10, <1>a, <1>b, <1>d DEF W!RunNext, W!Tick, SentInOrder
  <2>2. walk_current + 2 \in 1..walk_options.file /\ walk_current' = walk_current + 1
    BY <1>10, <2>1, <1>a, <1>d DEF W!RunNext
  <2>3. walk_actions[walk_current' + 1] = (walk_current + 1) + 1
    BY <2>1, <2>2, <1>a, <1>d
  <2>4. W!Sends(walk_actions[walk_current' + 1])
    BY <1>10 DEF W!RunNext
  <2>5. /\ walk_sent'.step = walk_current + 2
           /\ walk_sent'.row = IF walk_current + 2 <= walk_options.rows THEN walk_current + 2 ELSE 0
        /\ walk_stream' = Left(walk_options.rows, walk_current + 2)
    BY <1>a, <1>e, <2>1, <2>3, <2>4
  <2>6. walk_options.home => walk_modes' = [p \in W!Parts |-> "direct"]
    <3>1. walk_options.home =>
          walk_modes = [p \in W!Parts |-> "position"] \/ walk_modes = [p \in W!Parts |-> "direct"]
      BY <2>1, <1>a DEF SentInOrder
    <3>2. QED
      BY <1>10, <3>1 DEF W!RunNext, W!Directly, W!Parts
  <2>7. walk_status' = "running" /\ walk_phase' = walk_phase /\ walk_options' = walk_options
      /\ walk_actions' = walk_actions /\ walk_mutex' = walk_mutex
    BY <1>10 DEF W!RunNext
  <2>8. walk_sent'.step > 1 /\ walk_sent'.step = walk_current' + 1
    BY <1>a, <2>2, <2>5
  <2>9. QED
    BY <2>1, <2>5, <2>6, <2>7, <2>8, <2>2 DEF SentInOrder
<1>11. CASE W!RunComplete
  BY <1>11, <1>a, <1>b DEF W!RunComplete, W!RunCompleteWith, SentInOrder, W!Tick
<1>12. CASE W!RunEmpty
  <2>1. walk_sent.step > 0 /\ walk_phase = "ready" /\ walk_afresh
    BY <1>12, <1>a, <1>b DEF W!RunEmpty, SentInOrder
  <2>2. QED
    BY <1>12, <1>a, <1>b, <2>1 DEF W!RunEmpty, SentInOrder
<1>13. CASE \E p \in W!Parts : W!MoveDone(p)
  BY <1>13, <1>b DEF W!MoveDone, SentInOrder
<1>14. QED
  BY <1>1, <1>2, <1>3, <1>4, <1>5, <1>6, <1>7, <1>8, <1>9, <1>10, <1>11, <1>12, <1>13 DEF W!Next,
     W!Run

\* Every step keeps the invariant.
LEMMA WalkNext == WalkKept /\ [W!Next]_(W!walkVars) => WalkKept'
<1> SUFFICES ASSUME WalkKept, [W!Next]_(W!walkVars) PROVE WalkKept'
  OBVIOUS
<1>1. CASE W!Next
  BY <1>1, WalkTyped, WalkOrdered DEF WalkKept
<1>2. CASE UNCHANGED W!walkVars
  BY <1>2 DEF WalkKept, W!TypeOK, W!TorsoMovesAlone, SentInOrder, W!walkVars
<1>3. QED
  BY <1>1, <1>2

\* The invariant of the player.
LEMMA WalkAlways == W!Spec => []WalkKept
BY WalkInit, WalkNext, PTL DEF W!Spec

\* No step is sent, and no command served, while the torso is on its way to the first step
\* (workingThread.cpp:122-130).
THEOREM TorsoMovesAloneHolds == W!Spec => []W!TorsoMovesAlone
<1>1. WalkKept => W!TorsoMovesAlone
  BY DEF WalkKept
<1>2. QED
  BY <1>1, WalkAlways, PTL

\* After a trajectory to the first step the next ones are taken in direct mode
\* (workingThread.cpp:134-150).
THEOREM StepsGoDirectlyHolds == W!Spec => []W!StepsGoDirectly
<1>1. WalkKept => W!StepsGoDirectly
  BY DEF WalkKept, W!StepsGoDirectly, SentInOrder
<1>2. QED
  BY <1>1, WalkAlways, PTL

\* The row for torqueBalancing is the one of the step next to it, for files of any length
\* (workingThread.cpp:211-267).
THEOREM RowsInStepHolds == W!Spec => []W!RowsInStep
<1>1. WalkKept => W!RowsInStep
  <2> SUFFICES ASSUME WalkKept, walk_afresh, walk_sent.step \in 1..walk_options.rows PROVE walk_sent.row = walk_sent.step
    BY DEF W!RowsInStep
  <2>1. walk_options.rows \in Nat /\ walk_sent.step > 0 /\ walk_sent.step <= walk_options.rows
    BY DEF WalkKept, W!TypeOK
  <2>2. QED
    BY <2>1 DEF WalkKept, SentInOrder
<1>2. QED
  BY <1>1, WalkAlways, PTL

\* The semaphore is lost to the commands only if the sequence is empty (workingThread.cpp:291-294).
THEOREM LostOnlyWhenEmptyHolds == W!Spec => W!LostOnlyWhenEmpty
<1>1. WalkKept /\ [W!Next]_(W!walkVars) =>
      [walk_mutex' = "lost" /\ walk_mutex # "lost" => walk_actions = <<>>]_(W!walkVars)
  <2> SUFFICES ASSUME W!Next, walk_mutex' = "lost", walk_mutex # "lost" PROVE walk_actions = <<>>
    BY DEF W!walkVars
  <2>1. QED
    BY DEF W!Next, W!Run, W!StartThread, W!OpenFiles, W!CommandStart, W!CommandStop,
       W!CommandReset, W!Command,
           W!RunStartOutOfBounds, W!RunStartHome, W!RunStartHomeWith, W!HomeDone, W!HomeDoneWhen, W!RunStart,
           W!RunNext, W!RunComplete, W!RunCompleteWith, W!RunEmpty, W!MoveDone
<1>2. QED
  BY <1>1, WalkAlways, PTL DEF W!Spec, W!LostOnlyWhenEmpty

\* A behaviour of all the components is one of WalkPlayer, which takes its steps or none.
LEMMA WalkBehaves == AllSpec => W!Spec
<1>1. AllInit => W!Init
  BY DEF AllInit
<1>2. [AllNext]_allVars => [W!Next]_(W!walkVars)
  BY DEF AllNext, allVars, walkVars, W!walkVars, GraspManagerRuns, CoordinatorRuns,
         JointSplitRuns, WalkPlayerRuns, BalancingModuleRuns, ReferencesGeneratorRuns,
         GridMappingRuns, WholeBodyEstimatorRuns
<1>3. QED
  BY <1>1, <1>2, PTL DEF AllSpec, W!Spec

--------------------------------------------------------------------------------
(* ReferencesGenerator *)

\* What the loading compares are neighbours (TorqueBalancingReferencesGenerator.cpp:320-332); all the
\* times of the list are then in order.
LEMMA IncreasingOrders ==
  ASSUME NEW times \in Seq(Nat), R!Increasing(times), NEW i \in 1..Len(times), NEW j \in 1..Len(times), i < j
  PROVE  times[i] < times[j]
<1> DEFINE S == {k \in Nat : k \in 1..Len(times) /\ i < k /\ ~(times[i] < times[k])}
<1>1. SUFFICES ASSUME S # {} PROVE FALSE
  OBVIOUS
<1>2. PICK k \in S : \A l \in S : k <= l
  BY <1>1, LeastNatural
<1>3. k \in 2..Len(times) /\ k - 1 \in 1..Len(times) /\ k - 1 \notin S /\ i <= k - 1
  BY <1>2
<1>4. times[k - 1] < times[k]
  BY <1>3 DEF R!Increasing
<1>5. i = k - 1 \/ times[i] < times[k - 1]
  BY <1>3
<1>6. times[i] \in Nat /\ times[k] \in Nat /\ times[k - 1] \in Nat
  BY <1>3
<1>7. QED
  BY <1>2, <1>4, <1>5, <1>6

\* The scan of the list (76-91) finds the last time that has passed.
LEMMA DueIsLast ==
  ASSUME NEW times \in Seq(Nat), R!Increasing(times), NEW t \in Nat, NEW held \in Nat
  PROVE  /\ \/ R!Due(times, held, t) = held
            \/ /\ R!Due(times, held, t) \in 1..Len(times) /\ Len(times) > 1
               /\ t > times[R!Due(times, held, t)]
         /\ Len(times) > 1 => \A i \in 1..Len(times) : t > times[i] => R!Due(times, held, t) >= i
<1> DEFINE d == R!Due(times, held, t)
<1>1. CASE R!Current(times, t) # {}
  <2>1. PICK c \in R!Current(times, t) : d = c
    BY <1>1 DEF R!Due
  <2>2. c \in 1..Len(times) - 1 /\ times[c] < t /\ t <= times[c + 1]
    BY DEF R!Current
  <2>3. ASSUME NEW i \in 1..Len(times), t > times[i] PROVE c >= i
    <3>1. SUFFICES ASSUME c < i PROVE FALSE
      BY <2>2
    <3>2. c + 1 \in 1..Len(times) /\ (i = c + 1 \/ c + 1 < i)
      BY <2>2, <3>1
    <3>3. times[c + 1] <= times[i]
      BY <3>2, IncreasingOrders
    <3>4. times[i] \in Nat /\ times[c + 1] \in Nat
      BY <3>2
    <3>5. QED
      BY <2>2, <2>3, <3>3, <3>4
  <2>4. QED
    BY <2>1, <2>2, <2>3
<1>2. CASE R!Current(times, t) = {} /\ Len(times) > 1 /\ t > times[Len(times)]
  BY <1>2 DEF R!Due
<1>3. CASE R!Current(times, t) = {} /\ ~(Len(times) > 1 /\ t > times[Len(times)])
  <2>1. d = held
    BY <1>3 DEF R!Due
  <2>2. ASSUME Len(times) > 1, NEW i \in 1..Len(times), t > times[i] PROVE FALSE
    <3> DEFINE n == Len(times)
               S == {k \in Nat : k \in 1..n /\ i < k /\ ~(t > times[k])}
    <3>1. n \in S
      BY <1>3, <2>2
    <3>2. PICK k \in S : \A l \in S : k <= l
      BY <3>1, LeastNatural
    <3>3. k \in 2..n /\ k - 1 \in 1..n - 1 /\ i <= k - 1 /\ k - 1 \notin S
      BY <3>2
    <3>4. times[k] \in Nat /\ times[k - 1] \in Nat /\ t > times[k - 1]
      BY <2>2, <3>3
    <3>5. t <= times[(k - 1) + 1]
      BY <3>2, <3>4
    <3>6. k - 1 \in R!Current(times, t)
      BY <3>3, <3>4, <3>5 DEF R!Current
    <3>7. QED
      BY <1>3, <3>6
  <2>3. QED
    BY <2>1, <2>2
<1>4. QED
  BY <1>1, <1>2, <1>3

PointTimes == R!TimesOf(refs_config.points)
PostureTimes == R!TimesOf(refs_config.postures)
InTime(times, flag, held) ==
  held > 0 => /\ flag /\ refs_module \in {"running", "undefined"}
              /\ held \in 1..Len(times) /\ Len(times) > 1
              /\ refs_time > times[held] /\ refs_time >= refs_Timeout
NotYetSent(times, held) ==
  refs_fresh /\ refs_module = "running" /\ refs_time >= refs_Timeout /\ Len(times) > 1 =>
    \A i \in 1..Len(times) : refs_time > times[i] => held >= i
RefsConfigured ==
  refs_config.references => /\ R!PosturesGood /\ R!ComGood
                            /\ refs_flags.postural = (refs_config.postures # R!Absent)
                            /\ refs_config.points # R!Absent => refs_flags.points
                            /\ refs_config.sine = "given" => ~refs_flags.points

RefsKept ==
  /\ R!TypeOK
  /\ ~refs_config.references => refs_config.postures = R!Absent /\ refs_config.points = R!Absent
  /\ refs_module = "configuring" => refs_com = 0 /\ refs_posture = 0 /\ refs_fresh = FALSE
  /\ refs_module \in {"running", "undefined"} => RefsConfigured
  /\ InTime(PointTimes, refs_flags.points, refs_com)
  /\ InTime(PostureTimes, refs_flags.postural, refs_posture)
  /\ NotYetSent(PointTimes, refs_com)
  /\ NotYetSent(PostureTimes, refs_posture)
  /\ R!UndefinedOnlyWithout

\* The times of a list are numbers.
LEMMA ListsTyped ==
  ASSUME NEW list \in R!Lists
  PROVE  /\ R!TimesOf(list) \in Seq(Nat) /\ Len(R!TimesOf(list)) <= refs_MaxPoints
         /\ R!TimesOf(list) = <<>> => list = R!Absent \/ list = <<"list", <<>>>>
<1> USE RefsAssumption
<1>1. CASE list = <<"absent">>
  BY <1>1 DEF R!TimesOf, R!Absent
<1>2. CASE \E l \in UNION {[1..n -> 0..refs_MaxTime] : n \in 0..refs_MaxPoints} : list =
      <<"list", l>>
  <2>0. PICK n \in 0..refs_MaxPoints : \E l \in [1..n -> 0..refs_MaxTime] : list = <<"list", l>>
    BY <1>2
  <2>1. PICK l \in [1..n -> 0..refs_MaxTime] : list = <<"list", l>>
    BY <2>0
  <2>2. l \in Seq(Nat) /\ Len(l) = n
    <3>1. l \in [1..n -> Nat] /\ n \in Nat
      OBVIOUS
    <3>2. QED
      BY <3>1
  <2>3. R!TimesOf(list) = l
    BY <2>1 DEF R!TimesOf, R!Absent
  <2>4. QED
    BY <2>1, <2>2, <2>3
<1>3. QED
  BY <1>1, <1>2 DEF R!Lists

\* A list that was accepted is in order.
LEMMA RefsTimes ==
  ASSUME R!TypeOK
  PROVE  /\ PointTimes \in Seq(Nat) /\ Len(PointTimes) <= refs_MaxPoints
         /\ PostureTimes \in Seq(Nat) /\ Len(PostureTimes) <= refs_MaxPoints
<1>1. refs_config.points \in R!Lists /\ refs_config.postures \in R!Lists
  BY DEF R!TypeOK, R!Files
<1>2. QED
  BY <1>1, ListsTyped DEF PointTimes, PostureTimes

\* Nothing is streamed at the start.
LEMMA RefsInit == R!Init => RefsKept
<1> SUFFICES ASSUME R!Init PROVE RefsKept
  OBVIOUS
<1>1. R!TypeOK
  <2>1. refs_config \in R!Files
    BY DEF R!Init
  <2>2. 0 \in 0..refs_MaxTime + 2 /\ 0 \in 0..refs_MaxPoints
    BY RefsAssumption
  <2>3. QED
    BY <2>1, <2>2, Zenon DEF R!Init, R!TypeOK
<1>2. QED
  BY <1>1 DEF R!Init, RefsKept, InTime, NotYetSent, R!UndefinedOnlyWithout

\* configure accepts only lists in order (252-394).
LEMMA RefsConfigure == RefsKept /\ R!Configure => RefsKept'
<1> SUFFICES ASSUME RefsKept, R!Configure PROVE RefsKept'
  OBVIOUS
<1> USE RefsAssumption
<1>1. R!TypeOK'
  <2>1. refs_flags' \in [postural : BOOLEAN, points : BOOLEAN]
    BY DEF R!Configure, R!Loaded, RefsKept, R!TypeOK
  <2>2. refs_time' \in 0..refs_MaxTime + 2
    BY DEF R!Configure
  <2>3. refs_start' \in BOOLEAN
    BY DEF R!Configure
  <2>4. QED
    BY <2>1, <2>2, <2>3 DEF R!Configure, RefsKept, R!TypeOK
<1>2. refs_com' = 0 /\ refs_posture' = 0 /\ refs_fresh' = FALSE /\ refs_config' = refs_config
    /\ refs_module' \in {"running", "refused"}
  BY DEF R!Configure, RefsKept
<1>3. refs_module' = "running" => RefsConfigured'
  <2>1. SUFFICES ASSUME refs_module' = "running", refs_config.references PROVE RefsConfigured'
    BY <1>2 DEF RefsConfigured
  <2>2. R!PosturesGood /\ R!ComGood /\ refs_flags' = R!Loaded
    BY <2>1 DEF R!Configure
  <2>3. R!PosturesGood' /\ R!ComGood'
    BY <1>2, <2>2 DEF R!PosturesGood, R!ComGood
  <2>4. refs_flags'.postural = (refs_config.postures # R!Absent)
      /\ (refs_config.points # R!Absent => refs_flags'.points)
    BY <2>1, <2>2 DEF R!Loaded
  <2>5. refs_config.sine = "given" => ~refs_flags'.points
    BY <2>1, <2>2 DEF R!Loaded, R!ComGood
  <2>6. QED
    BY <1>2, <2>3, <2>4, <2>5 DEF RefsConfigured
<1>4. QED
  BY <1>1, <1>2, <1>3 DEF RefsKept, InTime, NotYetSent, R!UndefinedOnlyWithout

\* Time passes, or an update is late: what is streamed is no longer fresh.
LEMMA RefsPass == RefsKept /\ R!Pass => RefsKept'
<1> SUFFICES ASSUME RefsKept, R!Pass PROVE RefsKept'
  OBVIOUS
<1> USE RefsAssumption
<1>1. PICK later \in {1, 2} : refs_time + later <= refs_MaxTime + 2
    /\ refs_time' = refs_time + later
  BY DEF R!Pass
<1>2. /\ refs_config' = refs_config /\ refs_module' = refs_module /\ refs_flags' = refs_flags
      /\ refs_start' = refs_start /\ refs_com' = refs_com
      /\ refs_posture' = refs_posture /\ refs_fresh' = FALSE
  BY DEF R!Pass
<1>3. refs_time \in Nat /\ refs_time' \in 0..refs_MaxTime + 2 /\ refs_time' > refs_time
  BY <1>1 DEF RefsKept, R!TypeOK
<1>4. R!TypeOK'
  BY <1>2, <1>3 DEF RefsKept, R!TypeOK
<1>5. PointTimes' = PointTimes /\ PostureTimes' = PostureTimes
  BY <1>2 DEF PointTimes, PostureTimes
<1>6. InTime(PointTimes, refs_flags.points, refs_com)'
    /\ InTime(PostureTimes, refs_flags.postural, refs_posture)'
  <2>1. ASSUME NEW times \in Seq(Nat), NEW flag, NEW held, InTime(times, flag, held),
               held > 0, held \in 1..Len(times) => times[held] \in Nat
        PROVE  /\ flag /\ refs_module' \in {"running", "undefined"}
               /\ held \in 1..Len(times) /\ Len(times) > 1
               /\ refs_time' > times[held] /\ refs_time' >= refs_Timeout
    BY <1>2, <1>3, <2>1 DEF InTime
  <2>2. PointTimes \in Seq(Nat) /\ PostureTimes \in Seq(Nat)
    BY RefsTimes DEF RefsKept
  <2>3. InTime(PointTimes, refs_flags.points, refs_com)
      /\ InTime(PostureTimes, refs_flags.postural, refs_posture)
    BY DEF RefsKept
  <2>4. (refs_com \in 1..Len(PointTimes) => PointTimes[refs_com] \in Nat)
      /\ (refs_posture \in 1..Len(PostureTimes) => PostureTimes[refs_posture] \in Nat)
    BY <2>2
  <2> HIDE DEF PointTimes, PostureTimes
  <2>5. QED
    BY <1>2, <1>5, <2>1, <2>2, <2>3, <2>4 DEF InTime
<1>7. QED
  BY <1>2, <1>4, <1>6 DEF RefsKept, NotYetSent, R!UndefinedOnlyWithout, RefsConfigured,
     R!PosturesGood, R!ComGood

\* While the module runs its lists are those that configure accepted.
LEMMA RefsRunning ==
  ASSUME RefsKept, refs_module \in {"running", "undefined"}
  PROVE  R!Increasing(PointTimes) /\ R!Increasing(PostureTimes)
<1>1. CASE ~refs_config.references
  BY <1>1 DEF RefsKept, PointTimes, PostureTimes, R!TimesOf, R!Increasing
<1>2. CASE refs_config.references
  <2>1. R!Increasing(PointTimes)
    BY <1>2 DEF RefsKept, RefsConfigured, R!ComGood, PointTimes
  <2>2. R!Increasing(PostureTimes)
    <3>1. CASE refs_config.postures = R!Absent
      BY <3>1 DEF PostureTimes, R!TimesOf, R!Increasing
    <3>2. CASE refs_config.postures # R!Absent
      BY <1>2, <3>2 DEF RefsKept, RefsConfigured, R!PosturesGood, PostureTimes
    <3>3. QED
      BY <3>1, <3>2
  <2>3. QED
    BY <2>1, <2>2
<1>3. QED
  BY <1>1, <1>2

\* What an update streams of a list: nothing earlier than before, and the last one that is due.
LEMMA RefsStream ==
  ASSUME RefsKept, R!UpdateModule
  PROVE  /\ refs_com' \in 0..refs_MaxPoints /\ refs_posture' \in 0..refs_MaxPoints
         /\ refs_com <= refs_com' /\ refs_posture <= refs_posture'
         /\ refs_com' > 0 => refs_flags.points /\ refs_com' \in 1..Len(PointTimes)
            /\ Len(PointTimes) > 1
                        /\ refs_time > PointTimes[refs_com'] /\ refs_time >= refs_Timeout
         /\ refs_posture' > 0 => refs_flags.postural /\ refs_posture' \in 1..Len(PostureTimes)
            /\ Len(PostureTimes) > 1
                            /\ refs_time > PostureTimes[refs_posture'] /\ refs_time >= refs_Timeout
         /\ refs_time >= refs_Timeout /\ Len(PointTimes) > 1 =>
              \A i \in 1..Len(PointTimes) : refs_time > PointTimes[i] => refs_com' >= i
         /\ refs_time >= refs_Timeout /\ Len(PostureTimes) > 1 =>
              \A i \in 1..Len(PostureTimes) : refs_time > PostureTimes[i] => refs_posture' >= i
<1> USE RefsAssumption
<1>1. /\ PointTimes \in Seq(Nat) /\ Len(PointTimes) <= refs_MaxPoints /\ Len(PointTimes) \in Nat
      /\ PostureTimes \in Seq(Nat) /\ Len(PostureTimes) <= refs_MaxPoints
      /\ Len(PostureTimes) \in Nat
      /\ refs_time \in Nat /\ refs_com \in 0..refs_MaxPoints /\ refs_posture \in 0..refs_MaxPoints
  BY RefsTimes DEF RefsKept, R!TypeOK
<1>2. R!Increasing(PointTimes) /\ R!Increasing(PostureTimes) /\ RefsConfigured
    /\ refs_module = "running"
  BY RefsRunning DEF R!UpdateModule, RefsKept
<1>3. (Len(PointTimes) > 1 => refs_flags.points) /\ (Len(PostureTimes) > 1 => refs_flags.postural)
  <2>1. Len(PointTimes) > 1 => refs_config.points # R!Absent /\ refs_config.references
    BY DEF PointTimes, R!TimesOf, RefsKept
  <2>2. Len(PostureTimes) > 1 => refs_config.postures # R!Absent /\ refs_config.references
    BY DEF PostureTimes, R!TimesOf, RefsKept
  <2>3. QED
    BY <1>2, <2>1, <2>2 DEF RefsConfigured
<1>4. InTime(PointTimes, refs_flags.points, refs_com)
    /\ InTime(PostureTimes, refs_flags.postural, refs_posture)
  BY DEF RefsKept
<1>5. refs_com' = IF refs_time >= refs_Timeout
    /\ refs_flags.points THEN R!Due(PointTimes, refs_com, refs_time) ELSE 0
  BY DEF R!UpdateModule, R!Stream, PointTimes
<1>6. refs_posture' = IF refs_time >= refs_Timeout
    /\ refs_flags.postural THEN R!Due(PostureTimes, 0, refs_time)
                 ELSE IF refs_time >= refs_Timeout THEN refs_posture ELSE 0
  BY DEF R!UpdateModule, R!Stream, PostureTimes
<1> DEFINE c == R!Due(PointTimes, refs_com, refs_time)
           p == R!Due(PostureTimes, 0, refs_time)
<1>7. /\ c = refs_com \/ (c \in 1..Len(PointTimes) /\ Len(PointTimes) > 1 /\ refs_time > PointTimes[c])
      /\ Len(PointTimes) > 1 => \A i \in 1..Len(PointTimes) : refs_time > PointTimes[i] => c >= i
  BY <1>1, <1>2, DueIsLast
<1>8. /\ p = 0 \/ (p \in 1..Len(PostureTimes) /\ Len(PostureTimes) > 1 /\ refs_time > PostureTimes[p])
      /\ Len(PostureTimes) > 1 => \A i \in 1..Len(PostureTimes) : refs_time > PostureTimes[i] =>
           p >= i
  BY <1>1, <1>2, DueIsLast
<1> HIDE DEF c, p
<1>9. CASE refs_time >= refs_Timeout
  <2>1. /\ refs_com' \in 0..refs_MaxPoints /\ refs_com <= refs_com'
        /\ refs_com' > 0 => refs_flags.points /\ refs_com' \in 1..Len(PointTimes)
           /\ Len(PointTimes) > 1
                       /\ refs_time > PointTimes[refs_com'] /\ refs_time >= refs_Timeout
        /\ Len(PointTimes) > 1 => \A i \in 1..Len(PointTimes) : refs_time > PointTimes[i] =>
             refs_com' >= i
    <3>1. CASE refs_flags.points
      <4>1. refs_com' = c
        BY <1>5, <1>9, <3>1 DEF c
      <4>2. refs_com > 0 => c >= refs_com
        BY <1>1, <1>4, <1>7 DEF InTime
      <4>3. c \in 0..refs_MaxPoints
        BY <1>1, <1>7
      <4>4. QED
        BY <1>1, <1>4, <1>7, <1>9, <3>1, <4>1, <4>2, <4>3 DEF InTime
    <3>2. CASE ~refs_flags.points
      BY <1>1, <1>3, <1>4, <1>5, <3>2 DEF InTime
    <3>3. QED
      BY <3>1, <3>2
  <2>2. /\ refs_posture' \in 0..refs_MaxPoints /\ refs_posture <= refs_posture'
        /\ refs_posture' > 0 => refs_flags.postural /\ refs_posture' \in 1..Len(PostureTimes)
           /\ Len(PostureTimes) > 1
                       /\ refs_time > PostureTimes[refs_posture'] /\ refs_time >= refs_Timeout
        /\ Len(PostureTimes) > 1 => \A i \in 1..Len(PostureTimes) : refs_time > PostureTimes[i] =>
             refs_posture' >= i
    <3>1. CASE refs_flags.postural
      <4>1. refs_posture' = p
        BY <1>6, <1>9, <3>1 DEF p
      <4>2. refs_posture > 0 => p >= refs_posture
        BY <1>1, <1>4, <1>8 DEF InTime
      <4>3. p \in 0..refs_MaxPoints
        BY <1>1, <1>8
      <4>4. QED
        BY <1>1, <1>4, <1>8, <1>9, <3>1, <4>1, <4>2, <4>3 DEF InTime
    <3>2. CASE ~refs_flags.postural
      BY <1>1, <1>3, <1>4, <1>6, <1>9, <3>2 DEF InTime
    <3>3. QED
      BY <3>1, <3>2
  <2>3. QED
    BY <2>1, <2>2
<1>10. CASE ~(refs_time >= refs_Timeout)
  <2>1. refs_com' = 0 /\ refs_posture' = 0
    BY <1>5, <1>6, <1>10
  <2>2. refs_com = 0 /\ refs_posture = 0
    BY <1>1, <1>4, <1>10 DEF InTime
  <2>3. QED
    BY <1>10, <2>1, <2>2
<1>11. QED
  BY <1>9, <1>10

\* An update streams both lists.
LEMMA RefsUpdate == RefsKept /\ R!UpdateModule => RefsKept'
<1> SUFFICES ASSUME RefsKept, R!UpdateModule PROVE RefsKept'
  OBVIOUS
<1> USE RefsAssumption
<1>1. /\ refs_config' = refs_config /\ refs_flags' = refs_flags /\ refs_start' = refs_start
      /\ refs_time' = refs_time /\ refs_fresh' = TRUE
      /\ refs_module = "running" /\ refs_module' \in {"running", "undefined"}
  BY DEF R!UpdateModule, R!Stream
<1>2. PointTimes' = PointTimes /\ PostureTimes' = PostureTimes
  BY <1>1 DEF PointTimes, PostureTimes
<1>3. R!TypeOK'
  BY <1>1, RefsStream DEF RefsKept, R!TypeOK
<1>4. R!UndefinedOnlyWithout'
  <2>1. SUFFICES ASSUME refs_module' =
        "undefined", refs_config.references PROVE R!UndefinedOnlyWithout'
    BY <1>1 DEF R!UndefinedOnlyWithout
  <2>2. (refs_flags.points /\ PointTimes = <<>>) \/ (refs_flags.postural /\ PostureTimes = <<>>)
    BY <2>1 DEF R!UpdateModule, R!Stream, PointTimes, PostureTimes
  <2>3. RefsConfigured /\ refs_config \in R!Files
    BY <1>1 DEF RefsKept, R!TypeOK
  <2>4. CASE refs_flags.points /\ PointTimes = <<>>
    <3>1. refs_config.points = R!Absent \/ refs_config.points = <<"list", <<>>>>
      BY <2>3, <2>4, ListsTyped DEF PointTimes, R!Files
    <3>2. refs_config.points = R!Absent => refs_config.sine = "absent"
      BY <2>1, <2>3, <2>4 DEF RefsConfigured, R!ComGood, R!Files
    <3>3. QED
      BY <1>1, <3>1, <3>2 DEF R!UndefinedOnlyWithout
  <2>5. CASE refs_flags.postural /\ PostureTimes = <<>>
    <3>1. refs_config.postures = R!Absent \/ refs_config.postures = <<"list", <<>>>>
      BY <2>3, <2>5, ListsTyped DEF PostureTimes, R!Files
    <3>2. refs_config.postures # R!Absent
      BY <2>1, <2>3, <2>5 DEF RefsConfigured
    <3>3. QED
      BY <1>1, <3>1, <3>2 DEF R!UndefinedOnlyWithout
  <2>6. QED
    BY <2>2, <2>4, <2>5
<1>5. RefsConfigured'
  BY <1>1 DEF RefsKept, RefsConfigured, R!PosturesGood, R!ComGood
<1>6. InTime(PointTimes, refs_flags.points, refs_com)'
    /\ InTime(PostureTimes, refs_flags.postural, refs_posture)'
  BY <1>1, <1>2, RefsStream DEF InTime
<1>7. NotYetSent(PointTimes, refs_com)' /\ NotYetSent(PostureTimes, refs_posture)'
  BY <1>1, <1>2, RefsStream DEF NotYetSent
<1>8. QED
  BY <1>1, <1>3, <1>4, <1>5, <1>6, <1>7 DEF RefsKept

\* Every step keeps the invariant.
LEMMA RefsNext == RefsKept /\ [R!Next]_(R!generatorVars) => RefsKept'
<1> SUFFICES ASSUME RefsKept, [R!Next]_(R!generatorVars) PROVE RefsKept'
  OBVIOUS
<1>1. CASE UNCHANGED R!generatorVars
  BY <1>1 DEF RefsKept, R!TypeOK, RefsConfigured, R!PosturesGood, R!ComGood, InTime, NotYetSent,
     R!UndefinedOnlyWithout,
              PointTimes, PostureTimes, R!generatorVars
<1>2. QED
  BY <1>1, RefsConfigure, RefsUpdate, RefsPass DEF R!Next

\* The invariant of the references generator.
LEMMA RefsAlways == R!Spec => []RefsKept
BY RefsInit, RefsNext, PTL DEF R!Spec

\* A reference is never streamed before its time, nor before the ports have had time to be connected
\* (TorqueBalancingReferencesGenerator.cpp:41-106).
THEOREM NeverBeforeItsTimeHolds == R!Spec => []R!NeverBeforeItsTime
<1>1. RefsKept => R!NeverBeforeItsTime
  BY DEF RefsKept, InTime, R!NeverBeforeItsTime, PointTimes, PostureTimes
<1>2. QED
  BY <1>1, RefsAlways, PTL

\* After an update, there is no reference whose time has passed that neither it nor a later one
\* replaces what is streamed (76-91), for any list of at least two.
THEOREM NoReferenceSkippedHolds == R!Spec => []R!NoReferenceSkipped
<1>1. RefsKept => R!NoReferenceSkipped
  <2> SUFFICES ASSUME RefsKept, refs_fresh, refs_module = "running", refs_time >= refs_Timeout,
                      NEW list \in {<<PointTimes, refs_com>>, <<PostureTimes, refs_posture>>}, Len(list[1]) > 1,
                      NEW i \in DOMAIN list[1], refs_time > list[1][i]
               PROVE  list[2] >= i
    BY DEF R!NoReferenceSkipped, PointTimes, PostureTimes
  <2>1. PointTimes \in Seq(Nat) /\ PostureTimes \in Seq(Nat)
    BY RefsTimes DEF RefsKept
  <2>2. NotYetSent(PointTimes, refs_com) /\ NotYetSent(PostureTimes, refs_posture)
    BY DEF RefsKept
  <2>3. QED
    BY <2>1, <2>2 DEF NotYetSent
<1>2. QED
  BY <1>1, RefsAlways, PTL

\* With the references given and no list empty, no flag is used that no constructor sets.
THEOREM UndefinedOnlyWithoutHolds == R!Spec => []R!UndefinedOnlyWithout
<1>1. RefsKept => R!UndefinedOnlyWithout
  BY DEF RefsKept
<1>2. QED
  BY <1>1, RefsAlways, PTL

\* The references are streamed in the order of their list, whatever updates are late.
THEOREM ReferencesInOrderHolds == R!Spec => R!ReferencesInOrder
<1>1. RefsKept /\ [R!Next]_(R!generatorVars) =>
      [refs_com <= refs_com' /\ refs_posture <= refs_posture']_(R!generatorVars)
  <2> SUFFICES ASSUME RefsKept, R!Next PROVE refs_com <= refs_com' /\ refs_posture <= refs_posture'
    OBVIOUS
  <2>1. refs_com \in Nat /\ refs_posture \in Nat
    BY RefsAssumption DEF RefsKept, R!TypeOK
  <2>2. CASE R!UpdateModule
    BY <2>2, RefsStream
  <2>3. CASE R!Configure \/ R!Pass
    BY <2>1, <2>3 DEF R!Configure, R!Pass
  <2>4. QED
    BY <2>2, <2>3 DEF R!Next
<1>2. QED
  BY <1>1, RefsAlways, PTL DEF R!Spec, R!ReferencesInOrder

\* A behaviour of all the components is one of ReferencesGenerator, which takes its steps or none.
LEMMA RefsBehaves == AllSpec => R!Spec
<1>1. AllInit => R!Init
  BY DEF AllInit
<1>2. [AllNext]_allVars => [R!Next]_(R!generatorVars)
  BY DEF AllNext, allVars, refsVars, R!generatorVars, GraspManagerRuns, CoordinatorRuns,
         JointSplitRuns, WalkPlayerRuns, BalancingModuleRuns, ReferencesGeneratorRuns,
         GridMappingRuns, WholeBodyEstimatorRuns
<1>3. QED
  BY <1>1, <1>2, PTL DEF AllSpec, R!Spec

--------------------------------------------------------------------------------
(* Together *)

\* What is sent together belongs together, and at its time: both halves of the joints of a part, the
\* row next to a step, the set point of a time.
THEOREM ReferencesMatchHolds == AllSpec => []ReferencesMatch
<1>1. AllSpec => []CoordinatorKept
  BY CoordinatorBehaves, CoordinatorAlways, PTL
<1>2. AllSpec => [](SplitKept /\ J!KeepsTorqueJoints /\ J!SplitIsRight)
  BY SplitBehaves, SplitAlways, KeepsTorqueJointsHolds, SplitIsRightHolds, PTL
<1>3. AllSpec => [](WalkKept /\ W!TorsoMovesAlone /\ W!StepsGoDirectly /\ W!RowsInStep)
  BY WalkBehaves, WalkAlways, TorsoMovesAloneHolds, StepsGoDirectlyHolds, RowsInStepHolds, PTL
<1>4. AllSpec => [](RefsKept /\ R!NeverBeforeItsTime /\ R!UndefinedOnlyWithout /\ R!NoReferenceSkipped)
  BY RefsBehaves, RefsAlways, NeverBeforeItsTimeHolds, UndefinedOnlyWithoutHolds,
     NoReferenceSkippedHolds, PTL
<1>5. ASSUME CoordinatorKept,
            SplitKept, J!KeepsTorqueJoints, J!SplitIsRight,
            WalkKept, W!TorsoMovesAlone, W!StepsGoDirectly, W!RowsInStep,
            RefsKept, R!NeverBeforeItsTime, R!UndefinedOnlyWithout, R!NoReferenceSkipped
      PROVE  ReferencesMatch
  <2>1. CoordinatorKept => T!TypeOK /\ T!HalvesAgree /\ T!ComStartsWhereAsked
    BY DEF CoordinatorKept
  <2>2. SplitKept => J!TypeOK
    BY DEF SplitKept
  <2>3. WalkKept => W!TypeOK
    BY DEF WalkKept
  <2>4. RefsKept => R!TypeOK
    BY DEF RefsKept
  <2>5. QED
    BY <1>5, <2>1, <2>2, <2>3, <2>4 DEF ReferencesMatch
<1>6. QED
  BY <1>1, <1>2, <1>3, <1>4, <1>5, PTL

\* No step uses an object outside its life, goes back to an older reference, moves a contact at once,
\* or keeps the semaphore of a sequence that is not empty.
THEOREM NothingOutOfTurnHolds == AllSpec => NothingOutOfTurn
<1>1. AllSpec => T!NoMisuseOnceReady /\ T!NeverGoesBack
  BY CoordinatorBehaves, NoMisuseOnceReadyHolds, NeverGoesBackHolds
<1>2. AllSpec => W!LostOnlyWhenEmpty
  BY WalkBehaves, LostOnlyWhenEmptyHolds
<1>3. AllSpec => B!ContactsMoveGradually /\ B!NoMisuseWhileReady
  BY BalancingBehaves, ContactsMoveGraduallyHolds, NoMisuseWhileReadyHolds
<1>4. AllSpec => R!ReferencesInOrder
  BY RefsBehaves, ReferencesInOrderHolds
<1>5. QED
  BY <1>1, <1>2, <1>3, <1>4 DEF NothingOutOfTurn
================================================================================
