----------------------- MODULE JointTorqueControl_proofs -----------------------
(***************************************************************************)
(* What holds of JointTorqueControl for every set of clients and joints,   *)
(* every set of requests and every number of calls.  The two facts the     *)
(* proofs rest on are who holds globalMutex and, because of that, what the *)
(* thread may assume of the outputs it has computed when it sends them.    *)
(***************************************************************************)
EXTENDS JointTorqueControl, TLAPS

\* What a client calls where it is in a call
CallsWhatItSays ==
  \A c \in Clients :
    /\ pc[c] = "fill" => call[c].modes \in [Joints -> Modes]
    /\ pc[c] = "write" => call[c].kind = "refs"

Types == TypeOK /\ CallsWhatItSays

LEMMA RequestTypes ==
  /\ \A r \in Requests : DOMAIN r \subseteq Joints /\ \A j \in DOMAIN r : r[j] \in Modes
  /\ \A m \in Modes : Whole(m) \in [Joints -> Modes]
  /\ \A c \in Calls : c.kind \in {"modes", "whole"} =>
       DOMAIN c.modes \subseteq Joints /\ \A j \in DOMAIN c.modes : c.modes[j] \in Modes
BY RequestsAssumption DEF Calls, Whole, Modes

\* Hijacking takes functions on the joints to functions on the joints.
LEMMA HijackTypes ==
  ASSUME NEW modes, Hijack(modes), TypeOK
  PROVE  /\ hijacking' \in [Joints -> BOOLEAN]
         /\ session' \in [Joints -> Nat]
         /\ desired' \in [Joints -> Nat]
<1>1. \A j \in Joints : (j \in DOMAIN modes => (modes[j] = "torque") \in BOOLEAN) /\ hijacking[j] \in BOOLEAN
  BY Zenon DEF TypeOK
<1>2. hijacking' = [j \in Joints |-> IF j \in DOMAIN modes THEN modes[j] = "torque" ELSE hijacking[j]]
  BY Zenon DEF Hijack, HijackFrom
<1>3. hijacking' \in [Joints -> BOOLEAN]
  BY <1>1, <1>2, Zenon
<1>4. session' = [j \in Joints |-> IF hijacking'[j] /\ ~hijacking[j] THEN session[j] + 1 ELSE session[j]]
  BY Zenon DEF Hijack, HijackFrom
<1>5. desired' = [j \in Joints |-> IF hijacking'[j] /\ ~hijacking[j] THEN session[j] + 1 ELSE desired[j]]
  BY SMT DEF Hijack, HijackFrom
<1>6. session' \in [Joints -> Nat] /\ desired' \in [Joints -> Nat]
  BY <1>4, <1>5, SMT DEF TypeOK
<1>7. QED
  BY <1>3, <1>6

LEMMA RemoteTypes ==
  ASSUME NEW modes, NEW wanted, Remote(modes, wanted), TypeOK,
         DOMAIN modes \subseteq Joints, \A j \in DOMAIN modes : modes[j] \in Modes,
         DOMAIN wanted \subseteq Joints, \A j \in DOMAIN wanted : wanted[j] \in Modes
  PROVE  /\ board' \in [Joints -> Modes] /\ asked' \in [Joints -> Modes]
         /\ foreign' \in SUBSET Joints /\ answer' \in BOOLEAN /\ disturbed' \in 0..MaxForeign
<1>1. \A m \in Modes : Forwarded(m) \in Modes
  BY DEF Forwarded, Modes
<1>2. foreign' \in SUBSET Joints /\ answer' \in BOOLEAN
  BY DEF Remote, TypeOK
<1>3. disturbed' = disturbed \/ (disturbed < MaxForeign /\ disturbed' = disturbed + 1)
  BY DEF Remote
<1>4. disturbed' \in 0..MaxForeign
  BY <1>3, BoundsAssumption DEF TypeOK
<1>5. board' = board \/ board' = [j \in Joints |-> IF j \in DOMAIN modes THEN Forwarded(modes[j]) ELSE board[j]]
  BY DEF Remote
<1>6. board' \in [Joints -> Modes]
  BY <1>1, <1>5 DEF TypeOK
<1>7. asked' = asked \/ asked' = [j \in Joints |-> IF j \in DOMAIN wanted THEN wanted[j] ELSE asked[j]]
  BY DEF Remote
<1>8. asked' \in [Joints -> Modes]
  BY <1>7 DEF TypeOK
<1>9. QED
  BY <1>2, <1>4, <1>6, <1>8

\* What a client asks for is modes of joints.
LEMMA AskedTypes ==
  ASSUME NEW c \in Clients, TypeOK, call[c].kind \in {"modes", "whole"}
  PROVE  /\ DOMAIN Asked(c) \subseteq Joints
         /\ \A j \in DOMAIN Asked(c) : Asked(c)[j] \in Modes
         /\ DOMAIN call[c].modes \subseteq Joints
         /\ \A j \in DOMAIN call[c].modes : call[c].modes[j] \in Modes
<1>1. call[c] \in Calls /\ buffer \in [Joints -> Modes]
  BY DEF TypeOK
<1>2. QED
  BY <1>1, RequestTypes DEF Asked

LEMMA TypeOfCall ==
  ASSUME NEW c \in Clients, Types, Call(c)
  PROVE  Types'
<1>1. call' \in [Clients -> Calls] /\ calls' \in 0..MaxCalls
  BY BoundsAssumption DEF Types, TypeOK, Call, Calls, Modes
<1>2. \A d \in Clients \ {c} : call'[d] = call[d]
  BY DEF Types, TypeOK, Call
<1>3. call'[c].kind = "whole" => call'[c].modes \in [Joints -> Modes]
  BY RequestTypes DEF Types, TypeOK, Call, Modes
<1>4. /\ pc' = [pc EXCEPT ![c] = IF call'[c].kind = "whole" THEN "fill" ELSE "wait"]
      /\ UNCHANGED <<config, mutex, hijacking, board, buffer, session, desired, threadVars,
                     ghosts, answer, disturbed>>
  BY DEF Call
<1>5. TypeOK'
  BY <1>1, <1>4 DEF Types, TypeOK, config, loop, threadVars, ghosts
<1>6. CallsWhatItSays'
  BY <1>2, <1>3, <1>4 DEF Types, TypeOK, CallsWhatItSays
<1>7. QED
  BY <1>5, <1>6 DEF Types

LEMMA TypeOfSetControlModes ==
  ASSUME NEW c \in Clients, Types, SetControlModes(c)
  PROVE  Types'
<1>1. call[c].kind \in {"modes", "whole"} /\ pc' = [pc EXCEPT ![c] = "idle"] /\ UNCHANGED <<call, calls>>
  BY DEF SetControlModes, SetControlModesWhen, Return
<1>2. UNCHANGED <<config, mutex, threadVars>>
  BY DEF SetControlModes, SetControlModesWhen
<1>3. CASE "mode" \in views /\ ~streaming
  <2>1. /\ Hijack(Asked(c)) /\ Remote(Asked(c), call[c].modes)
        /\ buffer' = IF call[c].kind = "whole" THEN [j \in Joints |-> Forwarded(buffer[j])] ELSE buffer
    BY <1>3 DEF SetControlModes, SetControlModesWhen
  <2>2. /\ hijacking' \in [Joints -> BOOLEAN] /\ session' \in [Joints -> Nat]
        /\ desired' \in [Joints -> Nat]
    BY <2>1, HijackTypes DEF Types
  <2>3. /\ board' \in [Joints -> Modes] /\ asked' \in [Joints -> Modes]
        /\ foreign' \in SUBSET Joints /\ answer' \in BOOLEAN /\ disturbed' \in 0..MaxForeign
    BY <1>1, <2>1, AskedTypes, RemoteTypes DEF Types
  <2>4. buffer' \in [Joints -> Modes]
    BY <2>1 DEF Types, TypeOK, Forwarded, Modes
  <2>5. QED
    BY <1>1, <1>2, <2>2, <2>3, <2>4 DEF Types, TypeOK, CallsWhatItSays, config, loop, threadVars
<1>4. CASE ~("mode" \in views /\ ~streaming)
  <2>1. UNCHANGED <<hijacking, session, desired, board, ghosts, buffer, answer, disturbed>>
    BY <1>4 DEF SetControlModes, SetControlModesWhen
  <2>2. QED
    BY <1>1, <1>2, <2>1 DEF Types, TypeOK, CallsWhatItSays, config, loop, threadVars, ghosts
<1>5. QED
  BY <1>3, <1>4

LEMMA TypeOfStep ==
  ASSUME NEW c \in Clients, Types, Step(c)
  PROVE  Types'
<1> USE DEF Types, TypeOK, CallsWhatItSays
<1>1. CASE Fill(c)
  BY <1>1 DEF Fill, config, loop, threadVars, ghosts
<1>2. CASE SetControlModes(c)
  BY <1>2, TypeOfSetControlModes
<1>3. CASE StartRefs(c)
  BY <1>3 DEF StartRefs, config, loop, threadVars, ghosts
<1>4. ASSUME NEW j \in Joints, WriteRef(c, j)
      PROVE  Types'
  <2>1. call[c] \in [kind : {"refs"}, joints : SUBSET Joints]
    BY <1>4 DEF WriteRef, Calls
  <2>2. [call[c] EXCEPT !.joints = @ \ {j}] \in [kind : {"refs"}, joints : SUBSET Joints]
    BY <2>1
  <2>3. call' = [call EXCEPT ![c] = [call[c] EXCEPT !.joints = @ \ {j}]]
    BY <1>4 DEF WriteRef
  <2>4. call' \in [Clients -> Calls] /\ call'[c].kind = "refs"
    BY <2>2, <2>3 DEF Calls
  <2>5. \A d \in Clients \ {c} : call'[d] = call[d]
    BY <2>3
  <2>6. desired' \in [Joints -> Nat]
    BY <1>4 DEF WriteRef
  <2>7. pc' \in [Clients -> {"idle", "fill", "wait", "write", "stuck"}] /\ pc'[c] # "fill"
        /\ \A d \in Clients \ {c} : pc'[d] = pc[d]
    BY <1>4 DEF WriteRef
  <2>8. UNCHANGED <<config, mutex, hijacking, board, buffer, session, threadVars, ghosts, answer,
                    calls, disturbed>>
    BY <1>4 DEF WriteRef
  <2>9. QED
    BY <2>4, <2>5, <2>6, <2>7, <2>8 DEF config, loop, threadVars, ghosts
<1>5. CASE LockOnly(c)
  BY <1>5 DEF LockOnly, Return, config, loop, threadVars, ghosts
<1>6. CASE SetTorquePids(c)
  BY <1>6 DEF SetTorquePids, config, loop, threadVars, ghosts
<1>7. CASE Forward(c)
  <2>1. answer' \in BOOLEAN
    BY <1>7 DEF Forward, Through, Encoders, PositionControl, PositionStop, VelocityControl,
               TorqueErrors, ControlLimits, InteractionMode, AxisInfo, PidControl
  <2>2. QED
    BY <1>7, <2>1 DEF Forward, Return, config, loop, threadVars, ghosts
<1>8. QED
  BY <1>1, <1>2, <1>3, <1>4, <1>5, <1>6, <1>7 DEF Step

\* What computeOutputMotorTorques computes is terms of joints.
LEMMA ComputeTypes ==
  ASSUME TypeOK, Compute
  PROVE  /\ integral' \in [Joints -> SUBSET Nat]
         /\ nan' \in {"never", "once", "kept"}
         /\ disturbed' \in 0..MaxForeign
         /\ computed' \in [Joints -> SUBSET Terms]
<1>1. ASSUME NEW k \in Joints PROVE Summed(k) \in SUBSET Nat /\ Term(k) \in Terms
  BY DEF TypeOK, Summed, Term, Terms
<1>2. \A j \in Joints : Mixed(j) \in SUBSET Terms
  BY <1>1, CoupledAssumption DEF Mixed
<1>3. integral' = [k \in Joints |-> Summed(k)]
  BY DEF Compute
<1>4. integral' \in [Joints -> SUBSET Nat]
  BY <1>1, <1>3
<1>5. nan' \in {"never", "once", "kept"}
  BY DEF Compute, TypeOK
<1>6. disturbed' = disturbed \/ (disturbed < MaxForeign /\ disturbed' = disturbed + 1)
  BY DEF Compute
<1>7. disturbed' \in 0..MaxForeign
  BY <1>6, BoundsAssumption DEF TypeOK
<1>8. \/ computed' = [j \in Joints |-> IF nan = "kept" THEN {} ELSE Mixed(j)]
      \/ computed' = [j \in Joints |-> {}]
  BY DEF Compute
<1>9. computed' \in [Joints -> SUBSET Terms]
  BY <1>2, <1>8
<1>10. QED
  BY <1>4, <1>5, <1>7, <1>9

LEMMA TypeInductive == Types /\ [Next]_vars => Types'
<1> SUFFICES ASSUME Types, [Next]_vars PROVE Types'
  OBVIOUS
<1>1. ASSUME NEW c \in Clients, Call(c) PROVE Types'
  BY <1>1, TypeOfCall
<1>2. ASSUME NEW c \in Clients, Step(c) PROVE Types'
  BY <1>2, TypeOfStep
<1>3. CASE RunBegin
  BY <1>3 DEF Types, TypeOK, CallsWhatItSays, RunBegin, RunBeginWith, config, loop, ghosts, clientVars
<1>4. CASE Compute
  <2>1. /\ run' \in {"asleep", "compute", "send"}
        /\ UNCHANGED <<config, mutex, hijacking, board, buffer, session, desired, output, ghosts,
                       clientVars>>
    BY <1>4 DEF Compute
  <2>2. QED
    BY <1>4, <2>1, ComputeTypes DEF Types, TypeOK, CallsWhatItSays, config, ghosts, clientVars
<1>5. CASE Send
  BY <1>5 DEF Types, TypeOK, CallsWhatItSays, Send, SendTo, Unlocked, config, loop, ghosts, clientVars
<1>6. ASSUME NEW j \in Joints, SetDirectly(j) PROVE Types'
  BY <1>6, BoundsAssumption
  DEF Types, TypeOK, CallsWhatItSays, SetDirectly, Modes, config, loop, threadVars, clientVars
<1>7. CASE UNCHANGED vars
  BY <1>7 DEF Types, TypeOK, CallsWhatItSays, vars, config, loop, threadVars, ghosts, clientVars
<1>8. QED
  BY <1>1, <1>2, <1>3, <1>4, <1>5, <1>6, <1>7 DEF Next

LEMMA InitTypes == Init => Types
<1> SUFFICES ASSUME Init PROVE Types
  OBVIOUS
<1>1. Whole("position") \in [Joints -> Modes]
  BY RequestTypes DEF Modes
<1>2. [kind |-> "forward"] \in Calls
  BY DEF Calls
<1>3. call \in [Clients -> Calls] /\ pc \in [Clients -> {"idle", "fill", "wait", "write", "stuck"}]
  BY <1>2 DEF Init
<1>4. views \in SUBSET Interfaces
  BY DEF Init, Interfaces, OpenViews
<1>5. hijacking \in [Joints -> BOOLEAN] /\ mutex \in Clients \cup {"thread", "free"}
  BY Zenon DEF Init
<1>6. /\ session \in [Joints -> Nat] /\ desired \in [Joints -> Nat]
      /\ integral \in [Joints -> SUBSET Nat]
      /\ computed \in [Joints -> SUBSET Terms] /\ output \in [Joints -> SUBSET Terms]
      /\ calls \in 0..MaxCalls /\ disturbed \in 0..MaxForeign
  BY BoundsAssumption, SMT DEF Init
<1>7. /\ streaming \in BOOLEAN /\ answer \in BOOLEAN /\ foreign \in SUBSET Joints
      /\ run \in {"asleep", "compute", "send"} /\ nan \in {"never", "once", "kept"}
      /\ board \in [Joints -> Modes] /\ buffer \in [Joints -> Modes] /\ asked \in [Joints -> Modes]
  BY <1>1, Zenon DEF Init
<1>8. TypeOK
  BY <1>3, <1>4, <1>5, <1>6, <1>7, Zenon DEF TypeOK
<1>9. CallsWhatItSays
  BY DEF Init, CallsWhatItSays
<1>10. QED
  BY <1>8, <1>9 DEF Types

\* The variables keep their types: no index leaves the joints of the board, whatever
\* modes are asked (setControlModes, JointTorqueControl.cpp:402-449).
THEOREM TypeCorrect == Spec => []TypeOK
<1>1. Types => TypeOK
  BY DEF Types
<1>2. QED
  BY <1>1, InitTypes, TypeInductive, PTL DEF Spec

--------------------------------------------------------------------------------
(* What the thread may assume of the outputs it sends *)

\* The thread has globalMutex exactly while it runs
Owned == mutex = "thread" <=> run # "asleep"

\* The reference of every joint, hijacked or not, is of its last session
Fresh == \A j \in Joints : desired[j] = session[j]

\* The integrals have summed no reference that has not been written yet
SummedSoFar == \A j \in Joints : \A n \in integral[j] : n <= session[j]

\* An output of joint j that may be sent: see DrivesOnlyTheHijacked
Sendable(j, terms) ==
  /\ IF terms = {} THEN nan # "never" ELSE {t.joint : t \in terms} = Coupled[j]
  /\ \A t \in terms : /\ t.reference = session[t.joint]
                      /\ t.summed \subseteq 0..session[t.joint]

\* While the thread holds the mutex nobody starts a session, so the outputs it computed
\* are of the current ones when it sends them
Current == run = "send" => \A j \in Joints : Sendable(j, computed[j])

Driving == Types /\ Owned /\ Fresh /\ SummedSoFar /\ Current

\* Hijacking a joint leaves no reference of an earlier session in force.
LEMMA HijackDiscards ==
  ASSUME NEW modes, TypeOK, Fresh, SummedSoFar, UNCHANGED integral, Hijack(modes)
  PROVE  Fresh' /\ SummedSoFar'
<1>1. session' = [j \in Joints |-> IF hijacking'[j] /\ ~hijacking[j] THEN session[j] + 1 ELSE session[j]]
  BY Zenon DEF Hijack, HijackFrom
<1>2. desired' = [j \in Joints |-> IF hijacking'[j] /\ ~hijacking[j] THEN session[j] + 1 ELSE desired[j]]
  BY SMT DEF Hijack, HijackFrom
<1>3. \A j \in Joints : session[j] \in Nat /\ \A n \in integral[j] : n \in Nat
  BY DEF TypeOK
<1>4. Fresh'
  BY <1>1, <1>2 DEF Fresh
<1>5. SummedSoFar'
  BY <1>1, <1>3 DEF SummedSoFar
<1>6. QED
  BY <1>4, <1>5

\* What computeOutputMotorTorques computes may be sent.
LEMMA ComputeIsSendable ==
  ASSUME TypeOK, Fresh, SummedSoFar, Compute
  PROVE  SummedSoFar' /\ Current'
<1>1. ASSUME NEW k \in Joints
      PROVE  /\ Term(k).joint = k /\ Term(k).reference = session[k]
             /\ Term(k).summed = Summed(k)
             /\ Summed(k) \subseteq 0..session[k]
  BY DEF TypeOK, Fresh, SummedSoFar, Term, Summed
<1>2. integral' = [k \in Joints |-> Summed(k)] /\ UNCHANGED session
  BY DEF Compute
<1>3. SummedSoFar'
  BY <1>1, <1>2 DEF SummedSoFar
<1>4. ASSUME NEW j \in Joints PROVE Sendable(j, computed[j])'
  <2>1. CASE computed' = [i \in Joints |-> {}] /\ nan' # "never"
    BY <2>1 DEF Sendable
  <2>2. CASE /\ computed' = [i \in Joints |-> IF nan = "kept" THEN {} ELSE Mixed(i)]
             /\ UNCHANGED nan
    <3>1. CASE nan = "kept"
      BY <2>2, <3>1 DEF Sendable
    <3>2. CASE nan # "kept"
      <4>1. computed'[j] = Mixed(j)
        BY <2>2, <3>2
      <4>2. Coupled[j] \subseteq Joints /\ Coupled[j] # {}
        BY CoupledAssumption
      <4>3. {t.joint : t \in Mixed(j)} = Coupled[j] /\ Mixed(j) # {}
        BY <1>1, <4>2 DEF Mixed
      <4>4. \A t \in Mixed(j) : /\ t.reference = session[t.joint]
                                /\ t.summed \subseteq 0..session[t.joint]
        BY <1>1, <4>2 DEF Mixed
      <4>5. QED
        BY <1>2, <4>1, <4>3, <4>4 DEF Sendable
    <3>3. QED
      BY <3>1, <3>2
  <2>3. QED
    BY <2>1, <2>2 DEF Compute, TypeOK
<1>5. QED
  BY <1>3, <1>4 DEF Current

LEMMA DrivingStep ==
  ASSUME NEW c \in Clients, Driving, Types', Step(c)
  PROVE  Driving'
<1> USE DEF Driving, Owned, Fresh, SummedSoFar
<1>a. ASSUME UNCHANGED <<session, threadVars>> PROVE SummedSoFar' /\ Current'
  BY <1>a DEF Current, Sendable, threadVars, loop
<1>1. CASE Fill(c)
  BY <1>1, <1>a DEF Fill, threadVars
<1>2. CASE SetControlModes(c)
  <2>1. mutex = "free" /\ UNCHANGED <<mutex, threadVars>>
    BY <1>2 DEF SetControlModes, SetControlModesWhen
  <2>2. Owned' /\ Current' /\ UNCHANGED integral
    BY <2>1 DEF threadVars, loop, Current
  <2>3. Hijack(Asked(c)) \/ UNCHANGED <<hijacking, session, desired>>
    BY <1>2 DEF SetControlModes, SetControlModesWhen
  <2>4. Fresh' /\ SummedSoFar'
    <3>1. CASE Hijack(Asked(c))
      BY <2>2, <3>1, HijackDiscards DEF Types
    <3>2. CASE UNCHANGED <<hijacking, session, desired>>
      BY <2>2, <3>2
    <3>3. QED
      BY <2>3, <3>1, <3>2
  <2>5. QED
    BY <2>2, <2>4
<1>3. CASE StartRefs(c)
  BY <1>3, <1>a DEF StartRefs, threadVars
<1>4. ASSUME NEW j \in Joints, WriteRef(c, j) PROVE Driving'
  <2>1. Fresh' /\ UNCHANGED <<mutex, session, threadVars>>
    BY <1>4 DEF WriteRef, Types, TypeOK
  <2>2. QED
    BY <1>a, <2>1 DEF threadVars
<1>5. CASE LockOnly(c)
  BY <1>5, <1>a DEF LockOnly, Return, threadVars
<1>6. CASE SetTorquePids(c)
  BY <1>6, <1>a, ClientsAssumption DEF SetTorquePids, threadVars
<1>7. CASE Forward(c)
  BY <1>7, <1>a DEF Forward, Return, threadVars
<1>8. QED
  BY <1>1, <1>2, <1>3, <1>4, <1>5, <1>6, <1>7 DEF Step

LEMMA DrivingInductive == Driving /\ [Next]_vars => Driving'
<1> SUFFICES ASSUME Driving, [Next]_vars PROVE Driving'
  OBVIOUS
<1>0. Types'
  BY TypeInductive DEF Driving
<1> USE DEF Driving, Owned, Fresh
<1>a. ASSUME UNCHANGED <<session, threadVars>> PROVE SummedSoFar' /\ Current'
  BY <1>a DEF Current, SummedSoFar, Sendable, threadVars, loop
<1>1. ASSUME NEW c \in Clients, Call(c) PROVE Driving'
  BY <1>0, <1>a, <1>1 DEF Call, threadVars
<1>2. ASSUME NEW c \in Clients, Step(c) PROVE Driving'
  BY <1>0, <1>2, DrivingStep
<1>3. CASE RunBegin
  <2>1. /\ run' = "compute" /\ mutex' = "thread" /\ UNCHANGED <<session, loop>>
        /\ \A j \in Joints : desired'[j] = desired[j] \/ desired'[j] = session[j]
    BY <1>3 DEF RunBegin, RunBeginWith
  <2>2. SummedSoFar' /\ Current'
    BY <2>1 DEF SummedSoFar, Current, loop
  <2>3. QED
    BY <1>0, <2>1, <2>2
<1>4. CASE Compute
  <2>1. SummedSoFar' /\ Current'
    BY <1>4, ComputeIsSendable DEF Types
  <2>2. QED
    BY <1>0, <1>4, <2>1 DEF Compute
<1>5. CASE Send
  <2>1. SummedSoFar' /\ Current'
    BY <1>5 DEF Send, SendTo, SummedSoFar, Current, loop
  <2>2. QED
    BY <1>0, <1>5, <2>1 DEF Send, SendTo, Unlocked
<1>6. ASSUME NEW j \in Joints, SetDirectly(j) PROVE Driving'
  BY <1>0, <1>a, <1>6 DEF SetDirectly, threadVars
<1>7. CASE UNCHANGED vars
  BY <1>0, <1>a, <1>7 DEF vars, threadVars
<1>8. QED
  BY <1>1, <1>2, <1>3, <1>4, <1>5, <1>6, <1>7 DEF Next

LEMMA InitDriving == Init => Driving
<1> SUFFICES ASSUME Init PROVE Driving
  OBVIOUS
<1>1. Owned /\ Current
  BY DEF Init, Owned, Current
<1>2. Fresh /\ SummedSoFar
  BY DEF Init, Fresh, SummedSoFar
<1>3. QED
  BY <1>1, <1>2, InitTypes DEF Driving

\* A hijacked joint has a reference of its session, whoever writes references and
\* switches joints in between (JointTorqueControl.cpp:50-57).
THEOREM NoOldReference == Spec => []DiscardsOldReferences
<1>1. Driving => DiscardsOldReferences
  BY DEF Driving, Fresh, DiscardsOldReferences
<1>2. QED
  BY <1>1, InitDriving, DrivingInductive, PTL DEF Spec

\* The thread sends a joint an output only while it is hijacked, made of the terms of the
\* joints coupled with it, each with the reference of its last session: because run()
\* keeps globalMutex from the computation to the sending, and no client switches a joint
\* without it.  Their integrals may have summed earlier sessions, never later ones (824-948).
THEOREM DrivesTheHijacked == Spec => DrivesOnlyTheHijacked
<1>1. ASSUME Driving, [Next]_vars, NEW j \in Joints, output'[j] # output[j]
      PROVE  hijacking[j] /\ Sendable(j, output'[j])
  <2>1. CASE Send
    BY <1>1, <2>1 DEF Send, SendTo, Driving, Current, Types, TypeOK
  <2>2. CASE ~Send
    <3>1. UNCHANGED output
      BY <1>1, <2>2
      DEF Next, Call, Step, Fill, SetControlModes, SetControlModesWhen, StartRefs, WriteRef, LockOnly,
          SetTorquePids, Forward, RunBegin, RunBeginWith, Compute, SetDirectly, threadVars, vars
    <3>2. QED
      BY <1>1, <3>1
  <2>3. QED
    BY <2>1, <2>2
<1>2. Driving /\ [Next]_vars =>
        [\A j \in Joints : output'[j] # output[j] =>
           /\ hijacking[j]
           /\ IF output'[j] = {} THEN nan # "never"
              ELSE {t.joint : t \in output'[j]} = Coupled[j]
           /\ \A t \in output'[j] : /\ t.reference = session[t.joint]
                                   /\ t.summed \subseteq 0..session[t.joint]]_vars
  BY <1>1 DEF Sendable
<1>3. QED
  BY <1>2, InitDriving, DrivingInductive, PTL DEF Spec, DrivesOnlyTheHijacked

--------------------------------------------------------------------------------
(* The modes the device reports *)

\* What the two sides of a joint that nobody else touched hold for the mode asked
Agreed ==
  "mode" \in views /\ ~streaming =>
    \A j \in Joints \ foreign :
      IF asked[j] = "torque" THEN hijacking[j] /\ board[j] = "openloop"
                             ELSE ~hijacking[j] /\ board[j] = asked[j]

\* Where the whole board is being switched, the buffer is what was asked
Switching ==
  \A c \in Clients :
    /\ pc[c] = "fill" => call[c].kind = "whole"
    /\ pc[c] \in {"fill", "wait"} /\ call[c].kind = "whole" => c \in WholeCallers
    /\ pc[c] = "wait" /\ call[c].kind = "whole" => buffer = call[c].modes

Reporting == Types /\ Agreed /\ Switching

LEMMA SwitchAgrees ==
  ASSUME NEW modes, TypeOK, Agreed, Hijack(modes), Remote(modes, modes), UNCHANGED config,
         \A j \in DOMAIN modes : modes[j] \in Modes
  PROVE  Agreed'
<1>1. hijacking' = [j \in Joints |-> IF j \in DOMAIN modes THEN modes[j] = "torque" ELSE hijacking[j]]
  BY Zenon DEF Hijack, HijackFrom
<1>2. ASSUME NEW j \in Joints \ foreign', "mode" \in views, ~streaming
      PROVE  IF asked'[j] = "torque" THEN hijacking'[j] /\ board'[j] = "openloop"
                                     ELSE ~hijacking'[j] /\ board'[j] = asked'[j]
  <2>1. CASE j \in DOMAIN modes
    <3>1. board'[j] = Forwarded(modes[j]) /\ asked'[j] = modes[j]
      BY <1>2, <2>1 DEF Remote
    <3>2. hijacking'[j] <=> modes[j] = "torque"
      BY <1>1, <1>2, <2>1
    <3>3. QED
      BY <3>1, <3>2 DEF Forwarded
  <2>2. CASE j \notin DOMAIN modes
    <3>1. board'[j] = board[j] /\ asked'[j] = asked[j] /\ j \notin foreign
      BY <1>2, <2>2 DEF Remote
    <3>2. hijacking'[j] = hijacking[j]
      BY <1>1, <1>2, <2>2
    <3>3. QED
      BY <1>2, <3>1, <3>2 DEF Agreed
  <2>3. QED
    BY <2>1, <2>2
<1>3. QED
  BY <1>2 DEF Agreed, config

LEMMA ReportingStep ==
  ASSUME NEW c \in Clients, Reporting, Types', Step(c), \A x, y \in WholeCallers : x = y
  PROVE  Reporting'
<1> USE DEF Reporting, Switching
<1>1. CASE Fill(c)
  <2>1. Switching'
    BY <1>1 DEF Fill, Types, TypeOK
  <2>2. QED
    BY <1>1, <2>1 DEF Fill, Agreed, config, ghosts
<1>2. CASE SetControlModes(c)
  <2>1. /\ pc' = [pc EXCEPT ![c] = "idle"] /\ UNCHANGED <<call, config>>
        /\ pc[c] = "wait" /\ call[c].kind \in {"modes", "whole"}
    BY <1>2 DEF SetControlModes, SetControlModesWhen, Return
  <2>2. CASE "mode" \in views /\ ~streaming
    <3>1. /\ Hijack(Asked(c)) /\ Remote(Asked(c), call[c].modes)
          /\ call[c].kind # "whole" => buffer' = buffer
      BY <1>2, <2>2 DEF SetControlModes, SetControlModesWhen
    <3>2. Asked(c) = call[c].modes /\ \A j \in DOMAIN Asked(c) : Asked(c)[j] \in Modes
      BY <2>1, AskedTypes DEF Asked, Types
    <3>3. Agreed'
      BY <2>1, <3>1, <3>2, SwitchAgrees DEF Types
    <3>4. Switching'
      BY <2>1, <3>1 DEF Types, TypeOK
    <3>5. QED
      BY <3>3, <3>4
  <2>3. CASE ~("mode" \in views /\ ~streaming)
    <3>1. UNCHANGED buffer
      BY <1>2, <2>3 DEF SetControlModes, SetControlModesWhen
    <3>2. Agreed'
      BY <2>1, <2>3 DEF Agreed, config
    <3>3. Switching'
      BY <2>1, <3>1 DEF Types, TypeOK
    <3>4. QED
      BY <3>2, <3>3
  <2>4. QED
    BY <2>2, <2>3
<1>3. CASE StartRefs(c)
  BY <1>3 DEF StartRefs, Agreed, config, ghosts, Types, TypeOK
<1>4. ASSUME NEW j \in Joints, WriteRef(c, j) PROVE Reporting'
  <2>1. \A d \in Clients \ {c} : call'[d] = call[d] /\ pc'[d] = pc[d]
    BY <1>4 DEF WriteRef, Types, TypeOK
  <2>2. pc'[c] \in {"idle", "write"} /\ UNCHANGED buffer
    BY <1>4 DEF WriteRef, Types, TypeOK
  <2>3. Switching'
    BY <2>1, <2>2
  <2>4. QED
    BY <1>4, <2>3 DEF WriteRef, Agreed, config, ghosts
<1>5. CASE LockOnly(c)
  BY <1>5 DEF LockOnly, Return, Agreed, config, ghosts, Types, TypeOK
<1>6. CASE SetTorquePids(c)
  BY <1>6 DEF SetTorquePids, Agreed, config, ghosts, Types, TypeOK
<1>7. CASE Forward(c)
  BY <1>7 DEF Forward, Return, Agreed, config, ghosts, Types, TypeOK
<1>8. QED
  BY <1>1, <1>2, <1>3, <1>4, <1>5, <1>6, <1>7 DEF Step

LEMMA ReportingInductive ==
  ASSUME \A x, y \in WholeCallers : x = y
  PROVE  Reporting /\ [Next]_vars => Reporting'
<1> SUFFICES ASSUME Reporting, [Next]_vars PROVE Reporting'
  OBVIOUS
<1>0. Types'
  BY TypeInductive DEF Reporting
<1> USE DEF Reporting, Switching
<1>1. ASSUME NEW c \in Clients, Call(c) PROVE Reporting'
  <2>1. /\ \A d \in Clients \ {c} : call'[d] = call[d] /\ pc'[d] = pc[d]
        /\ pc'[c] = IF call'[c].kind = "whole" THEN "fill" ELSE "wait"
        /\ call'[c].kind = "whole" => c \in WholeCallers
        /\ UNCHANGED buffer
    <3>1. \A d \in Clients \ {c} : call'[d] = call[d] /\ pc'[d] = pc[d]
      BY <1>1 DEF Call, Types, TypeOK
    <3>2. pc'[c] = IF call'[c].kind = "whole" THEN "fill" ELSE "wait"
      BY <1>1 DEF Call, Types, TypeOK
    <3>3. call'[c].kind = "whole" => c \in WholeCallers
      BY <1>1 DEF Call, Types, TypeOK
    <3>4. UNCHANGED buffer
      BY <1>1 DEF Call
    <3>5. QED
      BY <3>1, <3>2, <3>3, <3>4
  <2>2. Switching'
    BY <2>1
  <2>3. QED
    BY <1>0, <1>1, <2>2 DEF Call, Agreed, config, ghosts
<1>2. ASSUME NEW c \in Clients, Step(c) PROVE Reporting'
  BY <1>0, <1>2, ReportingStep
<1>3. CASE RunBegin
  BY <1>0, <1>3 DEF RunBegin, RunBeginWith, Agreed, config, ghosts, clientVars
<1>4. CASE Compute
  BY <1>0, <1>4 DEF Compute, Agreed, config, ghosts, clientVars
<1>5. CASE Send
  BY <1>0, <1>5 DEF Send, SendTo, Agreed, config, ghosts, clientVars
<1>6. ASSUME NEW j \in Joints, SetDirectly(j) PROVE Reporting'
  BY <1>0, <1>6 DEF SetDirectly, Agreed, config, clientVars, Types, TypeOK
<1>7. CASE UNCHANGED vars
  BY <1>0, <1>7 DEF vars, Agreed, config, ghosts, clientVars
<1>8. QED
  BY <1>1, <1>2, <1>3, <1>4, <1>5, <1>6, <1>7 DEF Next

\* When no more than one client switches the whole board, which shares controlModesBuffer,
\* the getters answer the mode last asked for every joint nobody else touched (359-449).
THEOREM ReportsTheMode ==
  ASSUME \A x, y \in WholeCallers : x = y
  PROVE  Spec => []ReportsTheAskedMode
<1>1. Init => Reporting
  BY InitTypes DEF Init, Reporting, Agreed, Switching, Whole
<1>2. Reporting => ReportsTheAskedMode
  BY DEF Reporting, Agreed, ReportsTheAskedMode, ModeOf, ModesOf
<1>3. QED
  BY <1>1, <1>2, ReportingInductive, PTL DEF Spec

================================================================================
