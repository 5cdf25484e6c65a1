-------------------------- MODULE FTCalibration_proofs --------------------------
(***************************************************************************)
(* What holds of FTCalibration for any clients, sensors, codes and numbers *)
(* of samples, refused commands and the deadlocks they cause included.     *)
(***************************************************************************)
EXTENDS FTCalibration, TLAPS

LEMMA Constants ==
  /\ Nobody \notin Clients
  /\ Codes \subseteq SUBSET Sensors
  /\ SampleCounts \subseteq Int
  /\ StartupSamples \in Nat /\ StartupSamples > 0
BY NobodyAssumption, CodesAssumption, SampleCountsAssumption, StartupAssumption

LEMMA BaseTypes == \A method : BaseOf(method) \in Bases
BY DEF BaseOf, Bases

LEMMA CallTypes ==
  ASSUME NEW k \in Calls
  PROVE  /\ k.samples \in SampleCounts \cup {StartupSamples}
         /\ k.samples \in Int
         /\ k.code # NoCode => k.code \subseteq Sensors
<1>1. k.samples \in SampleCounts \cup {StartupSamples} /\ k.code \in Codes \cup {NoCode, Sensors}
  BY DEF Calls
<1>2. k.code # NoCode => k.code \subseteq Sensors
  <2>1. CASE k.code \in Codes
    BY <2>1, CodesAssumption
  <2>2. CASE k.code = Sensors
    BY <2>2
  <2>3. QED
    BY <1>1, <2>1, <2>2
<1>3. k.samples \in Int
  <2>1. SampleCounts \cup {StartupSamples} \subseteq Int
    BY SampleCountsAssumption, StartupAssumption
  <2>2. QED
    BY <1>1, <2>1, Zenon
<1>4. QED
  BY <1>1, <1>2, <1>3

LEMMA StartupCall == Startup \in Calls
BY Constants DEF Startup, Calls, Methods

LEMMA SummedType == TypeOK => Summed \in [Sensors -> Nat]
BY DEF TypeOK, Summed

--------------------------------------------------------------------------------

LEMMA TypeInductive == TypeOK /\ [Next]_vars => TypeOK'
<1> SUFFICES ASSUME TypeOK, [Next]_vars PROVE TypeOK'
  OBVIOUS
<1>1. ASSUME NEW c \in Clients, Call(c) PROVE TypeOK'
  <2>1. call' \in [Clients -> Calls]
    <3>1. PICK k \in Calls : call' = [call EXCEPT ![c] = k]
      BY <1>1, AskedCodesAssumption DEF Call, Calls
    <3>2. QED
      BY <3>1 DEF TypeOK
  <2>2. QED
    BY <1>1, <2>1 DEF TypeOK, Call, threadVars, Locations
<1>2. ASSUME NEW c \in Clients, Request(c) PROVE TypeOK'
  <2>1. call[c].samples \in SampleCounts \cup {StartupSamples} /\ call[c].code \subseteq Sensors
    BY <1>2, CallTypes DEF TypeOK, Request, Accepted
  <2>2. QED
    BY <1>2, <2>1, BaseTypes DEF TypeOK, Request, Locations
<1>3. ASSUME NEW c \in Clients, Refuse(c) PROVE TypeOK'
  <2>1. call[c].samples \in SampleCounts \cup {StartupSamples}
    BY CallTypes DEF TypeOK
  <2>2. QED
    BY <1>3, <2>1 DEF TypeOK, Refuse, Locations
<1>4. ASSUME NEW c \in Clients, Begin(c) PROVE TypeOK'
  BY <1>4 DEF TypeOK, Begin, BeginLocked, Locations, Modes, ModeOf
<1>5. ASSUME NEW c \in Clients, Wait(c) PROVE TypeOK'
  BY <1>5 DEF TypeOK, Wait, Locations, threadVars
<1>6. ASSUME NEW c \in Clients, Answer(c) PROVE TypeOK'
  BY <1>6 DEF TypeOK, Answer, Locations, threadVars
<1>7. ASSUME NEW c \in Clients, Reset(c) PROVE TypeOK'
  BY <1>7 DEF TypeOK, Reset, Locations
<1>8. CASE Sample
  <2>1. used + 1 \in CountsOfSamples
    BY <1>8 DEF TypeOK, Sample, CountsOfSamples
  <2>2. QED
    BY <1>8, <2>1, SummedType DEF TypeOK, Sample
<1>9. CASE Complete
  <2>1. 0 \in CountsOfSamples /\ used + 1 \in Nat
    BY DEF TypeOK, CountsOfSamples
  <2>2. QED
    BY <1>9, <2>1, SummedType DEF TypeOK, Complete, Average, LastSample, NoSum, Modes, Bases
<1>10. CASE UNCHANGED vars
  BY <1>10 DEF TypeOK, vars, threadVars
<1>11. QED
  BY <1>1, <1>2, <1>3, <1>4, <1>5, <1>6, <1>7, <1>8, <1>9, <1>10
     DEF Next, Step, Calibrate

\* Every variable keeps its type, and a calibration never takes more samples than
\* somebody asked for.
THEOREM TypeCorrect == Spec => []TypeOK
<1>1. Init => TypeOK
  BY Constants, StartupCall DEF Init, TypeOK, Modes, Bases, Locations, CountsOfSamples
<1>2. QED
  BY <1>1, TypeInductive, PTL DEF Spec

--------------------------------------------------------------------------------

(***************************************************************************)
(* calibration_mutex is locked by the calibration under way, or by one     *)
(* client between the two halves of waitCalibrationDone, never by both.  A *)
(* client that is about to begin a calibration holds run_mutex.            *)
(***************************************************************************)
LockInv ==
  /\ mode # "NORMAL" => calMutex
  /\ \A c \in Clients : pc[c] = "begin" => runMutex = c
  /\ \A c \in Clients : pc[c] = "assert" => calMutex /\ mode = "NORMAL"
  /\ \A c, d \in Clients : pc[c] = "assert" /\ pc[d] = "assert" => c = d

Starting == \E c \in Clients : pc[c] = "begin"

(***************************************************************************)
(* The data of a calibration: clean when none is under way, except for     *)
(* what the client that begins the next one has set under run_mutex; and   *)
(* belonging to the calibration under way when run may continue it.        *)
(***************************************************************************)
DataInv ==
  /\ mode = "NORMAL" => used = 0 /\ buffer = [s \in Sensors |-> 0]
  /\ mode = "NORMAL" /\ ~Starting => flagged = {} /\ base = "support"
  /\ mode = "NORMAL" =>
       \A c \in Clients : pc[c] = "begin" => /\ flagged = call[c].code
                                             /\ base = BaseOf(call[c].method)
  /\ Calibrating => /\ \A s \in flagged : buffer[s] = used
                    /\ flagged \subseteq current.code
                    /\ base = BaseOf(current.method)

CInv == TypeOK /\ LockInv /\ DataInv

LEMMA LockInductive == TypeOK /\ LockInv /\ [Next]_vars => LockInv'
<1> SUFFICES ASSUME TypeOK, LockInv, [Next]_vars PROVE LockInv'
  OBVIOUS
<1> USE Constants DEF TypeOK
<1>1. ASSUME NEW c \in Clients, Call(c) PROVE LockInv'
  BY <1>1 DEF LockInv, Call, threadVars
<1>2. ASSUME NEW c \in Clients, Request(c) PROVE LockInv'
  BY <1>2 DEF LockInv, Request
<1>3. ASSUME NEW c \in Clients, Refuse(c) PROVE LockInv'
  BY <1>3 DEF LockInv, Refuse
<1>4. ASSUME NEW c \in Clients, Begin(c) PROVE LockInv'
  BY <1>4 DEF LockInv, Begin, BeginLocked
<1>5. ASSUME NEW c \in Clients, Wait(c) PROVE LockInv'
  BY <1>5 DEF LockInv, Wait, threadVars
<1>6. ASSUME NEW c \in Clients, Answer(c) PROVE LockInv'
  BY <1>6 DEF LockInv, Answer, threadVars
<1>7. ASSUME NEW c \in Clients, Reset(c) PROVE LockInv'
  BY <1>7 DEF LockInv, Reset
<1>8. CASE Sample
  BY <1>8 DEF LockInv, Sample
<1>9. CASE Complete
  BY <1>9 DEF LockInv, Complete, Average, LastSample, NoSum
<1>10. CASE UNCHANGED vars
  BY <1>10 DEF LockInv, vars, threadVars
<1>11. QED
  BY <1>1, <1>2, <1>3, <1>4, <1>5, <1>6, <1>7, <1>8, <1>9, <1>10
     DEF Next, Step, Calibrate

LEMMA DataInductive == CInv /\ [Next]_vars => DataInv'
<1> SUFFICES ASSUME TypeOK, LockInv, DataInv, [Next]_vars PROVE DataInv'
  BY DEF CInv
<1> USE Constants DEF TypeOK
<1>1. ASSUME NEW c \in Clients, Call(c) PROVE DataInv'
  BY <1>1 DEF DataInv, Starting, Calibrating, Call, threadVars
<1>2. ASSUME NEW c \in Clients, Request(c) PROVE DataInv'
  <2>1. ~Starting /\ runMutex' # Nobody
    BY <1>2 DEF Request, LockInv, Starting
  <2>2. \A d \in Clients : pc'[d] = "begin" <=> d = c
    BY <1>2, <2>1 DEF Request, Starting
  <2>3. mode = "NORMAL" => /\ flagged' = call[c].code
                           /\ base' = BaseOf(call[c].method)
    BY <1>2, <2>1 DEF Request, DataInv, BaseOf
  <2>4. QED
    BY <1>2, <2>1, <2>2, <2>3 DEF DataInv, Starting, Calibrating, Request
<1>3. ASSUME NEW c \in Clients, Refuse(c) PROVE DataInv'
  BY <1>3 DEF DataInv, Starting, Calibrating, Refuse
<1>4. ASSUME NEW c \in Clients, Begin(c) PROVE DataInv'
  <2>1. mode = "NORMAL" /\ mode' # "NORMAL"
    BY <1>4 DEF Begin, BeginLocked, LockInv, ModeOf
  <2>2. /\ flagged = call[c].code /\ base = BaseOf(call[c].method)
        /\ used = 0 /\ buffer = [s \in Sensors |-> 0]
    BY <1>4, <2>1 DEF Begin, BeginLocked, DataInv
  <2>3. QED
    BY <1>4, <2>1, <2>2 DEF Begin, BeginLocked, DataInv, Calibrating
<1>5. ASSUME NEW c \in Clients, Wait(c) PROVE DataInv'
  BY <1>5 DEF DataInv, Starting, Calibrating, Wait, threadVars
<1>6. ASSUME NEW c \in Clients, Answer(c) PROVE DataInv'
  BY <1>6 DEF DataInv, Starting, Calibrating, Answer, threadVars
<1>7. ASSUME NEW c \in Clients, Reset(c) PROVE DataInv'
  <2>1. ~Starting
    BY <1>7 DEF Reset, LockInv, Starting
  <2>2. ~Starting' /\ (Calibrating' => Calibrating)
    BY <1>7, <2>1 DEF Reset, Starting, Calibrating
  <2>3. QED
    BY <1>7, <2>1, <2>2 DEF DataInv, Reset, Starting, Calibrating
<1>8. CASE Sample
  <2>1. Calibrating /\ \A s \in flagged : buffer'[s] = used'
    BY <1>8 DEF Sample, Summed, Calibrating, DataInv
  <2>2. QED
    BY <1>8, <2>1 DEF DataInv, Calibrating, Sample
<1>9. CASE Complete
  <2>1. ~Starting'
    BY <1>9 DEF Complete, Average, LastSample, NoSum, LockInv, Starting
  <2>2. QED
    BY <1>9, <2>1 DEF DataInv, Starting, Calibrating, Complete, Average, LastSample, NoSum
<1>10. CASE UNCHANGED vars
  BY <1>10 DEF DataInv, Starting, Calibrating, vars, threadVars
<1>11. QED
  BY <1>1, <1>2, <1>3, <1>4, <1>5, <1>6, <1>7, <1>8, <1>9, <1>10
     DEF Next, Step, Calibrate

\* The inductive invariant of the two mutexes and of the calibration's data.
THEOREM Invariance == Spec => []CInv
<1>1. Init => CInv
  <2>1. Init => TypeOK
    BY Constants, StartupCall DEF Init, TypeOK, Modes, Bases, Locations, CountsOfSamples
  <2>2. Init => LockInv /\ DataInv
    BY DEF Init, LockInv, DataInv, Starting, Calibrating, Startup, BaseOf
  <2>3. QED
    BY <2>1, <2>2 DEF CInv
<1>2. CInv /\ [Next]_vars => CInv'
  BY TypeInductive, LockInductive, DataInductive DEF CInv
<1>3. QED
  BY <1>1, <1>2, PTL DEF Spec

\* The assertion of waitCalibrationDone never fails, for any number of clients.
THEOREM AssertionHoldsAlways == Spec => []AssertionHolds
<1>1. CInv => AssertionHolds
  BY DEF CInv, LockInv, AssertionHolds
<1>2. QED
  BY <1>1, Invariance, PTL

\* An offset is the average of samples of one calibration only, whatever other
\* clients do while it is under way.
THEOREM OwnSamplesOnlyAlways == Spec => []OwnSamplesOnly
<1>1. CInv => OwnSamplesOnly
  BY DEF CInv, DataInv, OwnSamplesOnly
<1>2. QED
  BY <1>1, Invariance, PTL

\* A calibration changes no sensor that its code does not name.
THEOREM OnlyAskedSensorsAlways == Spec => []OnlyAskedSensors
<1>1. CInv => OnlyAskedSensors
  BY DEF CInv, DataInv, OnlyAskedSensors
<1>2. QED
  BY <1>1, Invariance, PTL

\* The model of a calibration stands on the link its command names.
THEOREM RightBaseAlways == Spec => []RightBase
<1>1. CInv => RightBase
  BY DEF CInv, DataInv, RightBase
<1>2. QED
  BY <1>1, Invariance, PTL

--------------------------------------------------------------------------------

(***************************************************************************)
(* Clients that call one at a time, with codes the robot has sensors for   *)
(* and at least one sample, are told the truth.  Patient says what is left *)
(* to do of the one call under way at each place of its client.            *)
(***************************************************************************)
Calibrated(c) == \A s \in call[c].code : offset[s] = <<call[c].samples, call[c].samples>>

Patient ==
  /\ \A c, d \in Clients : pc[c] # "idle" /\ pc[d] # "idle" => c = d
  /\ runMutex # Nobody => pc[runMutex] = "begin"
  /\ \A c \in Clients :
       /\ pc[c] # "idle" => call[c].code \in Codes /\ call[c].samples > 0
       /\ pc[c] \in {"request", "begin"} => mode = "NORMAL"
       /\ pc[c] = "begin" \/ (pc[c] = "wait" /\ mode # "NORMAL") =>
            requested = call[c].samples /\ flagged = call[c].code /\ used < requested
       /\ pc[c] = "wait" /\ mode = "NORMAL" => Calibrated(c)
       /\ pc[c] = "assert" => Calibrated(c)

LEMMA PatientInductive ==
  ASSUME ClientsWait, AskedCodes \subseteq Codes, \A n \in SampleCounts : n > 0
  PROVE  CInv /\ Patient /\ [Next]_vars => Patient'
<1> SUFFICES ASSUME TypeOK, LockInv, DataInv, Patient, [Next]_vars PROVE Patient'
  BY DEF CInv
<1>0. \A c \in Clients : /\ call[c] \in Calls /\ call[c].samples \in Int
                         /\ pc[c] # "idle" => call[c].code # NoCode
  BY CallTypes, CodesAssumption DEF TypeOK, Patient
<1> USE Constants DEF TypeOK, Calibrated
<1>1. ASSUME NEW c \in Clients, Call(c) PROVE Patient'
  <2>1. mode = "NORMAL" /\ \A d \in Clients : pc[d] = "idle"
    BY <1>1 DEF Call
  <2>2. call'[c].code \in Codes /\ call'[c].samples > 0
    BY <1>1 DEF Call
  <2>3. QED
    BY <1>1, <2>1, <2>2 DEF Patient, Call, threadVars
<1>2. ASSUME NEW c \in Clients, Request(c) PROVE Patient'
  <2>1. /\ pc[c] = "request" /\ pc' = [pc EXCEPT ![c] = "begin"] /\ runMutex' = c
        /\ requested' = call[c].samples /\ flagged' = flagged \cup call[c].code
        /\ UNCHANGED <<mode, used, offset, call>>
    BY <1>2 DEF Request
  <2>2. mode = "NORMAL" /\ ~Starting
    BY <2>1 DEF Patient, Starting
  <2>3. flagged = {} /\ used = 0
    BY <2>2 DEF DataInv
  <2>4. QED
    BY <1>0, <2>1, <2>2, <2>3 DEF Patient
<1>3. ASSUME NEW c \in Clients, Refuse(c) PROVE Patient'
  BY <1>0, <1>3 DEF Patient, Refuse, Accepted
<1>4. ASSUME NEW c \in Clients, Begin(c) PROVE Patient'
  <2>1. /\ pc[c] = "begin" /\ pc' = [pc EXCEPT ![c] = "wait"] /\ runMutex' = Nobody /\ mode' # "NORMAL"
        /\ UNCHANGED <<requested, used, flagged, offset, call>>
    BY <1>4 DEF Begin, BeginLocked, ModeOf
  <2>2. QED
    BY <2>1 DEF Patient
<1>5. ASSUME NEW c \in Clients, Wait(c) PROVE Patient'
  <2>1. pc[c] = "wait" /\ mode = "NORMAL"
    BY <1>5 DEF Wait, LockInv
  <2>2. QED
    BY <1>5, <2>1 DEF Patient, Wait, threadVars
<1>6. ASSUME NEW c \in Clients, Answer(c) PROVE Patient'
  BY <1>6 DEF Patient, Answer, threadVars
<1>7. ASSUME NEW c \in Clients, Reset(c) PROVE Patient'
  <2>1. /\ pc[c] = "request" /\ pc' = [pc EXCEPT ![c] = "idle"]
        /\ UNCHANGED <<mode, runMutex, requested, used, call>> /\ runMutex = Nobody
    BY <1>0, <1>7 DEF Reset
  <2>2. \A d \in Clients : pc'[d] = "idle"
    BY <2>1 DEF Patient
  <2>3. QED
    BY <2>1, <2>2 DEF Patient
<1>8. CASE Sample
  BY <1>8 DEF Patient, Sample
<1>9. CASE Complete
  <2>1. /\ mode # "NORMAL" /\ runMutex = Nobody /\ mode' = "NORMAL" /\ used + 1 >= requested
        /\ UNCHANGED <<runMutex, pc, call>>
        /\ offset' = [s \in Sensors |-> IF s \in flagged THEN <<Summed[s], used + 1>> ELSE offset[s]]
    BY <1>9 DEF Complete, Average, LastSample
  <2>2. \A s \in flagged : s \in Sensors /\ Summed[s] = used + 1
    BY <2>1 DEF DataInv, Calibrating, Summed
  <2>3. ASSUME NEW c \in Clients, pc[c] # "idle" PROVE pc[c] = "wait" /\ Calibrated(c)'
    <3>1. pc[c] = "wait"
      BY <2>1, <2>3 DEF Patient, LockInv, Locations
    <3>2. requested = call[c].samples /\ flagged = call[c].code /\ used + 1 = call[c].samples
      BY <1>0, <2>1, <3>1 DEF Patient, CountsOfSamples
    <3>3. QED
      BY <2>1, <2>2, <3>1, <3>2
  <2>4. QED
    BY <2>1, <2>3 DEF Patient
<1>10. CASE UNCHANGED vars
  BY <1>10 DEF Patient, vars, threadVars
<1>11. QED
  BY <1>1, <1>2, <1>3, <1>4, <1>5, <1>6, <1>7, <1>8, <1>9, <1>10
     DEF Next, Step, Calibrate

\* When the clients take turns and ask for what there is, a command that answers true has
\* calibrated its sensors with all the samples it asked for.
THEOREM TrueMeansCalibratedInTurn ==
  ASSUME ClientsWait, AskedCodes \subseteq Codes, \A n \in SampleCounts : n > 0
  PROVE  Spec => []TrueMeansCalibrated
<1>1. Init => Patient
  BY DEF Init, Patient
<1>2. CInv /\ Patient => TrueMeansCalibrated
  BY CodesAssumption DEF Patient, Calibrated, TrueMeansCalibrated
<1>3. QED
  BY <1>1, <1>2, PatientInductive, Invariance, PTL DEF Spec

================================================================================
