------------------------ MODULE DeviceCalibration_proofs ------------------------
(***************************************************************************)
(* Proofs about DeviceCalibration, for any number of clients, frames,      *)
(* samples and commands.                                                   *)
(***************************************************************************)
EXTENDS DeviceCalibration, TLAPS

\* A number of samples converted to size_t is a size_t.
LEMMA ToSizeInRange ==
  ASSUME NEW n \in Int
  PROVE  ToSize(n) \in 0..SizeMax
BY SizeMaxAssumption, SMTT(30) DEF ToSize

LEMMA StartupIsCommand == Startup \in Commands
BY BaseLinkAssumption DEF Startup, Commands, FrameSets

\* The commands are of the declared type: their contacts are, and are not none.
LEMMA FramesOfCommand ==
  ASSUME NEW command \in Commands
  PROVE  command.frames \in Contacts /\ command.frames # {} /\ command.samples \in Int
BY SamplesAssumption DEF Commands, FrameSets, Contacts

LEMMA NoSumType == NoSum \in Sums
BY DEF NoSum, Sums

--------------------------------------------------------------------------------
(* Type correctness *)

LEMMA SetupType ==
  ASSUME TypeOK, NEW command \in Commands, Setup(command)
  PROVE  /\ contacts' \in Contacts
         /\ toUse' \in 0..SizeMax
         /\ used' \in Nat
         /\ sum' \in Sums
         /\ ongoing' \in BOOLEAN
         /\ current' \in Commands
         /\ refusedAt' \in Nat \cup {Never}
<1>1. CASE Accepted(command)
  <2>1. command.frames \in Contacts /\ ToSize(command.samples) \in 0..SizeMax
    BY FramesOfCommand, ToSizeInRange
  <2> QED BY <1>1, <2>1, NoSumType DEF Setup, SetupFrom
<1>2. CASE ~Accepted(command)
  BY <1>2 DEF Setup, Forget, TypeOK, Contacts
<1> QED BY <1>1, <1>2

LEMMA RunType ==
  ASSUME TypeOK, NEW available, RunWith(available)
  PROVE  /\ UNCHANGED <<driver, deviceMutex, configured, contacts, toUse, current, refusedAt,
                      pc, call, calls>>
         /\ thread' = "asleep"
         /\ compensated' \in BOOLEAN
BY DEF TypeOK, RunWith, Publish, clientVars

LEMMA SummedType ==
  ASSUME TypeOK
  PROVE  Summed \in Sums
BY DEF TypeOK, Summed, Sums

\* Every variable keeps its type.
THEOREM TypeCorrect == Spec => []TypeOK
<1>1. Init => TypeOK
  <2> SUFFICES ASSUME Init PROVE TypeOK OBVIOUS
  <2>1. Zero \in Averages
    BY StartupIsCommand, NoSumType DEF Zero, Averages
  <2>2. {} \in Contacts
    BY DEF Contacts
  <2>3. 0 \in 0..SizeMax /\ 0 \in 0..MaxCalls
    BY SizeMaxAssumption, MaxCallsAssumption
  <2> QED BY <2>1, <2>2, <2>3, NoSumType, StartupIsCommand DEF Init, TypeOK
<1>2. TypeOK /\ [Next]_vars => TypeOK'
  <2> SUFFICES ASSUME TypeOK, [Next]_vars PROVE TypeOK' OBVIOUS
  <2>1. CASE Attach
    BY <2>1, SetupType, StartupIsCommand DEF Attach, AttachThen, TypeOK, clientVars
  <2>2. CASE AttachReads \/ AttachFails \/ Detach \/ Stop \/ Close
    BY <2>2 DEF AttachReads, AttachFails, Detach, Stop, StopThread, Close, TypeOK, buffers,
                clientVars
  <2>3. ASSUME NEW c \in Clients, Call(c) PROVE TypeOK'
    <3>1. PICK kind \in Kinds, frames \in FrameSets, samples \in SampleCounts :
            call' = [call EXCEPT ![c] = [kind |-> kind, frames |-> frames, samples |-> samples]]
      BY <2>3 DEF Call
    <3>2. [kind |-> kind, frames |-> frames, samples |-> samples] \in Commands
      BY KindsAssumption DEF Commands
    <3>3. call' \in [Clients -> Commands]
      BY <3>1, <3>2 DEF TypeOK
    <3>4. calls' \in 0..MaxCalls
      BY <2>3, MaxCallsAssumption DEF Call, TypeOK
    <3> QED BY <2>3, <3>3, <3>4 DEF Call, TypeOK, buffers
  <2>4. ASSUME NEW c \in Clients, Calib(c) PROVE TypeOK'
    <3>1. call[c] \in Commands
      BY DEF TypeOK
    <3> QED BY <2>4, <3>1, SetupType DEF Calib, CalibThen, TypeOK
  <2>5. ASSUME NEW c \in Clients, ResetOffset(c) PROVE TypeOK'
    <3>1. Zero \in Averages
      BY StartupIsCommand, NoSumType DEF Zero, Averages
    <3> QED BY <2>5, <3>1 DEF ResetOffset, TypeOK, buffers
  <2>6. CASE Wake
    BY <2>6 DEF Wake, TypeOK, buffers, clientVars
  <2>7. CASE Estimate
    BY <2>7, RunType DEF Estimate, TypeOK
  <2>8. CASE Sample
    BY <2>8, RunType, SummedType DEF Sample, TypeOK
  <2>9. CASE Complete
    <3>1. offset' \in Averages
      BY <2>9, SummedType DEF Complete, Averages, TypeOK
    <3>2. used' \in Nat /\ sum' \in Sums
      BY <2>9, SummedType DEF Complete, TypeOK
    <3>3. RunWith(TRUE) /\ ongoing' \in BOOLEAN /\ valid' \in BOOLEAN
      BY <2>9 DEF Complete
    <3> QED BY <3>1, <3>2, <3>3, RunType DEF TypeOK
  <2>10. CASE UNCHANGED vars
    BY <2>10 DEF TypeOK, vars, buffers, clientVars
  <2> QED
    BY <2>1, <2>2, <2>3, <2>4, <2>5, <2>6, <2>7, <2>8, <2>9, <2>10
    DEF Next, Interface, Serve, Run
<1> QED BY <1>1, <1>2, PTL DEF Spec

--------------------------------------------------------------------------------
(* The offset belongs to its command *)

\* Nothing is taken at first, and what is taken after a refusal counts from there.
LEMMA NothingTaken ==
  ASSUME NEW command
  PROVE  Taken(command, 0, Never) = NoSum
BY SMTT(30) DEF Taken, NoSum, Never

LEMMA TakenUntilRefused ==
  ASSUME NEW command, NEW n \in Nat
  PROVE  Taken(command, n, Never) = Taken(command, n, n)
<1>1. ASSUME NEW c \in Contacts
      PROVE  Taken(command, n, Never)[c] = Taken(command, n, n)[c]
  BY SMTT(30) DEF Taken, Never
<1> QED BY <1>1, Zenon DEF Taken

\* One more sample, with the contacts of the command or, after a refusal, with none.
LEMMA OneMoreTaken ==
  ASSUME NEW command \in Commands, NEW n \in Nat, NEW r \in Nat \cup {Never},
         r # Never => r <= n
  PROVE  LET assumed == IF r = Never THEN command.frames ELSE {}
         IN  [Taken(command, n, r) EXCEPT ![assumed] = @ + 1] = Taken(command, n + 1, r)
<1> DEFINE assumed == IF r = Never THEN command.frames ELSE {}
           more == [Taken(command, n, r) EXCEPT ![assumed] = @ + 1]
<1>1. assumed \in Contacts /\ command.frames # {}
  BY FramesOfCommand DEF Contacts
<1>2. ASSUME NEW c \in Contacts
      PROVE  more[c] = Taken(command, n + 1, r)[c]
  <2>1. more[c] = IF c = assumed THEN Taken(command, n, r)[c] + 1 ELSE Taken(command, n, r)[c]
    BY <1>1 DEF Taken
  <2> QED BY <1>1, <2>1, SMTT(30) DEF Taken, Never
<1>3. more = [c \in Contacts |-> more[c]]
  BY DEF Taken
<1> HIDE DEF more
<1>4. more = Taken(command, n + 1, r)
  BY <1>2, <1>3, Zenon DEF Taken
<1> QED BY <1>4 DEF more

\* The samples summed up so far are all those of the command under way, and fewer than
\* it asked for; those taken before another was refused were taken with its contacts.
OwnSamples ==
  ongoing =>
    /\ contacts = IF refusedAt = Never THEN current.frames ELSE {}
    /\ toUse = ToSize(current.samples)
    /\ sum = Taken(current, used, refusedAt)
    /\ used < Asked(current)
    /\ refusedAt # Never => refusedAt <= used

OffsetInvariant == OwnSamples /\ OffsetOfItsCommand

\* A command whose frames are in the model starts from nothing; another one leaves the
\* samples of the calibration under way as they are.
LEMMA SetupOwns ==
  ASSUME TypeOK, OwnSamples, NEW command \in Commands, Setup(command)
  PROVE  OwnSamples'
<1>1. CASE Accepted(command)
  <2>1. ToSize(command.samples) \in 0..SizeMax
    BY FramesOfCommand, ToSizeInRange
  <2>2. 0 < Asked(command)
    BY <2>1, SizeMaxAssumption DEF Asked
  <2>3. /\ contacts' = command.frames /\ toUse' = ToSize(command.samples)
        /\ used' = 0 /\ sum' = NoSum /\ current' = command /\ refusedAt' = Never
    BY <1>1 DEF Setup, SetupFrom
  <2> QED BY <2>2, <2>3, NothingTaken DEF OwnSamples
<1>2. CASE ~Accepted(command)
  <2>1. Forget
    BY <1>2 DEF Setup
  <2>2. CASE ~ongoing
    BY <2>1, <2>2 DEF Forget, OwnSamples
  <2>3. CASE ongoing /\ refusedAt = Never
    <3>1. sum = Taken(current, used, used) /\ used \in Nat
      BY <2>3, TakenUntilRefused DEF OwnSamples, TypeOK
    <3>2. refusedAt' = used /\ refusedAt' # Never
      BY <2>1, <2>3, <3>1 DEF Forget, Never
    <3>3. contacts' = {} /\ UNCHANGED <<toUse, used, sum, ongoing, current>>
      BY <2>1 DEF Forget
    <3>4. toUse = ToSize(current.samples) /\ used < Asked(current)
      BY <2>3 DEF OwnSamples
    <3> QED BY <3>1, <3>2, <3>3, <3>4 DEF OwnSamples
  <2>4. CASE ongoing /\ refusedAt # Never
    BY <2>1, <2>4 DEF Forget, OwnSamples
  <2> QED BY <2>2, <2>3, <2>4
<1> QED BY <1>1, <1>2

\* A sample is one more of those taken for the command under way.
LEMMA SampleOwns ==
  ASSUME TypeOK, OwnSamples, ongoing
  PROVE  Summed = Taken(current, used + 1, refusedAt)
<1> DEFINE assumed == IF refusedAt = Never THEN current.frames ELSE {}
<1>1. /\ current \in Commands /\ used \in Nat /\ refusedAt \in Nat \cup {Never}
      /\ contacts = assumed /\ sum = Taken(current, used, refusedAt)
      /\ refusedAt # Never => refusedAt <= used
  BY DEF OwnSamples, TypeOK
<1>2. [Taken(current, used, refusedAt) EXCEPT ![assumed] = @ + 1]
        = Taken(current, used + 1, refusedAt)
  BY <1>1, OneMoreTaken
<1>3. Summed = [Taken(current, used, refusedAt) EXCEPT ![assumed] = @ + 1]
  BY <1>1 DEF Summed
<1> QED BY <1>2, <1>3

\* Whatever frames the commands name, those of the model or others, the offset in use is
\* the average of the samples its own command asked for, taken with its own contacts up
\* to the first refusal of another command and with none from then on.
THEOREM OffsetCorrect == Spec => []OffsetOfItsCommand
<1>1. Init => OffsetInvariant
  BY DEF Init, OffsetInvariant, OwnSamples, OffsetOfItsCommand
<1>2. TypeOK /\ OffsetInvariant /\ [Next]_vars => OffsetInvariant'
  <2> SUFFICES ASSUME TypeOK, OffsetInvariant, [Next]_vars PROVE OffsetInvariant' OBVIOUS
  <2>a. OwnSamples /\ OffsetOfItsCommand
    BY DEF OffsetInvariant
  <2>b. UNCHANGED offset => OffsetOfItsCommand'
    BY <2>a DEF OffsetOfItsCommand
  <2>c. UNCHANGED buffers => OwnSamples'
    BY <2>a DEF OwnSamples, buffers
  <2>1. CASE Attach
    <3>1. OwnSamples'
      BY <2>1, <2>a, SetupOwns, StartupIsCommand DEF Attach, AttachThen
    <3> QED BY <2>1, <2>b, <3>1 DEF Attach, AttachThen, OffsetInvariant
  <2>2. CASE AttachReads \/ AttachFails \/ Detach \/ Stop \/ Close
    BY <2>2, <2>b, <2>c
    DEF AttachReads, AttachFails, Detach, Stop, StopThread, Close, OffsetInvariant
  <2>3. ASSUME NEW c \in Clients, Call(c) PROVE OffsetInvariant'
    BY <2>3, <2>b, <2>c DEF Call, OffsetInvariant
  <2>4. ASSUME NEW c \in Clients, Calib(c) PROVE OffsetInvariant'
    <3>1. call[c] \in Commands
      BY DEF TypeOK
    <3>2. OwnSamples'
      BY <2>4, <2>a, <3>1, SetupOwns DEF Calib, CalibThen
    <3> QED BY <2>4, <2>b, <3>2 DEF Calib, CalibThen, OffsetInvariant
  <2>5. ASSUME NEW c \in Clients, ResetOffset(c) PROVE OffsetInvariant'
    BY <2>5, <2>c DEF ResetOffset, OffsetInvariant, OffsetOfItsCommand
  <2>6. CASE Wake
    BY <2>6, <2>b, <2>c DEF Wake, OffsetInvariant
  <2>7. CASE Estimate
    <3>1. OwnSamples'
      BY <2>7 DEF Estimate, OwnSamples
    <3> QED BY <2>7, <2>b, <3>1 DEF Estimate, OffsetInvariant
  <2>8. CASE Sample
    <3>1. /\ used \in Nat /\ toUse \in Nat
          /\ used' = used + 1 /\ used + 1 < toUse
          /\ sum' = Summed
          /\ UNCHANGED <<contacts, toUse, current, refusedAt, ongoing, offset>>
      BY <2>8, RunType DEF Sample, LastSample, TypeOK
    <3>2. ongoing
      BY <2>8 DEF Sample
    <3>3. Asked(current) = toUse
      BY <2>a, <3>1, <3>2 DEF OwnSamples, Asked
    <3>4. sum' = Taken(current, used', refusedAt)
      BY <2>a, <3>1, <3>2, SampleOwns
    <3>5. /\ contacts = IF refusedAt = Never THEN current.frames ELSE {}
          /\ toUse = ToSize(current.samples)
      BY <2>a, <3>2 DEF OwnSamples
    <3>6. refusedAt' # Never => refusedAt' <= used'
      BY <2>a, <3>1, <3>2 DEF OwnSamples, TypeOK
    <3>7. used' < Asked(current)
      BY <3>1, <3>3
    <3>8. OwnSamples'
      BY <3>1, <3>4, <3>5, <3>6, <3>7 DEF OwnSamples
    <3> QED BY <2>b, <3>1, <3>8 DEF OffsetInvariant
  <2>9. CASE Complete
    <3>1. OwnSamples'
      BY <2>9 DEF Complete, OwnSamples
    <3>2. ongoing /\ used \in Nat /\ toUse \in 0..SizeMax
      BY <2>9 DEF Complete, TypeOK
    <3>3. used + 1 = Asked(current)
      BY <2>9, <2>a, <3>2, SizeMaxAssumption DEF Complete, LastSample, OwnSamples, Asked
    <3>4. Summed = Taken(current, used + 1, refusedAt)
      BY <2>a, <3>2, SampleOwns
    <3>5. offset' = [sum |-> Summed, count |-> used + 1, command |-> current,
                     refusedAt |-> refusedAt]
      BY <2>9 DEF Complete
    <3>6. OffsetOfItsCommand'
      BY <3>3, <3>4, <3>5 DEF OffsetOfItsCommand
    <3> QED BY <3>1, <3>6 DEF OffsetInvariant
  <2>10. CASE UNCHANGED vars
    BY <2>10, <2>b, <2>c DEF vars, OffsetInvariant
  <2> QED
    BY <2>1, <2>2, <2>3, <2>4, <2>5, <2>6, <2>7, <2>8, <2>9, <2>10
    DEF Next, Interface, Serve, Run
<1>3. OffsetInvariant => OffsetOfItsCommand
  BY DEF OffsetInvariant
<1> QED BY <1>1, <1>2, <1>3, TypeCorrect, PTL DEF Spec

--------------------------------------------------------------------------------
(* What detachAll leaves behind *)

\* From the moment detachAll has stopped it, the periodic thread is off: it cannot
\* undo the reset of the gravity compensation.
Stopped == driver \in {"closing", "detached"} => thread = "off" /\ ~compensated

\* A device that has been detached leaves no impedance offset set.
THEOREM CompensationReset == Spec => []NoCompensationLeft
<1>1. Init => Stopped
  BY DEF Init, Stopped
<1>2. Stopped /\ [Next]_vars => Stopped'
  <2> SUFFICES ASSUME Stopped, [Next]_vars PROVE Stopped' OBVIOUS
  <2>1. CASE Interface
    BY <2>1 DEF Interface, AttachReads, Attach, AttachThen, AttachFails, Detach, Stop,
                StopThread, Close, Stopped
  <2>2. ASSUME NEW c \in Clients, Call(c) \/ Serve(c) PROVE Stopped'
    BY <2>2 DEF Call, Serve, Calib, CalibThen, ResetOffset, Stopped
  <2>3. CASE Wake
    BY <2>3 DEF Wake, Stopped
  <2>4. CASE Run
    <3>1. thread = "awake" /\ UNCHANGED driver
      BY <2>4 DEF Run, Estimate, Sample, Complete, RunWith, Running
    <3> QED BY <3>1 DEF Stopped
  <2>5. CASE UNCHANGED vars
    BY <2>5 DEF vars, Stopped
  <2> QED BY <2>1, <2>2, <2>3, <2>4, <2>5 DEF Next
<1>3. Stopped => NoCompensationLeft
  BY DEF Stopped, NoCompensationLeft
<1> QED BY <1>1, <1>2, <1>3, PTL DEF Spec

================================================================================
