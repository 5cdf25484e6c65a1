------------------------------- MODULE JointSplit ------------------------------
(***************************************************************************)
(* How the coordinator of codycoTrajGenDemoY2 finds the joints of a part   *)
(* that are in torque control: CoordinatorData::init removes from the list *)
(* of all the joints those that are in position control, with an iterator  *)
(* that it moves on twice after it has erased an element.                  *)
(***************************************************************************)
EXTENDS Naturals, Sequences, SequencesExt, FiniteSets

CONSTANT N  \* the joints of the part

VARIABLES
  ids,     \* torsoJointIDs or armJointIDs: the joints in position control
  list,    \* the complement
  at,      \* the iterator: a place in the list, Len(list) + 1 is end()
  mapped   \* did mapInput copy the references of the joints in the list?

vars == <<ids, list, at, mapped>>

Joints == 0..(N - 1)
TypeOK ==
  /\ ids \in SUBSET Joints
  /\ list \in Seq(Joints) /\ at \in 1..(Len(list) + 1)
  /\ mapped \in BOOLEAN

Init ==
  /\ ids \in SUBSET Joints
  /\ list = [i \in 1..N |-> i - 1]
  /\ at = IF ids = {} THEN N + 1 ELSE 1
  /\ mapped = FALSE

Here == at <= Len(list)

\* Wrong variants: the loop does not move on, or moves on twice
KeepTo(next) == Here /\ list[at] \notin ids /\ at' = next /\ UNCHANGED <<ids, list, mapped>>
KeepHere == KeepTo(at)
KeepSkips == KeepTo(IF at < Len(list) THEN at + 2 ELSE at + 1)
Keep == KeepTo(at + 1)

\* The iterator has gone to the next element before this one is erased, and then goes on once
\* more; from end() that is the first element, as the list is a ring with a sentinel.
\* Wrong variant: the element after is erased
Erase(i) ==
  /\ Here /\ list[at] \in ids
  /\ list' = RemoveAt(list, i)
  /\ at' = IF at = Len(list) THEN 1 ELSE at + 1
  /\ UNCHANGED <<ids, mapped>>
EraseNext == Erase(IF at < Len(list) THEN at + 1 ELSE at)
EraseFound == Erase(at)

\* mapInput copies a reference for each joint of the list, whatever the size of the vector
MapInput ==
  /\ ~Here /\ ~mapped
  /\ mapped' = TRUE
  /\ UNCHANGED <<ids, list, at>>

Next == Keep \/ EraseFound \/ MapInput
Spec == Init /\ [][Next]_vars

\* the loop is that of one thread
FairSpec == Spec /\ WF_vars(Next)

--------------------------------------------------------------------------------
(* Properties *)

\* The references of the joints in torque control are all mapped, in their order (140-190, 349-362)
KeepsTorqueJoints == Joints \ ids \subseteq Range(list) /\ \A i \in 1..(Len(list) - 1) : list[i] < list[i + 1]

\* Joints without neighbours, and those of the wrist
Isolated == \A j \in ids : j + 1 \notin ids
Wrist == {N - 3, N - 2, N - 1}

\* The mapping is right if no two neighbours are in position control, or only the last three, the
\* wrist of an arm.  Of other neighbours the second is left in the list, and mapInput writes past
\* the end of the vector
SplitIsRight == mapped /\ (Isolated \/ ids = Wrist) => Range(list) = Joints \ ids

\* The iterator that moves past end() and starts again does not go round for ever
SplitEnds == <>mapped

================================================================================
