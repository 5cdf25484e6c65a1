---------------------------- MODULE Measures_proofs ----------------------------
(***************************************************************************)
(* Both estimators of external wrenches have a contact in every part of    *)
(* the robot that the sensors cut it into, for any robot, sensors, skin and *)
(* messages; the measures that they use are those of their sensor, the     *)
(* offsets come into use, and the estimates reach the device of their axis. *)
(*                                                                         *)
(* Where a loop takes the last or the first of what it passes, the proof   *)
(* asks for the greatest or the least of a set of naturals                 *)
(* (GreatestOfNaturals, LeastNatural); where a device is found whole by    *)
(* counting its axes, it asks that as many are all (WholeIsOnto).          *)
(***************************************************************************)
EXTENDS Devices, FiniteSetTheorems, WellFoundedInduction, TLAPS

--------------------------------------------------------------------------------
(* ContactPoints *)

InOwnSubModel == \A s \in contact_SubModels : contact_defaults[s] # P!NoFrame =>
      contact_SubModelOf[contact_defaults[s]] = s
FirstOfTheListed ==
  \A i \in 1..contact_listed : contact_frames[i] \in contact_ModelFrames =>
    \E j \in 1..i : contact_frames[j] \in contact_ModelFrames
        /\ contact_defaults[contact_SubModelOf[contact_frames[i]]] = contact_frames[j]

ContactKept ==
  /\ P!TypeOK
  /\ InOwnSubModel
  /\ FirstOfTheListed
  /\ \A s \in contact_SubModels : contact_defaults[s] # P!NoFrame =>
       \E j \in 1..contact_listed : contact_frames[j] = contact_defaults[s]
  /\ contact_skin = "open" => contact_listed = Len(contact_frames)
     /\ \A s \in contact_SubModels : contact_defaults[s] # P!NoFrame
  /\ contact_measured # {} => contact_skin = "open"
  /\ contact_measured \in {{}, P!Located(contact_fromSkin.links)}
  /\ contact_fromSkin.links \subseteq contact_pressing

\* Nothing is listed or read at the start.
LEMMA ContactInit == P!Init => ContactKept
<1> SUFFICES ASSUME P!Init PROVE ContactKept
  OBVIOUS
<1>1. contact_frames \in Seq(contact_Frames)
  BY ContactAssumption DEF P!Init, P!SeqOf
<1>2. 0 \in 0..Len(contact_frames) /\ P!Never \in 0..P!Never
  BY <1>1, ContactAssumption DEF P!Never
<1>3. P!Nothing \in [links : SUBSET contact_Links, pressed : BOOLEAN] /\ P!Nothing.links = {}
  BY DEF P!Nothing
<1>4. P!TypeOK
  BY <1>2, <1>3, Zenon DEF P!Init, P!TypeOK
<1>5. InOwnSubModel /\ FirstOfTheListed
  BY DEF P!Init, InOwnSubModel, FirstOfTheListed
<1>6. QED
  BY <1>3, <1>4, <1>5 DEF P!Init, ContactKept

\* The loop over the listed frames (310-346) gives a submodel the first suitable one.
LEMMA ContactListed == ContactKept /\ P!ListFrame => ContactKept'
<1> SUFFICES ASSUME ContactKept, P!ListFrame PROVE ContactKept'
  OBVIOUS
<1> DEFINE n == contact_listed + 1
           s == contact_SubModelOf[contact_frames[n]]
<1>1. contact_frames \in Seq(contact_Frames) /\ contact_listed \in 0..Len(contact_frames)
    /\ Len(contact_frames) \in Nat
      /\ contact_defaults \in [contact_SubModels -> contact_ModelFrames \cup {P!NoFrame}]
  BY ContactAssumption DEF ContactKept, P!TypeOK, P!SeqOf
<1>2. /\ contact_skin = "opening" /\ contact_listed < Len(contact_frames) /\ contact_listed' = n
      /\ contact_defaults' = IF contact_frames[n] \in contact_ModelFrames
         /\ contact_defaults[s] = P!NoFrame
                     THEN [contact_defaults EXCEPT ![s] = contact_frames[n]] ELSE contact_defaults
      /\ contact_frames' = contact_frames /\ contact_skin' = contact_skin
      /\ contact_mailbox' = contact_mailbox /\ contact_fromSkin' = contact_fromSkin
      /\ contact_silence' = contact_silence /\ contact_pressing' = contact_pressing
      /\ contact_measured' = contact_measured
  BY DEF P!ListFrame, P!ListFrameWhen
<1>3. contact_frames[n] \in contact_ModelFrames => s \in contact_SubModels
  BY ContactAssumption
<1>4. n \in 1..Len(contact_frames)
  BY <1>1, <1>2
<1> HIDE DEF s
<1>5. contact_defaults' \in [contact_SubModels -> contact_ModelFrames \cup {P!NoFrame}]
  BY <1>1, <1>2, <1>3
<1>6. P!TypeOK'
  BY <1>2, <1>4, <1>5 DEF ContactKept, P!TypeOK
<1>7. InOwnSubModel'
  <2> SUFFICES ASSUME NEW x \in contact_SubModels, contact_defaults'[x] # P!NoFrame PROVE contact_SubModelOf[contact_defaults'[x]] = x
    BY DEF InOwnSubModel
  <2>1. CASE contact_defaults'[x] = contact_defaults[x]
    BY <2>1 DEF ContactKept, InOwnSubModel
  <2>2. CASE contact_defaults'[x] # contact_defaults[x]
    <3>1. x = s /\ contact_defaults'[x] = contact_frames[n]
      BY <1>1, <1>2, <1>3, <2>2
    <3>2. QED
      BY <3>1 DEF s
  <2>3. QED
    BY <2>1, <2>2
<1>8. \A x \in contact_SubModels : contact_defaults[x] # P!NoFrame =>
      contact_defaults'[x] = contact_defaults[x]
  BY <1>1, <1>2, <1>3
<1>9. FirstOfTheListed'
  <2> SUFFICES ASSUME NEW i \in 1..n, contact_frames[i] \in contact_ModelFrames
               PROVE \E j \in 1..i : contact_frames[j] \in contact_ModelFrames
                   /\ contact_defaults'[contact_SubModelOf[contact_frames[i]]] = contact_frames[j]
    BY <1>2 DEF FirstOfTheListed
  <2>1. contact_SubModelOf[contact_frames[i]] \in contact_SubModels
    BY ContactAssumption
  <2>2. CASE i \in 1..contact_listed
    <3>1. PICK j \in 1..i : contact_frames[j] \in contact_ModelFrames
        /\ contact_defaults[contact_SubModelOf[contact_frames[i]]] = contact_frames[j]
      BY <2>2 DEF ContactKept, FirstOfTheListed
    <3>2. contact_frames[j] # P!NoFrame
      BY <3>1, ContactAssumption
    <3>3. QED
      BY <1>8, <2>1, <3>1, <3>2
  <2>3. CASE i = n /\ contact_defaults[s] = P!NoFrame
    <3>1. contact_defaults'[s] = contact_frames[n] /\ i \in 1..i
      BY <1>1, <1>2, <1>3, <2>3
    <3>2. QED
      BY <2>3, <3>1 DEF s
  <2>4. CASE i = n /\ contact_defaults[s] # P!NoFrame
    <3>1. contact_defaults[s] \in contact_ModelFrames
      BY <1>1, <1>3, <2>4
    <3>2. contact_defaults'[s] = contact_defaults[s]
      BY <1>2, <2>4
    <3>3. \E j \in 1..contact_listed : contact_frames[j] = contact_defaults[s]
      BY <1>3, <2>4, <3>1 DEF ContactKept
    <3>4. QED
      BY <1>1, <2>4, <3>1, <3>2, <3>3 DEF s
  <2>5. QED
    BY <1>1, <2>2, <2>3, <2>4
<1>10. ASSUME NEW x \in contact_SubModels, contact_defaults'[x] # P!NoFrame PROVE \E j \in 1..n : contact_frames[j] = contact_defaults'[x]
  <2>1. CASE contact_defaults'[x] = contact_defaults[x]
    <3>1. PICK j \in 1..contact_listed : contact_frames[j] = contact_defaults[x]
      BY <1>10, <2>1 DEF ContactKept
    <3>2. QED
      BY <1>1, <2>1, <3>1
  <2>2. CASE contact_defaults'[x] # contact_defaults[x]
    <3>1. contact_defaults'[x] = contact_frames[n]
      BY <1>1, <1>2, <1>3, <2>2
    <3>2. QED
      BY <1>1, <3>1
  <2>3. QED
    BY <2>1, <2>2
<1>11. contact_measured' = {}
  BY <1>2 DEF ContactKept
<1>12. QED
  BY <1>2, <1>6, <1>7, <1>9, <1>10, <1>11 DEF ContactKept

\* What a run measures is located by the contacts that it keeps.
LEMMA ContactHeard ==
  ASSUME ContactKept, contact_skin =
        "open", NEW links \in SUBSET contact_Links, NEW pressed \in BOOLEAN,
         P!Heard(links, pressed), links \subseteq contact_pressing', contact_pressing' \subseteq contact_Links,
         contact_frames' = contact_frames, contact_listed' = contact_listed, contact_skin' =
               contact_skin, contact_defaults' = contact_defaults,
         contact_mailbox' \in {<<>>} \cup {<<L>> : L \in SUBSET contact_Links}, contact_silence' \in 0..P!Never
  PROVE  ContactKept'
<1>1. contact_fromSkin' = [links |-> links, pressed |-> pressed]
    /\ contact_measured' = P!Located(links)
  BY DEF P!Heard
<1>2. contact_defaults \in [contact_SubModels -> contact_ModelFrames \cup {P!NoFrame}]
    /\ \A s \in contact_SubModels : contact_defaults[s] # P!NoFrame
  BY DEF ContactKept, P!TypeOK
<1>3. \A s \in contact_SubModels : contact_defaults[s] \in contact_ModelFrames
  BY <1>2
<1>4. P!Located(links) \subseteq P!Contacts
  BY <1>3 DEF P!Located, P!DefaultsOf, P!Contacts
<1>5. P!TypeOK'
  BY <1>1, <1>4 DEF ContactKept, P!TypeOK, P!Contacts
<1>6. P!Located(links)' = P!Located(links)
  BY DEF P!Located, P!DefaultsOf
<1>7. contact_measured' = P!Located(contact_fromSkin.links)'
  BY <1>1 DEF P!Located, P!DefaultsOf
<1>8. InOwnSubModel' /\ FirstOfTheListed'
  BY DEF ContactKept, InOwnSubModel, FirstOfTheListed
<1>9. contact_listed = Len(contact_frames)
    /\ \A s \in contact_SubModels : contact_defaults[s] # P!NoFrame =>
         \E j \in 1..contact_listed : contact_frames[j] = contact_defaults[s]
  BY DEF ContactKept
<1>10. contact_fromSkin'.links = links
  BY <1>1
<1>11. QED
  BY <1>2, <1>5, <1>7, <1>8, <1>9, <1>10 DEF ContactKept

\* Every step keeps the invariant.
LEMMA ContactNext == ContactKept /\ [P!Next]_(P!contactVars) => ContactKept'
<1> SUFFICES ASSUME ContactKept, [P!Next]_(P!contactVars) PROVE ContactKept'
  OBVIOUS
<1>a. /\ contact_fromSkin \in [links : SUBSET contact_Links, pressed : BOOLEAN]
         /\ contact_pressing \subseteq contact_Links
      /\ contact_fromSkin.links \subseteq contact_pressing /\ contact_silence \in 0..P!Never
      /\ contact_Timeout \in Nat
  BY ContactAssumption DEF ContactKept, P!TypeOK
<1>1. CASE P!OpenContacts
  <2>1. /\ contact_frames' = contact_frames /\ contact_listed' = contact_listed
        /\ contact_defaults' = contact_defaults /\ contact_mailbox' = contact_mailbox
        /\ contact_fromSkin' = contact_fromSkin /\ contact_silence' = contact_silence
        /\ contact_pressing' = contact_pressing /\ contact_measured' = contact_measured
        /\ contact_skin' \in {"failed", "open"} /\ contact_listed = Len(contact_frames)
        /\ contact_skin = "opening"
        /\ contact_skin' = "open" => \A s \in contact_SubModels : contact_defaults[s] # P!NoFrame
    BY <1>1 DEF P!OpenContacts
  <2>2. P!TypeOK'
    BY <2>1 DEF ContactKept, P!TypeOK
  <2>3. contact_measured' = {}
    BY <2>1 DEF ContactKept
  <2>4. QED
    BY <2>1, <2>2, <2>3 DEF ContactKept, InOwnSubModel, FirstOfTheListed
<1>2. CASE \E L \in SUBSET contact_Links : P!Message(L)
  <2>1. PICK L \in SUBSET contact_Links : P!Message(L)
    BY <1>2
  <2>2. /\ contact_frames' = contact_frames /\ contact_listed' = contact_listed
        /\ contact_defaults' = contact_defaults /\ contact_skin' = contact_skin
        /\ contact_fromSkin' = contact_fromSkin /\ contact_silence' = contact_silence
        /\ contact_pressing' = contact_pressing /\ contact_measured' = contact_measured
        /\ contact_mailbox' = <<L>>
    BY <2>1 DEF P!Message
  <2>3. P!TypeOK'
    BY <2>2 DEF ContactKept, P!TypeOK
  <2>4. QED
    BY <2>2, <2>3 DEF ContactKept, InOwnSubModel, FirstOfTheListed, P!Located, P!DefaultsOf
<1>3. CASE P!ReadContacts
  <2>1. /\ contact_frames' = contact_frames /\ contact_listed' = contact_listed
        /\ contact_defaults' = contact_defaults /\ contact_skin' = contact_skin
        /\ contact_skin = "open"
        /\ contact_mailbox' = <<>> /\ contact_mailbox # <<>> /\ contact_silence' = 0
    BY <1>3 DEF P!ReadContacts
  <2>2. PICK L \in SUBSET contact_Links : contact_mailbox = <<L>>
    BY <2>1 DEF ContactKept, P!TypeOK
  <2>3. \/ P!Heard(contact_fromSkin.links, FALSE) /\ contact_pressing' = contact_pressing
        \/ P!Heard(L, TRUE) /\ contact_pressing' = L
    BY <1>3, <2>2 DEF P!ReadContacts
  <2>4. 0 \in 0..P!Never
    BY <1>a DEF P!Never
  <2>5. CASE P!Heard(contact_fromSkin.links, FALSE) /\ contact_pressing' = contact_pressing
    <3>1. contact_fromSkin.links \in SUBSET contact_Links
      BY <1>a
    <3>2. QED
      BY <1>a, <2>1, <2>4, <2>5, <3>1, ContactHeard
  <2>6. CASE P!Heard(L, TRUE) /\ contact_pressing' = L
    BY <2>1, <2>4, <2>6, ContactHeard
  <2>7. QED
    BY <2>3, <2>5, <2>6
<1>4. CASE P!NoMessage
  <2> DEFINE links == IF contact_silence' = contact_Timeout + 1 THEN {} ELSE contact_fromSkin.links
  <2>1. /\ contact_frames' = contact_frames /\ contact_listed' = contact_listed
        /\ contact_defaults' = contact_defaults /\ contact_skin' = contact_skin
        /\ contact_skin = "open"
        /\ contact_mailbox' = contact_mailbox /\ contact_pressing' = contact_pressing
        /\ contact_silence' = P!Elapsed
        /\ P!Heard(links, FALSE)
    BY <1>4 DEF P!NoMessage, P!NoMessageAfter
  <2>2. contact_silence' \in 0..P!Never
    BY <1>a, <2>1 DEF P!Elapsed, P!Never
  <2>3. contact_mailbox' \in {<<>>} \cup {<<L>> : L \in SUBSET contact_Links}
    BY <2>1 DEF ContactKept, P!TypeOK
  <2>4. links \in SUBSET contact_Links /\ links \subseteq contact_pressing'
    BY <1>a, <2>1
  <2> HIDE DEF links
  <2>5. QED
    BY <1>a, <2>1, <2>2, <2>3, <2>4, ContactHeard
<1>5. CASE UNCHANGED P!contactVars
  BY <1>5 DEF P!contactVars, ContactKept, P!TypeOK, InOwnSubModel, FirstOfTheListed, P!Located,
     P!DefaultsOf
<1>6. QED
  BY <1>1, <1>2, <1>3, <1>4, <1>5, ContactListed DEF P!Next

\* The invariant of the contacts.
LEMMA ContactAlways == P!Spec => []ContactKept
BY ContactInit, ContactNext, PTL DEF P!Spec

\* Every submodel has an unknown wrench, a default one exactly where the skin gives none
\* (WholeBodyDynamicsDevice.cpp:1446-1508), for any submodels, links and frames.
THEOREM EverySubModelIsTouchedHolds == P!Spec => []P!EverySubModelIsTouched
<1>1. ContactKept => P!EverySubModelIsTouched
  <2> SUFFICES ASSUME ContactKept, contact_measured # {}, NEW s \in contact_SubModels
               PROVE  LET here == {c \in contact_measured : contact_SubModelOf[c.at] = s}
                      IN  /\ here # {}
                          /\ (\E c \in here : c.from = "default") =>
                               here = {[at |-> contact_defaults[s], from |-> "default"]}
    BY DEF P!EverySubModelIsTouched
  <2> DEFINE here == {c \in contact_measured : contact_SubModelOf[c.at] = s}
             known == contact_fromSkin.links \cap contact_Mapped
             touched == {contact_SubModelOf[l] : l \in known}
  <2>1. contact_measured = {[at |-> l, from |-> "skin"] : l \in known}
                     \cup {[at |-> contact_defaults[x], from |-> "default"] : x \in contact_SubModels \ touched}
    BY DEF ContactKept, P!Located, P!DefaultsOf
  <2>2. \A x \in contact_SubModels : contact_SubModelOf[contact_defaults[x]] = x
    BY DEF ContactKept, InOwnSubModel
  <2> HIDE DEF known
  <2>3. CASE s \in touched
    <3>1. PICK l \in known : contact_SubModelOf[l] = s
      BY <2>3
    <3>2. [at |-> l, from |-> "skin"] \in here
      BY <2>1, <3>1
    <3>3. ASSUME NEW c \in here, c.from = "default" PROVE FALSE
      <4>1. PICK x \in contact_SubModels \ touched : c =
            [at |-> contact_defaults[x], from |-> "default"]
        BY <2>1, <3>3
      <4>2. x = s
        BY <2>2, <4>1
      <4>3. QED
        BY <2>3, <4>1, <4>2
    <3>4. QED
      BY <3>2, <3>3
  <2>4. CASE s \notin touched
    <3> DEFINE d == [at |-> contact_defaults[s], from |-> "default"]
    <3>1. d \in here
      BY <2>1, <2>2, <2>4
    <3>2. ASSUME NEW c \in here PROVE c = d
      <4>1. ~\E l \in known : c = [at |-> l, from |-> "skin"]
        BY <2>4
      <4>2. PICK x \in contact_SubModels \ touched : c =
            [at |-> contact_defaults[x], from |-> "default"]
        BY <2>1, <3>2, <4>1
      <4>3. x = s
        BY <2>2, <4>2
      <4>4. QED
        BY <4>2, <4>3
    <3>3. here = {d}
      BY <3>1, <3>2
    <3>4. QED
      BY <3>1, <3>3, Zenon
  <2>5. QED
    BY <2>3, <2>4
<1>2. QED
  BY <1>1, ContactAlways, PTL

\* A contact of the skin is of the last message that had contacts (1353-1412).
THEOREM SkinContactsWereReadHolds == P!Spec => []P!SkinContactsWereRead
<1>1. ContactKept => P!SkinContactsWereRead
  BY DEF ContactKept, P!SkinContactsWereRead, P!Located, P!DefaultsOf
<1>2. QED
  BY <1>1, ContactAlways, PTL

\* Each submodel has the first suitable frame of the parameter (310-346), for lists of any length.
THEOREM FirstSuitableFrameHolds == P!Spec => []P!FirstSuitableFrame
<1>1. ContactKept => P!FirstSuitableFrame
  <2> SUFFICES ASSUME ContactKept, contact_skin =
        "open", NEW i \in DOMAIN contact_frames, contact_frames[i] \in contact_ModelFrames
               PROVE  \E j \in 1..i : contact_defaults[contact_SubModelOf[contact_frames[i]]] =
                     contact_frames[j]
    BY DEF P!FirstSuitableFrame
  <2>1. contact_frames \in Seq(contact_Frames)
    BY ContactAssumption DEF ContactKept, P!TypeOK, P!SeqOf
  <2>2. i \in 1..contact_listed
    BY <2>1 DEF ContactKept
  <2>3. QED
    BY <2>2 DEF ContactKept, FirstOfTheListed
<1>2. QED
  BY <1>1, ContactAlways, PTL

\* A behaviour of all the components is one of ContactPoints, which takes its steps or none.
LEMMA ContactBehaves == AllSpec => P!Spec
<1>1. AllInit => P!Init
  BY DEF AllInit
<1>2. [AllNext]_allVars => [P!Next]_(P!contactVars)
  BY DEF AllNext, allVars, contactVars, P!contactVars, DeviceEstimationRuns, ContactPointsRuns,
         SettingsEditorRuns, RemoteCallsRuns, FloatingBaseRuns, VirtualAnalogRuns,
         OffsetSmoothingRuns, TreeOdometryRuns, TreeContactsRuns
<1>3. QED
  BY <1>1, <1>2, PTL DEF AllSpec, P!Spec

--------------------------------------------------------------------------------
(* TreeContacts *)

\* init has placed every link, and each default link is of its own subtree.
LinksArePlaced ==
  touch_phase \notin {"created", "refused"} =>
    /\ \A l \in touch_Links : touch_subtree[l] = K!SubtreeOf(l)
    /\ \A i \in K!Trees : touch_config.trees[i].default \in touch_config.trees[i].links

\* Before init has ended there are no contacts, and the links that are kept were heard of.
SkinWasHeard ==
  /\ touch_phase = "created" => touch_used = {} /\ touch_heard = {}
  /\ \A l \in touch_skin : \E h \in touch_heard : h.at = l

TouchKept ==
  /\ K!TypeOK /\ K!Config(touch_config) /\ LinksArePlaced /\ SkinWasHeard
  /\ K!EverySubtreeIsTouched /\ K!DefaultsOnlyWhereUntouched /\ K!TouchesWereRead

\* A set of natural numbers has a least member.
LEMMA LeastNatural ==
  ASSUME NEW S \in SUBSET Nat, S # {}
  PROVE  \E m \in S : \A k \in S : m <= k
<1> DEFINE less == OpToRel(<, Nat)
<1>1. IsWellFoundedOn(less, Nat)
  BY NatLessThanWellFounded
<1>2. \A x, y \in Nat : <<x, y>> \in less <=> x < y
  BY DEF OpToRel
<1> HIDE DEF less
<1>3. PICK m \in S : \A y \in S : ~(<<y, m>> \in less)
  BY <1>1, WFMin
<1>4. \A k \in S : k \in Nat /\ ~(k < m)
  BY <1>2, <1>3
<1>5. QED
  BY <1>4

\* A set of natural numbers up to a bound has a greatest member.
LEMMA GreatestOfNaturals ==
  ASSUME NEW n \in Nat, NEW naturals \in SUBSET Nat, naturals # {}, \A i \in naturals : i <= n
  PROVE  \E i \in naturals : \A k \in naturals : k <= i
<1> DEFINE above == {k \in Nat : \A i \in naturals : i <= k}
<1>1. above # {} /\ above \subseteq Nat
  OBVIOUS
<1>2. PICK m \in above : \A k \in above : m <= k
  BY <1>1, LeastNatural
<1>3. CASE m \in naturals
  BY <1>3
<1>4. CASE m \notin naturals
  <2>1. m \in Nat /\ m > 0
    <3>1. PICK i : i \in naturals
      OBVIOUS
    <3>2. i \in Nat /\ m \in Nat /\ i <= m
      BY <3>1
    <3>3. QED
      BY <1>4, <3>1, <3>2
  <2>2. m - 1 \in above
    <3>1. \A i \in naturals : i \in Nat /\ i <= m /\ i # m
      BY <1>4
    <3>2. \A i \in naturals : i <= m - 1
      BY <2>1, <3>1
    <3>3. QED
      BY <2>1, <3>2
  <2>3. QED
    BY <1>2, <2>2
<1>5. QED
  BY <1>3, <1>4

\* The subtrees are numbered from one, and finitely many.
LEMMA TreesAreNumbered ==
  ASSUME K!Config(touch_config)
  PROVE  /\ K!Trees \subseteq Nat /\ IsFiniteSet(K!Trees)
            /\ (\E n \in Nat : \A i \in K!Trees : i <= n)
         /\ \A i \in K!Trees : /\ touch_config.trees[i].links \subseteq touch_Links
                               /\ touch_config.trees[i].default \in touch_Links
<1> DEFINE Tree == [links : SUBSET touch_Links, default : touch_Links]
<1>1. touch_config.trees \in Seq(Tree)
  BY DEF K!Config, K!Subtrees
<1> HIDE DEF Tree
<1>2. K!Trees = 1..Len(touch_config.trees) /\ Len(touch_config.trees) \in Nat
  BY <1>1 DEF K!Trees
<1>3. \A i \in K!Trees : touch_config.trees[i] \in Tree
  BY <1>1, <1>2
<1>4. \A i \in K!Trees : touch_config.trees[i].links \subseteq touch_Links
    /\ touch_config.trees[i].default \in touch_Links
  BY <1>3 DEF Tree
<1>5. K!Trees \subseteq Nat /\ IsFiniteSet(K!Trees)
  BY <1>2, FS_Interval
<1>6. \A i \in K!Trees : i <= Len(touch_config.trees)
  BY <1>2
<1>7. QED
  BY <1>2, <1>4, <1>5, <1>6

\* The instance counts as the module of finite sets does.
LEMMA CountedAlike == \A S : K!Cardinality(S) = Cardinality(S)
BY DEF Cardinality, K!Cardinality

\* With sound aliases a link of a subtree is placed in that one.
LEMMA PlacedInItsOwn ==
  ASSUME K!Config(touch_config), K!Sound, NEW l \in touch_config.aliases
  PROVE  /\ K!SubtreeOf(l) \in K!Trees /\ l \in touch_config.trees[K!SubtreeOf(l)].links
         /\ \A i \in K!Trees : l \in touch_config.trees[i].links => K!SubtreeOf(l) = i
<1> DEFINE listed == {i \in K!Trees : l \in touch_config.trees[i].links}
<1>1. IsFiniteSet(listed) /\ Cardinality(listed) = 1
  BY TreesAreNumbered, FS_Subset, CountedAlike DEF K!Sound
<1>2. PICK x : listed = {x}
  BY <1>1, FS_Singleton
<1>3. x \in Nat /\ x \in K!Trees
  BY <1>2, TreesAreNumbered
<1>4. (CHOOSE i \in listed : \A k \in listed : k <= i) = x
  BY <1>2, <1>3
<1>5. K!SubtreeOf(l) = x
  BY <1>2, <1>4 DEF K!SubtreeOf
<1>6. QED
  BY <1>2, <1>3, <1>5

\* Nothing is heard before init.
LEMMA TouchInit == K!Init => TouchKept
<1> SUFFICES ASSUME K!Init PROVE TouchKept
  OBVIOUS
<1>1. K!Config(touch_config) /\ touch_config \in touch_Configs /\ touch_phase = "created"
  BY DEF K!Init
<1>2. touch_silence \in 0 .. touch_Timeout + 1
  BY TouchAssumption DEF K!Init
<1>3. K!TypeOK
  BY <1>1, <1>2 DEF K!Init, K!TypeOK
<1>4. QED
  BY <1>1, <1>3 DEF K!Init, TouchKept, LinksArePlaced, SkinWasHeard, K!EverySubtreeIsTouched,
     K!DefaultsOnlyWhereUntouched, K!TouchesWereRead

\* The links are placed where they are listed.
LEMMA TouchInitEstimator == ASSUME TouchKept, K!InitEstimator PROVE TouchKept'
<1>1. /\ touch_phase = "created" /\ touch_phase' \in {"running", "refused"}
      /\ UNCHANGED <<touch_config, touch_mailbox, touch_skin, touch_used, touch_silence,
                     touch_heard>>
      /\ K!Trees' = K!Trees
  BY DEF K!InitEstimator, K!Trees
<1>2. /\ touch_phase' # "refused" => /\ touch_subtree' = [l \in touch_Links |-> K!SubtreeOf(l)]
                                     /\ \A i \in K!Trees : touch_config.trees[i].default \in touch_config.trees[i].links
      /\ touch_phase' = "refused" => touch_subtree' = touch_subtree
  BY DEF K!InitEstimator
<1>3. \A l \in touch_Links : K!SubtreeOf(l)' = K!SubtreeOf(l)
  BY <1>1 DEF K!SubtreeOf
<1>4. LinksArePlaced'
  BY <1>1, <1>2, <1>3 DEF LinksArePlaced
<1>5. \A l \in touch_Links : K!SubtreeOf(l) \in K!Trees \cup {1}
  <2> TAKE l \in touch_Links
  <2> DEFINE listed == {i \in K!Trees : l \in touch_config.trees[i].links}
  <2>1. CASE listed = {}
    BY <2>1 DEF K!SubtreeOf
  <2>2. CASE listed # {}
    <3>1. listed \subseteq Nat
      BY TreesAreNumbered DEF TouchKept
    <3>2. PICK n \in Nat : \A i \in listed : i <= n
      BY TreesAreNumbered DEF TouchKept
    <3>3. \E i \in listed : \A k \in listed : k <= i
      BY <2>2, <3>1, <3>2, GreatestOfNaturals
    <3>4. K!SubtreeOf(l) \in listed
      BY <2>2, <3>3 DEF K!SubtreeOf
    <3>5. QED
      BY <3>4
  <2>3. QED
    BY <2>1, <2>2
<1>6. K!TypeOK'
  BY <1>1, <1>2, <1>5 DEF TouchKept, K!TypeOK
<1>7. QED
  BY <1>1, <1>4, <1>6 DEF TouchKept, SkinWasHeard, K!EverySubtreeIsTouched,
     K!DefaultsOnlyWhereUntouched,
     K!TouchesWereRead, K!Config, K!Sound

\* A message waits in its port.
LEMMA TouchMessage ==
  ASSUME TouchKept, NEW m, (m \in K!Messages /\ K!Message(m)) \/ UNCHANGED K!contactVars
  PROVE  TouchKept'
<1>1. /\ UNCHANGED <<touch_config, touch_phase, touch_subtree, touch_skin, touch_used,
                     touch_silence, touch_heard>>
      /\ (m \in K!Messages /\ touch_mailbox' = <<m>>) \/ touch_mailbox' = touch_mailbox
  BY DEF K!Message, K!contactVars
<1>2. K!Trees' = K!Trees /\ (\A l \in touch_Links : K!SubtreeOf(l)' = K!SubtreeOf(l))
    /\ K!Sound' = K!Sound
  BY <1>1 DEF K!Trees, K!SubtreeOf, K!Sound
<1>3. K!TypeOK'
  BY <1>1, <1>2 DEF TouchKept, K!TypeOK
<1>4. QED
  BY <1>1, <1>2, <1>3 DEF TouchKept, K!Config, LinksArePlaced, SkinWasHeard,
     K!EverySubtreeIsTouched,
     K!DefaultsOnlyWhereUntouched, K!TouchesWereRead

\* What is collected touches every subtree, with the defaults only where the skin does not.
LEMMA TouchCollected ==
  ASSUME TouchKept, touch_phase = "running", NEW links \in SUBSET touch_Links, K!Collect(links),
         UNCHANGED <<touch_config, touch_subtree>>,
         \A l \in links : \E h \in touch_heard' : h.at = l
  PROVE  /\ LinksArePlaced' /\ SkinWasHeard' /\ K!EverySubtreeIsTouched'
         /\ K!DefaultsOnlyWhereUntouched'
         /\ K!TouchesWereRead' /\ touch_skin' \subseteq touch_Links
         /\ touch_phase' \in {"running", "aborted"}
         /\ touch_used' \subseteq [at : touch_Links \cup {K!Nowhere}, from : {"skin", "default"}]
<1>1. /\ touch_skin' = links /\ touch_phase' \in {"running", "aborted"}
      /\ touch_used' = {[at |-> l, from |-> "skin"] : l \in links} \cup K!Defaults(links)
  BY DEF K!Collect
<1>2. /\ K!Config(touch_config) /\ (\A l \in touch_Links : touch_subtree[l] = K!SubtreeOf(l))
      /\ \A i \in K!Trees : touch_config.trees[i].default \in touch_config.trees[i].links
  BY DEF TouchKept, LinksArePlaced
<1>3. K!Trees' = K!Trees /\ (\A l \in touch_Links : K!SubtreeOf(l)' = K!SubtreeOf(l))
    /\ K!Sound' = K!Sound
  BY DEF K!Trees, K!SubtreeOf, K!Sound
<1>4. \A c \in touch_used' : \/ \E l \in links : c = [at |-> l, from |-> "skin"]
                             \/ \E i \in K!Untouched(links) : c = K!Default(i)
  BY <1>1 DEF K!Defaults
<1>5. touch_config.aliases \subseteq touch_Links
  BY <1>2 DEF K!Config
<1>6. \A i \in K!Trees : K!Default(i) \in [at : touch_Links \cup {K!Nowhere}, from : {"skin", "default"}]
  BY <1>2, TreesAreNumbered DEF K!Default
<1>7. touch_used' \subseteq [at : touch_Links \cup {K!Nowhere}, from : {"skin", "default"}]
  BY <1>4, <1>6 DEF K!Untouched
<1>8. LinksArePlaced' /\ SkinWasHeard' /\ K!TouchesWereRead'
  BY <1>1, <1>2, <1>3, <1>4 DEF LinksArePlaced, SkinWasHeard, K!TouchesWereRead, K!Default
<1>9. K!EverySubtreeIsTouched'
  <2> SUFFICES ASSUME K!Sound, NEW i \in K!Trees
               PROVE  \E c \in touch_used' : c.at \in touch_config.trees[i].links \cap touch_config.aliases
    BY <1>3 DEF K!EverySubtreeIsTouched
  <2>1. CASE i \in K!Untouched(links)
    <3>1. K!Default(i) \in touch_used'
      BY <1>1, <2>1 DEF K!Defaults
    <3>2. K!Default(i).at = touch_config.trees[i].default
      BY DEF K!Sound, K!Default
    <3>3. QED
      BY <1>2, <3>1, <3>2 DEF K!Sound
  <2>2. CASE i \notin K!Untouched(links)
    <3>1. PICK l \in links \cap touch_config.aliases : touch_subtree[l] = i
      BY <2>2 DEF K!Untouched
    <3>2. l \in touch_config.trees[i].links
      BY <1>2, <3>1, PlacedInItsOwn
    <3>3. [at |-> l, from |-> "skin"] \in touch_used'
      BY <1>1, <3>1
    <3>4. QED
      BY <3>1, <3>2, <3>3
  <2>3. QED
    BY <2>1, <2>2
<1>10. K!DefaultsOnlyWhereUntouched'
  <2> SUFFICES ASSUME K!Sound, NEW c \in touch_used', NEW d \in touch_used', c.from =
        "default", d.from = "skin",
                      d.at \in touch_config.aliases
               PROVE  touch_subtree[c.at] # touch_subtree[d.at]
    BY <1>3 DEF K!DefaultsOnlyWhereUntouched
  <2>1. PICK i \in K!Untouched(links) : c = K!Default(i)
    BY <1>4
  <2>2. PICK l \in links : d = [at |-> l, from |-> "skin"]
    BY <1>4 DEF K!Default
  <2>3. i \in K!Trees /\ c.at = touch_config.trees[i].default /\ c.at \in touch_config.aliases
    BY <2>1 DEF K!Sound, K!Untouched, K!Default
  <2>4. touch_subtree[c.at] = i
    BY <1>2, <1>5, <2>3, PlacedInItsOwn
  <2>5. touch_subtree[l] # i
    BY <2>1, <2>2 DEF K!Untouched
  <2>6. QED
    BY <2>2, <2>4, <2>5
<1>11. QED
  BY <1>1, <1>7, <1>8, <1>9, <1>10

\* A message that is read gives the contacts of the skin, and default ones elsewhere (328-428).
LEMMA TouchReadContacts == ASSUME TouchKept, K!ReadContacts PROVE TouchKept'
<1>1. /\ touch_phase = "running" /\ touch_mailbox # <<>> /\ touch_silence' = 0
      /\ touch_mailbox' = <<>>
      /\ UNCHANGED <<touch_config, touch_subtree>>
  BY DEF K!ReadContacts
<1> DEFINE m == touch_mailbox[1]
<1>2. m \in K!Messages
  BY <1>1 DEF TouchKept, K!TypeOK
<1>3. K!Trees' = K!Trees /\ (\A l \in touch_Links : K!SubtreeOf(l)' = K!SubtreeOf(l))
    /\ K!Sound' = K!Sound
  BY <1>1 DEF K!Trees, K!SubtreeOf, K!Sound
<1>4. touch_silence' \in 0 .. touch_Timeout + 1
  BY <1>1, TouchAssumption
<1>5. CASE UNCHANGED <<touch_phase, touch_skin, touch_used, touch_heard>>
  BY <1>1, <1>3, <1>4, <1>5 DEF TouchKept, K!TypeOK, K!Config, LinksArePlaced, SkinWasHeard,
     K!EverySubtreeIsTouched, K!DefaultsOnlyWhereUntouched, K!TouchesWereRead
<1>6. CASE K!Collect(K!Pressed(m)) /\ touch_heard' = m
  <2>1. K!Pressed(m) \subseteq touch_Links
      /\ (\A l \in K!Pressed(m) : \E h \in touch_heard' : h.at = l)
    BY <1>2, <1>6 DEF K!Pressed, K!Messages, K!Contacts
  <2>2. /\ LinksArePlaced' /\ SkinWasHeard' /\ K!EverySubtreeIsTouched'
        /\ K!DefaultsOnlyWhereUntouched'
        /\ K!TouchesWereRead' /\ touch_skin' \subseteq touch_Links
        /\ touch_phase' \in {"running", "aborted"}
        /\ touch_used' \subseteq [at : touch_Links \cup {K!Nowhere}, from : {"skin", "default"}]
    BY <1>1, <1>6, <2>1, TouchCollected
  <2>3. touch_heard' \subseteq K!Contacts
    BY <1>2, <1>6 DEF K!Messages
  <2>4. K!TypeOK'
    BY <1>1, <1>3, <1>4, <2>2, <2>3 DEF TouchKept, K!TypeOK
  <2>5. QED
    BY <1>1, <2>2, <2>4 DEF TouchKept, K!Config
<1>7. QED
  BY <1>5, <1>6 DEF K!ReadContacts, K!Read

\* Without a message the contacts stay, until they time out (371-376).
LEMMA TouchNoMessage == ASSUME TouchKept, K!NoMessage PROVE TouchKept'
<1>1. touch_phase = "running"
    /\ UNCHANGED <<touch_config, touch_subtree, touch_mailbox, touch_heard>>
  BY DEF K!NoMessage
<1>2. PICK links \in SUBSET touch_skin : K!Collect(links)
  BY DEF K!NoMessage, K!TimesOut
<1>3. K!Trees' = K!Trees
  BY <1>1 DEF K!Trees
<1>4. touch_silence' \in 0 .. touch_Timeout + 1
  <2>1. touch_silence \in 0 .. touch_Timeout + 1
      /\ touch_silence' = IF touch_silence > touch_Timeout THEN touch_silence ELSE touch_silence + 1
    BY DEF K!NoMessage, TouchKept, K!TypeOK
  <2>2. QED
    BY <2>1, TouchAssumption
<1>5. links \subseteq touch_Links /\ (\A l \in links : \E h \in touch_heard' : h.at = l)
  BY <1>1, <1>2 DEF TouchKept, K!TypeOK, SkinWasHeard
<1>6. /\ LinksArePlaced' /\ SkinWasHeard' /\ K!EverySubtreeIsTouched'
      /\ K!DefaultsOnlyWhereUntouched'
      /\ K!TouchesWereRead' /\ touch_skin' \subseteq touch_Links
      /\ touch_phase' \in {"running", "aborted"}
      /\ touch_used' \subseteq [at : touch_Links \cup {K!Nowhere}, from : {"skin", "default"}]
  BY <1>1, <1>2, <1>5, TouchCollected
<1>7. K!TypeOK'
  BY <1>1, <1>3, <1>4, <1>6 DEF TouchKept, K!TypeOK
<1>8. QED
  BY <1>1, <1>6, <1>7 DEF TouchKept, K!Config

\* Every step keeps the invariant.
LEMMA TouchNext == TouchKept /\ [K!Next]_(K!contactVars) => TouchKept'
BY TouchInitEstimator, TouchMessage, TouchReadContacts, TouchNoMessage DEF K!Next

\* The invariant of the contacts of the subtrees.
LEMMA TouchAlways == K!Spec => []TouchKept
BY TouchInit, TouchNext, PTL DEF K!Spec

\* A behaviour of all the components is one of TreeContacts, which takes its steps or none.
LEMMA TouchBehaves == AllSpec => K!Spec
<1>1. AllInit => K!Init
  BY DEF AllInit
<1>2. [AllNext]_allVars => [K!Next]_(K!contactVars)
  BY DEF AllNext, allVars, touchVars, K!contactVars, DeviceEstimationRuns, ContactPointsRuns,
         SettingsEditorRuns, RemoteCallsRuns, FloatingBaseRuns, VirtualAnalogRuns,
         OffsetSmoothingRuns, TreeOdometryRuns, TreeContactsRuns
<1>3. QED
  BY <1>1, <1>2, PTL DEF AllSpec, K!Spec

--------------------------------------------------------------------------------
(* DeviceEstimation *)

\* A run holds deviceMutex from the reading to the kinematics, and the device is attached.
RunsAttached == est_run = "kinematics" => est_driver = "attached"

\* Nothing is left to be written before the settings port is used, or before the device is opened.
PatchedByThePort == /\ ~est_edited => est_patch = <<>>
                    /\ est_driver = "opening" /\ est_opened = 0 =>
                         est_settings.source = "imu" /\ ~est_edited

EstimationKept == /\ D!TypeOK /\ RunsAttached /\ PatchedByThePort
                  /\ D!FTsNotMixed /\ D!FTsAreNumbers /\ D!ReadMeansFresh
                  /\ D!FixedFrameIsValid /\ D!OneSourceInARun

\* The last of the sensors that answered.
LEMMA EstimationGreatest ==
  ASSUME NEW n \in Nat, NEW S \in SUBSET (1..n), S # {}
  PROVE  D!Max(S) \in S /\ \A k \in S : k <= D!Max(S)
<1>1. PICK i \in S : \A k \in S : k <= i
  <2>1. S \in SUBSET Nat /\ \A k \in S : k <= n
    OBVIOUS
  <2>2. QED
    BY <2>1, GreatestOfNaturals
<1>2. i \in Int /\ \A k \in S : k \in Int
  OBVIOUS
<1>3. \A k \in S : i >= k
  BY <1>1, <1>2
<1>4. QED
  BY <1>1, <1>2, <1>3 DEF D!Max

\* What a sensor leaves in the buffer that all share is a measure of its own (WholeBodyDynamicsDevice.cpp:1004-1036).
LEMMA BufferIsAMeasure ==
  ASSUME NEW outcome \in D!Outcomes, NEW before \in D!Measures, NEW s \in 0..est_NFts
  PROVE  /\ D!BufferAt(outcome, before, s) \in D!Measures
         /\ s \in D!Fts /\ outcome[s] # "failed" =>
              D!BufferAt(outcome, before, s)
                = [of |-> s, age |-> IF outcome[s] = "nan" THEN "nan" ELSE "fresh"]
<1> DEFINE got == {k \in 1..s : outcome[k] # "failed"}
<1>1. CASE got = {}
  BY <1>1 DEF D!BufferAt, D!Fts
<1>2. CASE got # {}
  <2>1. s \in Nat /\ got \in SUBSET (1..s)
    BY EstimationAssumption
  <2>2. D!Max(got) \in got /\ \A k \in got : k <= D!Max(got)
    BY <1>2, <2>1, EstimationGreatest
  <2>3. D!BufferAt(outcome, before, s)
          = [of |-> D!Max(got), age |-> IF outcome[D!Max(got)] = "nan" THEN "nan" ELSE "fresh"]
    BY <1>2 DEF D!BufferAt
  <2>4. D!Max(got) \in 0..est_NFts
    BY <2>1, <2>2, EstimationAssumption
  <2>5. s \in got => D!Max(got) = s
    BY <2>1, <2>2
  <2>6. s \in D!Fts /\ outcome[s] # "failed" => s \in got
    BY DEF D!Fts
  <2> HIDE DEF got
  <2>7. QED
    BY <2>3, <2>4, <2>5, <2>6 DEF D!Measures, D!Ages
<1>3. QED
  BY <1>1, <1>2

\* A reading keeps for each sensor a number of its own, and success means that all are fresh, whatever the
\* sensors answer (998-1043).
LEMMA ReadFTsIsRight ==
  ASSUME NEW outcome \in D!Outcomes, NEW before \in D!Measures, NEW raw0 \in [D!Fts -> D!Measures],
         \A s \in D!Fts : raw0[s].of \in {0, s} /\ raw0[s].age # "nan"
  PROVE  LET r == D!ReadFTSensors(outcome, raw0, before) IN
         /\ r.raw \in [D!Fts -> D!Measures] /\ r.buffer \in D!Measures /\ r.ok \in BOOLEAN
         /\ \A s \in D!Fts : r.raw[s].of \in {0, s} /\ r.raw[s].age # "nan"
         /\ r.ok => \A s \in D!Fts : r.raw[s].age = "fresh"
<1> DEFINE at(s) == D!BufferAt(outcome, before, s)
           nans == {s \in D!Fts : D!IsNan(at(s))}
           r == D!ReadFTSensors(outcome, raw0, before)
<1>1. /\ r.raw = [s \in D!Fts |-> IF D!Stored(outcome, s) /\ \A k \in nans : s < k THEN at(s) ELSE raw0[s]]
      /\ r.buffer = at(D!Min(nans \cup {est_NFts}))
      /\ r.ok = (nans = {} /\ \A s \in D!Fts : outcome[s] # "failed")
  BY DEF D!ReadFTSensors
<1> HIDE DEF r
<1>2. r.ok \in BOOLEAN
  BY <1>1
<1>3. D!Min(nans \cup {est_NFts}) \in 0..est_NFts
  <2> DEFINE S == nans \cup {est_NFts}
  <2>1. S \in SUBSET Nat /\ S # {} /\ S \subseteq 0..est_NFts
    BY EstimationAssumption DEF D!Fts
  <2>2. PICK m \in S : \A k \in S : m <= k
    BY <2>1, LeastNatural
  <2>3. D!Min(S) \in S
    BY <2>2 DEF D!Min
  <2>4. QED
    BY <2>1, <2>3
<1>4. r.buffer \in D!Measures
  BY <1>1, <1>3, BufferIsAMeasure
<1>5. ASSUME NEW s \in D!Fts
      PROVE  /\ r.raw[s] \in D!Measures /\ r.raw[s].of \in {0, s} /\ r.raw[s].age # "nan"
             /\ r.ok => r.raw[s].age = "fresh"
  <2>0. s \in 0..est_NFts /\ ~(s < s)
    BY EstimationAssumption DEF D!Fts
  <2>1. CASE D!Stored(outcome, s) /\ \A k \in nans : s < k
    <3>1. r.raw[s] = at(s) /\ ~D!IsNan(at(s))
      BY <1>1, <2>0, <2>1
    <3>2. at(s) = [of |-> s, age |-> IF outcome[s] = "nan" THEN "nan" ELSE "fresh"]
        /\ at(s) \in D!Measures
      BY <2>0, <2>1, BufferIsAMeasure DEF D!Stored
    <3> HIDE DEF at
    <3>3. QED
      BY <3>1, <3>2 DEF D!IsNan
  <2>2. CASE ~(D!Stored(outcome, s) /\ \A k \in nans : s < k)
    <3>1. r.raw[s] = raw0[s]
      BY <1>1, <2>2
    <3>2. ~r.ok
      BY <1>1, <2>2 DEF D!Stored
    <3>3. QED
      BY <3>1, <3>2
  <2>3. QED
    BY <2>1, <2>2
<1>6. r.raw \in [D!Fts -> D!Measures]
  BY <1>1, <1>5
<1>7. QED
  BY <1>2, <1>4, <1>5, <1>6 DEF r

\* Nothing is read or attached at the start.
LEMMA EstimationInit == D!Init => EstimationKept
<1> SUFFICES ASSUME D!Init PROVE EstimationKept
  OBVIOUS
<1>1. D!TypeOK
  <2>1. Len(D!Stages) = 11
    BY DEF D!Stages
  <2>2. est_raw \in [D!Fts -> D!Measures] /\ est_ftBuffer \in D!Measures
    BY EstimationAssumption DEF D!Init, D!Measures, D!Ages
  <2>3. est_settings \in D!Settings
    BY DEF D!Init, D!Settings, D!Names
  <2>4. est_config \in [fixed : D!Names, wrong : 0..Len(D!Stages)]
      /\ est_opened \in 0..Len(D!Stages)
    BY <2>1 DEF D!Init
  <2>5. est_joints \in [pos : D!Ages, what : D!Velocities] /\ est_imu \in D!Ages
    BY DEF D!Init, D!Ages, D!Velocities
  <2>6. est_patch \in {<<>>}
    BY DEF D!Init
  <2>7. /\ est_driver = "opening" /\ est_run = "asleep" /\ est_readFor \in D!Sources
        /\ est_kinematics \in D!Sources \cup {"none"}
        /\ est_sensorsOk \in BOOLEAN /\ est_edited \in BOOLEAN
    BY DEF D!Init, D!Sources
  <2>8. QED
    BY <2>2, <2>3, <2>4, <2>5, <2>6, <2>7 DEF D!TypeOK
<1>2. RunsAttached /\ PatchedByThePort
  BY DEF D!Init, RunsAttached, PatchedByThePort
<1>3. D!FTsNotMixed /\ D!FTsAreNumbers /\ D!ReadMeansFresh /\ D!FixedFrameIsValid
    /\ D!OneSourceInARun
  BY DEF D!Init, D!FTsNotMixed, D!FTsAreNumbers, D!ReadMeansFresh, D!FixedFrameIsValid,
     D!OneSourceInARun
<1>4. QED
  BY <1>1, <1>2, <1>3 DEF EstimationKept

\* open accepts a frame of the model only (349-455).
LEMMA EstimationOpens ==
  ASSUME EstimationKept, D!OpenSettings \/ D!OpenStage \/ D!Attach
  PROVE  EstimationKept'
<1>0. Len(D!Stages) = 11 /\ D!Stages = D!Stages'
  BY DEF D!Stages
<1> USE DEF EstimationKept, D!measures
<1>1. D!TypeOK'
  <2>a. est_opened \in 0..11
      /\ est_driver \in {"opening", "opened", "failed", "reading fts", "reading imu", "attached"}
    BY <1>0 DEF D!TypeOK
  <2>b. est_opened' \in 0..11
    <3>1. CASE D!OpenSettings
      BY <2>a, <3>1 DEF D!OpenSettings
    <3>2. CASE D!OpenStage
      <4>1. est_opened \in 1..10 /\ est_opened' \in {est_opened, est_opened + 1}
        BY <1>0, <2>a, <3>2 DEF D!OpenStage
      <4>2. QED
        BY <4>1
    <3>3. CASE D!Attach
      BY <2>a, <3>3 DEF D!Attach
    <3>4. QED
      BY <3>1, <3>2, <3>3
  <2>c. est_driver' \in {"opening", "opened", "failed", "reading fts", "reading imu", "attached"}
    BY <2>a DEF D!OpenSettings, D!OpenStage, D!Attach
  <2>1. est_opened' \in 0..Len(D!Stages)
      /\ est_driver' \in {"opening", "opened", "failed", "reading fts", "reading imu", "attached"}
    BY <1>0, <2>b, <2>c
  <2>2. est_settings' \in D!Settings
    BY DEF D!TypeOK, D!OpenSettings, D!OpenStage, D!Attach, D!Settings
  <2>3. QED
    BY <1>0, <2>1, <2>2 DEF D!TypeOK, D!OpenSettings, D!OpenStage, D!Attach
<1>2. est_run = "asleep" /\ est_run' = "asleep"
  BY DEF D!TypeOK, D!OpenSettings, D!OpenStage, D!Attach, RunsAttached
<1>3. RunsAttached' /\ D!ReadMeansFresh' /\ D!OneSourceInARun'
  BY <1>2 DEF RunsAttached, D!ReadMeansFresh, D!OneSourceInARun
<1>4. D!FTsNotMixed' /\ D!FTsAreNumbers'
  BY DEF D!FTsNotMixed, D!FTsAreNumbers, D!OpenSettings, D!OpenStage, D!Attach
<1>5. PatchedByThePort' /\ D!FixedFrameIsValid'
  <2>1. CASE D!OpenSettings
    BY <2>1 DEF D!OpenSettings, D!Known, PatchedByThePort, D!FixedFrameIsValid, D!TypeOK, D!Settings
  <2>2. CASE D!OpenStage \/ D!Attach
    <3>1. ~(est_driver' = "opening" /\ est_opened' = 0)
        /\ UNCHANGED <<est_settings, est_edited, est_patch>>
      <4>1. CASE D!OpenStage
        <5>1. est_opened \in 1..10 /\ est_opened' \in {est_opened, est_opened + 1}
          BY <1>0, <4>1 DEF D!OpenStage
        <5>2. est_opened' # 0
          BY <5>1
        <5>3. QED
          BY <4>1, <5>2 DEF D!OpenStage
      <4>2. CASE D!Attach
        BY <4>2 DEF D!Attach
      <4>3. QED
        BY <2>2, <4>1, <4>2
    <3>2. QED
      BY <3>1 DEF PatchedByThePort, D!FixedFrameIsValid
  <2>3. QED
    BY <2>1, <2>2
<1>6. QED
  BY <1>1, <1>3, <1>4, <1>5

\* attachAll reads the sensors once (930-972).
LEMMA EstimationAttaches ==
  ASSUME EstimationKept, D!AttachSensors
  PROVE  EstimationKept'
<1> USE DEF EstimationKept
<1>0. D!Stages = D!Stages' /\ D!Fts = D!Fts'
  BY DEF D!Stages, D!Fts
<1>1. /\ est_run = "asleep" /\ est_run' = "asleep"
      /\ UNCHANGED <<est_config, est_opened, est_settings, est_joints, est_sensorsOk, est_readFor,
                     est_kinematics, est_patch, est_edited>>
      /\ est_driver' \in {"reading fts", "reading imu", "attached"} /\ est_driver # "opening"
  BY DEF D!AttachSensors, D!AttachFTs, D!AttachIMUs, RunsAttached, D!TypeOK
<1>2. /\ est_raw' \in [D!Fts -> D!Measures] /\ est_ftBuffer' \in D!Measures /\ est_imu' \in D!Ages
      /\ \A s \in D!Fts : est_raw'[s].of \in {0, s} /\ est_raw'[s].age # "nan"
  <2>1. CASE est_driver = "reading fts" /\ \E o \in D!Outcomes : D!AttachFTs(o)
    <3>1. PICK o \in D!Outcomes : D!AttachFTs(o)
      BY <2>1
    <3> DEFINE r == D!ReadFTSensors(o, est_raw, est_ftBuffer)
    <3>2. est_raw' = r.raw /\ est_ftBuffer' = r.buffer /\ est_imu' = est_imu
      BY <3>1 DEF D!AttachFTs
    <3>a. /\ est_raw \in [D!Fts -> D!Measures] /\ est_ftBuffer \in D!Measures
          /\ \A s \in D!Fts : est_raw[s].of \in {0, s} /\ est_raw[s].age # "nan"
      BY DEF D!TypeOK, D!FTsNotMixed, D!FTsAreNumbers
    <3>3. /\ r.raw \in [D!Fts -> D!Measures] /\ r.buffer \in D!Measures
          /\ \A s \in D!Fts : r.raw[s].of \in {0, s} /\ r.raw[s].age # "nan"
      BY <3>a, ReadFTsIsRight
    <3> HIDE DEF r
    <3>4. QED
      BY <3>2, <3>3 DEF D!TypeOK
  <2>2. CASE \E ok \in BOOLEAN : D!AttachIMUs(ok)
    BY <2>2 DEF D!AttachIMUs, D!TypeOK, D!Ages, D!FTsNotMixed, D!FTsAreNumbers
  <2>3. QED
    BY <2>1, <2>2 DEF D!AttachSensors
<1>3. D!TypeOK'
  BY <1>0, <1>1, <1>2 DEF D!TypeOK
<1>4. RunsAttached' /\ D!ReadMeansFresh' /\ D!OneSourceInARun'
  BY <1>1 DEF RunsAttached, D!ReadMeansFresh, D!OneSourceInARun
<1>5. D!FTsNotMixed' /\ D!FTsAreNumbers'
  BY <1>0, <1>2 DEF D!FTsNotMixed, D!FTsAreNumbers
<1>6. PatchedByThePort' /\ D!FixedFrameIsValid'
  BY <1>1 DEF PatchedByThePort, D!FixedFrameIsValid
<1>7. QED
  BY <1>3, <1>4, <1>5, <1>6

\* The calls that choose a source wait for the settings only.
LEMMA EstimationCalls ==
  ASSUME EstimationKept, NEW settings2 \in D!Settings, D!Call(settings2),
         ~est_edited /\ settings2.source = "fixed" => settings2.frame \in est_ModelFrames
  PROVE  EstimationKept'
<1> USE DEF EstimationKept
<1>0. D!Stages = D!Stages' /\ D!Fts = D!Fts'
  BY DEF D!Stages, D!Fts
<1>1. /\ est_run = "asleep" /\ est_settings' = settings2
      /\ est_driver \in {"opened", "failed", "attached"} /\ est_opened >= 5
      /\ UNCHANGED <<est_config, est_driver, est_opened, est_run, D!measures, est_kinematics,
                     est_patch, est_edited>>
  BY DEF D!Call, D!CallWith, D!CallWhen
<1>2. UNCHANGED <<est_raw, est_ftBuffer, est_joints, est_imu, est_sensorsOk, est_readFor>>
  BY <1>1 DEF D!measures
<1>3. D!TypeOK'
  BY <1>0, <1>1, <1>2 DEF D!TypeOK
<1>4. RunsAttached' /\ D!ReadMeansFresh' /\ D!OneSourceInARun'
  BY <1>1 DEF RunsAttached, D!ReadMeansFresh, D!OneSourceInARun
<1>5. D!FTsNotMixed' /\ D!FTsAreNumbers'
  BY <1>0, <1>2 DEF D!FTsNotMixed, D!FTsAreNumbers
<1>6. PatchedByThePort' /\ D!FixedFrameIsValid'
  BY <1>1 DEF PatchedByThePort, D!FixedFrameIsValid
<1>7. QED
  BY <1>3, <1>4, <1>5, <1>6

\* The setters change the settings and mark them (2045-2190).
LEMMA EstimationSettings ==
  ASSUME EstimationKept,
         \/ \E f \in est_Frames : D!UseFixedFrame(f)
         \/ D!UseIMU
         \/ \E b \in BOOLEAN : D!SetUseOfJointVelocities(b) \/ D!SetUseOfJointAccelerations(b)
  PROVE  EstimationKept'
<1>0. est_settings \in D!Settings /\ D!FixedFrameIsValid
  BY DEF EstimationKept, D!TypeOK
<1>1. ASSUME NEW f \in est_Frames, D!UseFixedFrame(f) PROVE EstimationKept'
  <2> DEFINE s == [est_settings EXCEPT !.source = "fixed", !.frame = f]
  <2>1. s \in D!Settings /\ s.frame = f
    BY <1>0 DEF D!Settings, D!Names
  <2>2. f \in est_ModelFrames /\ D!Call(s)
    BY <1>1 DEF D!UseFixedFrame, D!UseFixedFrameIn
  <2> HIDE DEF s
  <2>3. QED
    BY <2>1, <2>2, EstimationCalls
<1>2. ASSUME D!UseIMU PROVE EstimationKept'
  <2> DEFINE s == [est_settings EXCEPT !.source = "imu"]
  <2>1. s \in D!Settings /\ s.source = "imu"
    BY <1>0 DEF D!Settings
  <2>2. D!Call(s)
    BY <1>2 DEF D!UseIMU
  <2> HIDE DEF s
  <2>3. QED
    BY <2>1, <2>2, EstimationCalls
<1>3. ASSUME NEW b \in BOOLEAN, D!SetUseOfJointVelocities(b) \/ D!SetUseOfJointAccelerations(b) PROVE EstimationKept'
  <2>1. PICK s : /\ s \in D!Settings /\ s.source = est_settings.source
                 /\ s.frame = est_settings.frame
                 /\ D!Call(s)
    <3>1. CASE D!SetUseOfJointVelocities(b)
      <4>1. [est_settings EXCEPT !.velocity = b] \in D!Settings
        BY <1>0 DEF D!Settings
      <4>2. QED
        BY <1>0, <3>1, <4>1 DEF D!SetUseOfJointVelocities, D!Settings
    <3>2. CASE D!SetUseOfJointAccelerations(b)
      <4>1. [est_settings EXCEPT !.acceleration = b] \in D!Settings
        BY <1>0 DEF D!Settings
      <4>2. QED
        BY <1>0, <3>2, <4>1 DEF D!SetUseOfJointAccelerations, D!Settings
    <3>3. QED
      BY <1>3, <3>1, <3>2
  <2>2. QED
    BY <1>0, <2>1, EstimationCalls DEF D!FixedFrameIsValid
<1>4. QED
  BY <1>1, <1>2, <1>3

\* The port patches the settings of the driver, and what the port patched is edited.
LEMMA EstimationPatches ==
  ASSUME EstimationKept, D!StartPatch \/ D!PatchField
  PROVE  EstimationKept'
<1> USE DEF EstimationKept
<1>0. D!Stages = D!Stages' /\ D!Fts = D!Fts'
  BY DEF D!Stages, D!Fts
<1>1. /\ est_edited' /\ est_edited' \in BOOLEAN
      /\ UNCHANGED <<est_config, est_driver, est_opened, est_run, est_raw, est_ftBuffer,
                     est_joints, est_imu, est_sensorsOk, est_readFor, est_kinematics>>
  BY DEF D!StartPatch, D!PatchField, D!measures, PatchedByThePort, D!TypeOK
<1>2. \A e \in D!Edits : \/ e[1] = "source" /\ e[2] \in {"imu", "fixed"}
                         \/ e[1] = "frame" /\ e[2] \in D!Names
                         \/ e[1] = "bad"
  BY DEF D!Edits, D!Names, D!Sources
<1>3. est_settings' \in D!Settings
    /\ est_patch' \in {<<>>} \cup {<<e>> : e \in D!Edits} \cup D!Patches
  <2>1. CASE D!StartPatch
    BY <2>1 DEF D!StartPatch, D!TypeOK
  <2>2. CASE D!PatchField
    <3>1. est_patch # <<>> /\ est_patch \in {<<e>> : e \in D!Edits} \cup D!Patches
      BY <2>2 DEF D!PatchField, D!TypeOK
    <3>2. Head(est_patch) \in D!Edits
        /\ (Tail(est_patch) = <<>> \/ \E e \in D!Edits : Tail(est_patch) = <<e>>)
      <4>1. CASE est_patch \in {<<e>> : e \in D!Edits}
        <5>1. PICK e \in D!Edits : est_patch = <<e>>
          BY <4>1
        <5>2. Head(est_patch) = e /\ Tail(est_patch) = <<>>
          BY <5>1
        <5>3. QED
          BY <5>2
      <4>2. CASE est_patch \in D!Patches
        <5>1. PICK e1 \in D!Edits, e2 \in D!Edits : est_patch = <<e1, e2>>
          BY <4>2 DEF D!Patches
        <5>2. QED
          BY <5>1
      <4>3. QED
        BY <3>1, <4>1, <4>2
    <3>3. est_settings \in D!Settings
      BY DEF D!TypeOK
    <3> DEFINE e == Head(est_patch)
    <3>4. /\ est_settings' = CASE e[1] = "source" -> [est_settings EXCEPT !.source = e[2]]
                           [] e[1] = "frame" -> [est_settings EXCEPT !.frame = e[2]]
                           [] e[1] = "bad" -> est_settings
          /\ est_patch' = IF e[1] = "bad" THEN <<>> ELSE Tail(est_patch)
      BY <2>2 DEF D!PatchField
    <3>5. e \in D!Edits
      BY <3>2
    <3> HIDE DEF e
    <3>6. est_settings' \in D!Settings
      BY <1>2, <3>3, <3>4, <3>5 DEF D!Settings
    <3>7. QED
      BY <3>2, <3>4, <3>6
  <2>3. QED
    BY <2>1, <2>2
<1>4. D!TypeOK'
  BY <1>0, <1>1, <1>3 DEF D!TypeOK
<1>5. PatchedByThePort'
  <2>1. ~(est_driver' = "opening" /\ est_opened' = 0)
    <3>1. CASE D!StartPatch
      BY <1>1, <3>1 DEF D!StartPatch
    <3>2. CASE D!PatchField
      BY <1>1, <3>2 DEF D!PatchField, PatchedByThePort
    <3>3. QED
      BY <3>1, <3>2
  <2>2. QED
    BY <1>1, <2>1 DEF PatchedByThePort
<1>6. D!FixedFrameIsValid' /\ D!OneSourceInARun'
  BY <1>1 DEF D!FixedFrameIsValid, D!OneSourceInARun
<1>7. D!FTsNotMixed' /\ D!FTsAreNumbers' /\ D!ReadMeansFresh' /\ RunsAttached'
  BY <1>0, <1>1 DEF D!FTsNotMixed, D!FTsAreNumbers, D!ReadMeansFresh, RunsAttached
<1>8. QED
  BY <1>4, <1>5, <1>6, <1>7

\* A run reads the sensors (1046-1187).
LEMMA EstimationReads ==
  ASSUME EstimationKept, NEW encodersOk \in BOOLEAN, NEW imuOk \in BOOLEAN, NEW o \in D!Outcomes,
         D!RunRead(encodersOk, o, imuOk)
  PROVE  EstimationKept'
<1> USE DEF EstimationKept
<1>0. D!Stages = D!Stages' /\ D!Fts = D!Fts'
  BY DEF D!Stages, D!Fts
<1> DEFINE r == D!ReadFTSensors(o, est_raw, est_ftBuffer)
<1>1. /\ r.raw \in [D!Fts -> D!Measures] /\ r.buffer \in D!Measures /\ r.ok \in BOOLEAN
      /\ \A s \in D!Fts : r.raw[s].of \in {0, s} /\ r.raw[s].age # "nan"
      /\ r.ok => \A s \in D!Fts : r.raw[s].age = "fresh"
  BY ReadFTsIsRight DEF D!TypeOK, D!FTsNotMixed, D!FTsAreNumbers
<1>2. /\ est_driver = "attached" /\ est_run = "asleep" /\ est_run' = "kinematics"
      /\ est_readFor' = est_settings.source
      /\ est_raw' = r.raw /\ est_ftBuffer' = r.buffer
      /\ est_sensorsOk' = IF est_settings.source = "imu" THEN imuOk /\ r.ok /\ encodersOk ELSE r.ok
         /\ encodersOk
      /\ est_joints' = [pos |-> IF encodersOk THEN "fresh" ELSE est_joints.pos,
                    what |-> IF ~est_settings.velocity THEN "zero"
                             ELSE IF encodersOk THEN "velocity" ELSE est_joints.what]
      /\ est_imu' = IF est_settings.source # "imu" THEN est_imu ELSE IF imuOk THEN "fresh" ELSE "none"
      /\ UNCHANGED <<est_config, est_driver, est_opened, est_settings, est_kinematics, est_patch,
                     est_edited>>
  BY DEF D!RunRead, D!Kept
<1> HIDE DEF r
<1>3. D!TypeOK'
  <2>1. est_sensorsOk' \in BOOLEAN /\ est_readFor' \in D!Sources /\ est_imu' \in D!Ages
    BY <1>1, <1>2 DEF D!TypeOK, D!Settings, D!Sources, D!Ages
  <2>2. est_joints' \in [pos : D!Ages, what : D!Velocities]
    BY <1>2 DEF D!TypeOK, D!Ages, D!Velocities
  <2>3. QED
    BY <1>0, <1>1, <1>2, <2>1, <2>2 DEF D!TypeOK
<1>4. D!ReadMeansFresh'
  <2>1. est_sensorsOk' => r.ok /\ encodersOk /\ (est_settings.source = "imu" => imuOk)
    BY <1>1, <1>2
  <2>2. QED
    BY <1>0, <1>1, <1>2, <2>1 DEF D!ReadMeansFresh
<1>5. D!FTsNotMixed' /\ D!FTsAreNumbers'
  BY <1>0, <1>1, <1>2 DEF D!FTsNotMixed, D!FTsAreNumbers
<1>6. PatchedByThePort' /\ D!FixedFrameIsValid' /\ RunsAttached' /\ D!OneSourceInARun'
  BY <1>2 DEF PatchedByThePort, D!FixedFrameIsValid, RunsAttached, D!OneSourceInARun
<1>7. QED
  BY <1>3, <1>4, <1>5, <1>6

\* A run takes its source, from the settings that it found (1568-1652).
LEMMA EstimationUpdates ==
  ASSUME EstimationKept, D!RunKinematics
  PROVE  EstimationKept'
<1> USE DEF EstimationKept
<1>0. D!Stages = D!Stages' /\ D!Fts = D!Fts'
  BY DEF D!Stages, D!Fts
<1>1. /\ est_run' = "asleep" /\ est_kinematics' = est_settings.source
      /\ est_joints' = [pos |-> D!Aged(est_joints.pos),
                    what |-> IF est_settings.acceleration THEN "acceleration" ELSE est_joints.what]
      /\ est_raw' = [s \in D!Fts |-> D!AgedFt(est_raw[s])] /\ est_ftBuffer' = D!AgedFt(est_ftBuffer)
      /\ est_imu' = D!Aged(est_imu)
      /\ UNCHANGED <<est_config, est_driver, est_opened, est_settings, est_sensorsOk, est_readFor,
                     est_patch, est_edited>>
  BY DEF D!RunKinematics, D!RunKinematicsFrom
<1>2. ASSUME NEW m \in D!Measures PROVE D!AgedFt(m) \in D!Measures /\ D!AgedFt(m).of = m.of
                                    /\ (m.age # "nan" => D!AgedFt(m).age # "nan")
  BY DEF D!AgedFt, D!Aged, D!Measures, D!Ages
<1>3. D!TypeOK'
  <2>1. est_raw' \in [D!Fts -> D!Measures] /\ est_ftBuffer' \in D!Measures
    BY <1>1, <1>2 DEF D!TypeOK
  <2>2. est_joints' \in [pos : D!Ages, what : D!Velocities] /\ est_imu' \in D!Ages
    BY <1>1 DEF D!TypeOK, D!Ages, D!Velocities, D!Aged
  <2>3. est_run' \in {"asleep", "kinematics"} /\ est_kinematics' \in D!Sources \cup {"none"}
    BY <1>1 DEF D!TypeOK, D!Settings, D!Sources
  <2>4. QED
    BY <1>0, <1>1, <2>1, <2>2, <2>3 DEF D!TypeOK
<1>4. D!FTsNotMixed' /\ D!FTsAreNumbers'
  BY <1>0, <1>1, <1>2 DEF D!FTsNotMixed, D!FTsAreNumbers, D!TypeOK
<1>5. PatchedByThePort' /\ D!FixedFrameIsValid' /\ RunsAttached' /\ D!OneSourceInARun'
    /\ D!ReadMeansFresh'
  BY <1>1 DEF PatchedByThePort, D!FixedFrameIsValid, RunsAttached, D!OneSourceInARun,
     D!ReadMeansFresh
<1>6. QED
  BY <1>3, <1>4, <1>5

\* Every step keeps the invariant.
LEMMA EstimationNext == EstimationKept /\ [D!Next]_(D!estimationVars) => EstimationKept'
<1> SUFFICES ASSUME EstimationKept, [D!Next]_(D!estimationVars) PROVE EstimationKept'
  OBVIOUS
<1>1. CASE D!OpenSettings \/ D!OpenStage \/ D!Attach
  BY <1>1, EstimationOpens
<1>2. CASE D!AttachSensors
  BY <1>2, EstimationAttaches
<1>3. CASE \/ \E f \in est_Frames : D!UseFixedFrame(f)
           \/ D!UseIMU
           \/ \E b \in BOOLEAN : D!SetUseOfJointVelocities(b) \/ D!SetUseOfJointAccelerations(b)
  BY <1>3, EstimationSettings
<1>4. CASE D!StartPatch \/ D!PatchField
  BY <1>4, EstimationPatches
<1>5. CASE \E encodersOk, imuOk \in BOOLEAN, o \in D!Outcomes : D!RunRead(encodersOk, o, imuOk)
  BY <1>5, EstimationReads
<1>6. CASE D!RunKinematics
  BY <1>6, EstimationUpdates
<1>7. CASE UNCHANGED D!estimationVars
  <2>1. D!Stages = D!Stages' /\ D!Fts = D!Fts'
    BY DEF D!Stages, D!Fts
  <2>2. QED
    BY <1>7, <2>1 DEF D!estimationVars, D!measures, EstimationKept, D!TypeOK, RunsAttached,
       PatchedByThePort,
         D!FTsNotMixed, D!FTsAreNumbers, D!ReadMeansFresh, D!FixedFrameIsValid, D!OneSourceInARun
<1>8. QED
  BY <1>1, <1>2, <1>3, <1>4, <1>5, <1>6, <1>7 DEF D!Next

\* The invariant of the estimation.
LEMMA EstimationAlways == D!Spec => []EstimationKept
<1>1. EstimationKept /\ [D!Next]_(D!estimationVars) => EstimationKept'
  BY EstimationNext
<1>2. QED
  BY EstimationInit, <1>1, PTL DEF D!Spec

\* A behaviour of all the components is one of DeviceEstimation, which takes its steps or none.
LEMMA EstimationBehaves == AllSpec => D!Spec
<1>1. AllInit => D!Init
  BY DEF AllInit
<1>2. [AllNext]_allVars => [D!Next]_(D!estimationVars)
  BY DEF AllNext, allVars, estVars, D!estimationVars, DeviceEstimationRuns, ContactPointsRuns,
         SettingsEditorRuns, RemoteCallsRuns, FloatingBaseRuns, VirtualAnalogRuns,
         OffsetSmoothingRuns, TreeOdometryRuns, TreeContactsRuns
<1>3. QED
  BY <1>1, <1>2, PTL DEF AllSpec, D!Spec

--------------------------------------------------------------------------------
(* VirtualAnalog *)

\* An axis that is mapped is mapped to the channel of its name.
Placed(map) ==
  /\ DOMAIN map = DOMAIN analog_axes
  /\ \A i \in DOMAIN analog_axes :
       /\ map[i] \in [dev : analog_Devices \cup {V!NoDevice}, local : Nat, vector : BOOLEAN]
       /\ map[i].dev # V!NoDevice => /\ map[i].local \in V!Channels(map[i].dev)
                                     /\ analog_NamesOf[map[i].dev][map[i].local] = analog_axes[i]

\* The table of a device has an entry for each channel, and is full if the device is updated as a whole.
Tables ==
  \A k \in DOMAIN analog_subs :
    /\ analog_subs[k].dev \in analog_Devices
    /\ DOMAIN analog_subs[k].global = V!Channels(analog_subs[k].dev)
    /\ \A c \in V!Channels(analog_subs[k].dev) : analog_subs[k].global[c] \in 0..Len(analog_axes)
    /\ analog_subs[k].vector =>
         \A c \in V!Channels(analog_subs[k].dev) : analog_subs[k].global[c] \in 1..Len(analog_axes)

\* Each device that has an axis is in the list once, and is updated as a whole if all its channels are mapped.
OncePerDevice ==
  /\ \A j, k \in DOMAIN analog_subs : analog_subs[j].dev = analog_subs[k].dev => j = k
  /\ \A k \in DOMAIN analog_subs : analog_subs[k].vector =
       V!Whole(analog_mapped, analog_subs[k].dev)
  /\ \A i \in DOMAIN analog_mapped : analog_mapped[i].dev # V!NoDevice =>
       \E k \in DOMAIN analog_subs : analog_subs[k].dev = analog_mapped[i].dev

\* An axis that is left to the message of its device is in the table of that device.
LeftToTheDevice ==
  \A i \in DOMAIN analog_mapped : analog_mapped[i].dev # V!NoDevice /\ (i > 1 \/ ~analog_again)
      /\ analog_mapped[i].vector =>
    \E k \in DOMAIN analog_subs : /\ analog_subs[k].vector
                                  /\ analog_subs[k].dev = analog_mapped[i].dev
                                  /\ analog_subs[k].global[analog_mapped[i].local] = i
FlaggedAsDevice ==
  \A i \in DOMAIN analog_mapped, k \in DOMAIN analog_subs :
    analog_mapped[i].dev = analog_subs[k].dev => analog_mapped[i].vector = analog_subs[k].vector

AnalogTyped ==
  /\ analog_phase \in {"closed", "open", "attached", "undefined", "gone"}
  /\ analog_axes \in analog_AxesLists /\ analog_again \in BOOLEAN
  /\ \A i \in DOMAIN analog_mapped : analog_mapped[i].dev \in analog_Devices \cup {V!NoDevice}
  /\ \A d \in analog_Devices : analog_buffer[d] \in [V!Channels(d) -> analog_Measures \cup {0}]
  /\ DOMAIN analog_buffer = analog_Devices

AnalogKept ==
  /\ AnalogTyped
  /\ analog_phase \in {"closed", "open", "gone"} => analog_mapped = <<>> /\ analog_subs = <<>>
  /\ analog_phase # "attached" => analog_update = <<>>
  /\ analog_update # <<>> => analog_update \in [DOMAIN analog_axes -> analog_Measures]
  /\ analog_phase = "attached" => /\ Placed(analog_mapped) /\ Tables /\ OncePerDevice
                                  /\ V!IsInjective(analog_axes) => LeftToTheDevice
                                  /\ V!IsInjective(analog_axes) /\ ~analog_again => FlaggedAsDevice
  /\ V!EstimatesArrive /\ V!OneMessageWhenWhole /\ V!OverrunNeedsATwin

\* The instance counts as the module of finite sets does.
LEMMA AnalogCounts == \A S : V!Cardinality(S) = Cardinality(S)
BY DEF Cardinality, V!Cardinality

\* Axes and channels are numbered from one, and finitely many.
LEMMA AxesAreListed ==
  ASSUME AnalogTyped
  PROVE  /\ DOMAIN analog_axes = 1..Len(analog_axes) /\ Len(analog_axes) \in Nat
         /\ \A d \in analog_Devices : V!Channels(d) = 1..Len(analog_NamesOf[d])
            /\ Len(analog_NamesOf[d]) \in Nat
         /\ V!IsInjective(analog_axes) =>
              \A i, j \in DOMAIN analog_axes : analog_axes[i] = analog_axes[j] => i = j
         /\ \A d \in analog_Devices : IsFiniteSet(V!Channels(d))
<1>1. analog_axes \in Seq(STRING)
  BY AnalogAssumption DEF AnalogTyped
<1>2. \A d \in analog_Devices : analog_NamesOf[d] \in Seq(STRING)
  BY AnalogAssumption
<1>3. /\ DOMAIN analog_axes = 1..Len(analog_axes) /\ Len(analog_axes) \in Nat
      /\ \A d \in analog_Devices : V!Channels(d) = 1..Len(analog_NamesOf[d])
         /\ Len(analog_NamesOf[d]) \in Nat
  BY <1>1, <1>2 DEF V!Channels
<1>4. \A d \in analog_Devices : IsFiniteSet(V!Channels(d))
  <2> SUFFICES ASSUME NEW d \in analog_Devices PROVE IsFiniteSet(V!Channels(d))
    OBVIOUS
  <2>1. V!Channels(d) = 1..Len(analog_NamesOf[d]) /\ 1 \in Int /\ Len(analog_NamesOf[d]) \in Int
    BY <1>3
  <2>2. QED
    BY <2>1, FS_Interval
<1>5. V!IsInjective(analog_axes) =>
      \A i, j \in DOMAIN analog_axes : analog_axes[i] = analog_axes[j] => i = j
  BY DEF V!IsInjective
<1>6. QED
  BY <1>3, <1>4, <1>5

\* The last of the places of a list.
LEMMA AnalogGreatest ==
  ASSUME NEW n \in Nat, NEW S \in SUBSET (1..n), S # {}
  PROVE  V!Max(S) \in S /\ \A k \in S : k <= V!Max(S)
<1>1. PICK i \in S : \A k \in S : k <= i
  <2>1. S \in SUBSET Nat /\ \A k \in S : k <= n
    OBVIOUS
  <2>2. QED
    BY <2>1, GreatestOfNaturals
<1>2. i \in Int /\ \A k \in S : k \in Int
  OBVIOUS
<1>3. \A k \in S : i >= k
  BY <1>1, <1>2
<1>4. QED
  BY <1>1, <1>2, <1>3 DEF V!Max

\* What tells all apart is an injection.
LEMMA OneToOne ==
  ASSUME NEW S, NEW T, NEW f \in [S -> T], \A a, b \in S : f[a] = f[b] => a = b
  PROVE  f \in Injection(S, T)
BY DEF Injection, IsInjective

\* If every axis is named once, a device with as many axes as channels has an axis for each.
LEMMA WholeIsOnto ==
  ASSUME AnalogTyped, V!IsInjective(analog_axes), NEW map, Placed(map), NEW d \in analog_Devices, V!Whole(map, d),
         NEW c \in V!Channels(d)
  PROVE  V!Globals(map, d, c) # {}
<1> DEFINE S == {i \in DOMAIN map : map[i].dev = d}
           f == [i \in S |-> map[i].local]
<1>1. d # V!NoDevice
  BY AnalogAssumption
<1>2. f \in [S -> V!Channels(d)]
  BY <1>1 DEF Placed
<1>3. \A a, b \in S : f[a] = f[b] => a = b
  BY <1>1, AxesAreListed DEF Placed
<1>4. f \in Injection(S, V!Channels(d))
  <2> HIDE DEF f, S
  <2>1. QED
    BY <1>2, <1>3, OneToOne
<1>5. IsFiniteSet(V!Channels(d)) /\ V!Cardinality(S) = V!Cardinality(V!Channels(d))
  BY AxesAreListed DEF V!Whole, V!Remapped
<1>6. f \in Surjection(S, V!Channels(d))
  <2> HIDE DEF f, S
  <2>1. QED
    BY <1>4, <1>5, FS_Injection, AnalogCounts
<1>7. PICK i \in S : f[i] = c
  BY <1>6 DEF Surjection
<1>8. i \in V!Globals(map, d, c)
  BY <1>7 DEF V!Globals
<1>9. QED
  BY <1>8

\* The attached devices are numbered from one, and each is there once.
LEMMA ListsAreListed ==
  ASSUME NEW list \in V!Lists
  PROVE  /\ DOMAIN list = 1..Len(list) /\ Len(list) \in Nat
         /\ \A k \in DOMAIN list : list[k] \in analog_Devices
         /\ \A j, k \in DOMAIN list : list[j] = list[k] => j = k
<1>1. PICK n \in 0..V!Cardinality(analog_Devices) : list \in [1..n -> analog_Devices]
  BY DEF V!Lists
<1>2. V!Cardinality(analog_Devices) \in Nat
  BY AnalogAssumption, FS_CardinalityType, AnalogCounts
<1>3. n \in Nat /\ DOMAIN list = 1..n /\ Len(list) = n
  BY <1>1, <1>2
<1>4. \A j, k \in DOMAIN list : list[j] = list[k] => j = k
  BY DEF V!Lists, V!IsInjective
<1>5. QED
  BY <1>1, <1>3, <1>4

\* Each axis is mapped to the channel of its name, on a device of the list (VirtualAnalogRemapper.cpp:84-125).
LEMMA LocatedIsRight ==
  ASSUME AnalogTyped, NEW list \in V!Lists, analog_mapped = <<>> \/ Placed(analog_mapped)
  PROVE  /\ Placed(V!Located(list))
         /\ \A i \in DOMAIN analog_axes : V!Located(list)[i].dev # V!NoDevice =>
              \E k \in DOMAIN list : list[k] = V!Located(list)[i].dev
         /\ analog_mapped = <<>> => \A i \in DOMAIN analog_axes : V!Located(list)[i].vector = FALSE
<1> DEFINE located == V!Located(list)
<1>0. DOMAIN located = DOMAIN analog_axes
  BY DEF V!Located
<1>1. ASSUME NEW i \in DOMAIN analog_axes
      PROVE  /\ located[i] \in [dev : analog_Devices \cup {V!NoDevice}, local : Nat, vector : BOOLEAN]
             /\ located[i].dev # V!NoDevice =>
                  /\ located[i].local \in V!Channels(located[i].dev)
                  /\ analog_NamesOf[located[i].dev][located[i].local] = analog_axes[i]
                  /\ \E k \in DOMAIN list : list[k] = located[i].dev
             /\ analog_mapped = <<>> => located[i].vector = FALSE
  <2> DEFINE at == V!LastWith(list, analog_axes[i])
             old == IF i \in DOMAIN analog_mapped THEN analog_mapped[i].vector ELSE FALSE
             k == CHOOSE k \in at : TRUE
  <2>1. located[i] = IF at = {} THEN [V!Unmapped EXCEPT !.vector = old]
                     ELSE [dev |-> list[k], local |-> V!IndexOf(list[k], analog_axes[i]), vector |-> old]
    BY DEF V!Located
  <2>2. old \in BOOLEAN /\ (analog_mapped = <<>> => old = FALSE)
    <3>1. CASE analog_mapped = <<>>
      BY <3>1
    <3>2. CASE analog_mapped # <<>> /\ i \in DOMAIN analog_mapped
      <4>1. analog_mapped[i] \in [dev : analog_Devices \cup {V!NoDevice}, local : Nat, vector : BOOLEAN]
        BY <3>2 DEF Placed
      <4>2. QED
        BY <3>2, <4>1
    <3>3. CASE analog_mapped # <<>> /\ i \notin DOMAIN analog_mapped
      BY <3>3
    <3>4. QED
      BY <3>1, <3>2, <3>3
  <2> HIDE DEF old
  <2>3. CASE at = {}
    BY <2>1, <2>2, <2>3 DEF V!Unmapped
  <2>4. CASE at # {}
    <3>1. k \in at
      BY <2>4
    <3>2. k \in DOMAIN list /\ analog_axes[i] \in V!ToSet(analog_NamesOf[list[k]])
      BY <3>1 DEF V!LastWith
    <3> HIDE DEF k, at
    <3>3. list[k] \in analog_Devices
      BY <3>2, ListsAreListed
    <3>4. \E c \in V!Channels(list[k]) : analog_NamesOf[list[k]][c] = analog_axes[i]
      BY <3>2 DEF V!ToSet, V!Channels
    <3>5. V!IndexOf(list[k], analog_axes[i]) \in V!Channels(list[k])
          /\ analog_NamesOf[list[k]][V!IndexOf(list[k], analog_axes[i])] = analog_axes[i]
      BY <3>4 DEF V!IndexOf
    <3>6. located[i] =
          [dev |-> list[k], local |-> V!IndexOf(list[k], analog_axes[i]), vector |-> old]
      BY <2>1, <2>4
    <3>a. V!IndexOf(list[k], analog_axes[i]) \in Nat
      BY <3>3, <3>5, AxesAreListed
    <3> HIDE DEF located
    <3>7. QED
      BY <2>2, <3>2, <3>3, <3>5, <3>6, <3>a
  <2>5. QED
    BY <2>3, <2>4
<1> HIDE DEF located
<1>2. QED
  BY <1>0, <1>1 DEF Placed, located

\* The entry of a channel is an axis that is mapped to it, if there is one (VirtualAnalogRemapper.cpp:131-155).
LEMMA EntriesAreRight ==
  ASSUME AnalogTyped, NEW located, Placed(located), NEW k, NEW d \in analog_Devices,
         analog_subs = <<>> \/ Tables
  PROVE  LET global == V!LocalToGlobal(located, k, d) IN
         /\ DOMAIN global = V!Channels(d)
         /\ \A c \in V!Channels(d) :
              /\ global[c] \in 0..Len(analog_axes)
              /\ V!Globals(located, d, c) # {} =>
                   /\ global[c] \in 1..Len(analog_axes)
                   /\ located[global[c]].dev = d /\ located[global[c]].local = c
              /\ V!Globals(located, d, c) = {} /\ analog_subs = <<>> => global[c] = 0
<1> DEFINE global == V!LocalToGlobal(located, k, d)
<1>1. DOMAIN global = V!Channels(d)
  BY DEF V!LocalToGlobal
<1>2. ASSUME NEW c \in V!Channels(d)
      PROVE  /\ global[c] \in 0..Len(analog_axes)
             /\ V!Globals(located, d, c) # {} =>
                  /\ global[c] \in 1..Len(analog_axes)
                  /\ located[global[c]].dev = d /\ located[global[c]].local = c
             /\ V!Globals(located, d, c) = {} /\ analog_subs = <<>> => global[c] = 0
  <2>1. global[c] = IF V!Globals(located, d, c) # {} THEN V!Max(V!Globals(located, d, c))
                    ELSE IF k \in DOMAIN analog_subs
                        /\ c \in DOMAIN analog_subs[k].global THEN analog_subs[k].global[c]
                    ELSE 0
    BY DEF V!LocalToGlobal
  <2> HIDE DEF global
  <2>2. Len(analog_axes) \in Nat
    BY AxesAreListed
  <2>3. CASE V!Globals(located, d, c) # {}
    <3>1. V!Globals(located, d, c) \in SUBSET (1..Len(analog_axes))
      BY AxesAreListed DEF V!Globals, Placed
    <3>2. V!Max(V!Globals(located, d, c)) \in V!Globals(located, d, c)
      BY <2>2, <2>3, <3>1, AnalogGreatest
    <3>3. global[c] \in V!Globals(located, d, c)
      BY <2>1, <2>3, <3>2
    <3>4. QED
      BY <2>2, <2>3, <3>1, <3>3 DEF V!Globals
  <2>4. CASE V!Globals(located, d, c) = {} /\ k \in DOMAIN analog_subs
      /\ c \in DOMAIN analog_subs[k].global
    <3>1. analog_subs # <<>>
      BY <2>4
    <3>2. c \in V!Channels(analog_subs[k].dev) /\ global[c] = analog_subs[k].global[c]
      BY <2>1, <2>4, <3>1 DEF Tables
    <3>3. QED
      BY <2>4, <3>1, <3>2 DEF Tables
  <2>5. CASE V!Globals(located, d, c) = {}
      /\ ~(k \in DOMAIN analog_subs /\ c \in DOMAIN analog_subs[k].global)
    BY <2>1, <2>2, <2>5
  <2>6. QED
    BY <2>3, <2>4, <2>5
<1>3. QED
  BY <1>1, <1>2

\* What the flags have to say, for the table of each device of the list.
FlaggedRight(list, located, tables, map) ==
  /\ Placed(map) /\ \A i \in DOMAIN analog_axes : map[i].dev = located[i].dev
     /\ map[i].local = located[i].local
  /\ \A d : V!Whole(map, d) = V!Whole(located, d)
  /\ V!IsInjective(analog_axes) =>
       \A i \in DOMAIN analog_axes : located[i].dev # V!NoDevice =>
         /\ (i > 1 \/ ~located[i].vector) /\ map[i].vector =>
              \E k \in DOMAIN list : /\ V!Whole(located, list[k]) /\ list[k] = map[i].dev
                                     /\ tables[k][map[i].local] = i
         /\ analog_subs = <<>> /\ located[i].vector = FALSE =>
              \A k \in DOMAIN list : list[k] = map[i].dev =>
                    map[i].vector = V!Whole(located, list[k])

\* The flag of an axis says that its device is updated as a whole and has it in its table, but for what
\* an earlier attachAll has left in the flag of the first (VirtualAnalogRemapper.cpp:157-183).
LEMMA FlagsAreRight ==
  ASSUME AnalogTyped, NEW list \in V!Lists, NEW located, Placed(located), analog_subs =
        <<>> \/ Tables,
         NEW tables, tables = [k \in DOMAIN list |-> V!LocalToGlobal(located, k, list[k])],
         \A i \in DOMAIN analog_axes : located[i].dev # V!NoDevice =>
               \E k \in DOMAIN list : list[k] = located[i].dev
  PROVE  FlaggedRight(list, located, tables, V!Flags(located, tables, list))
<1> DEFINE map == V!Flags(located, tables, list)
           by(i) == {k \in DOMAIN list : i \in V!ToSet(tables[k]) /\ (i > 1 \/ V!Whole(located, list[k]))}
<1>0. /\ DOMAIN list = 1..Len(list) /\ Len(list) \in Nat
      /\ \A k \in DOMAIN list : list[k] \in analog_Devices
      /\ \A j, k \in DOMAIN list : list[j] = list[k] => j = k
  BY ListsAreListed
<1>1. /\ DOMAIN map = DOMAIN analog_axes
      /\ \A i \in DOMAIN analog_axes :
           map[i] = IF by(i) = {} THEN located[i]
                    ELSE [located[i] EXCEPT !.vector = V!Whole(located, list[V!Max(by(i))])]
  BY DEF V!Flags, Placed
<1> HIDE DEF map
<1>2. ASSUME NEW i \in DOMAIN analog_axes
      PROVE  map[i].dev = located[i].dev /\ map[i].local = located[i].local
  <2>1. map[i] = located[i] \/ \E v : map[i] = [located[i] EXCEPT !.vector = v]
    BY <1>1
  <2>a. located[i] \in [dev : analog_Devices \cup {V!NoDevice}, local : Nat, vector : BOOLEAN]
    BY DEF Placed
  <2>2. QED
    BY <2>1, <2>a
<1>3. Placed(map)
  <2>1. ASSUME NEW i \in DOMAIN analog_axes
        PROVE  map[i] \in [dev : analog_Devices \cup {V!NoDevice}, local : Nat, vector : BOOLEAN]
    <3>1. located[i] \in [dev : analog_Devices \cup {V!NoDevice}, local : Nat, vector : BOOLEAN]
      BY DEF Placed
    <3>2. map[i] = located[i] \/ \E v \in BOOLEAN : map[i] = [located[i] EXCEPT !.vector = v]
      BY <1>1 DEF V!Whole
    <3>3. QED
      BY <3>1, <3>2
  <2>2. QED
    BY <1>1, <1>2, <2>1 DEF Placed
<1>4. ASSUME NEW d PROVE V!Whole(map, d) = V!Whole(located, d)
  <2>1. {i \in DOMAIN map : map[i].dev = d} = {i \in DOMAIN located : located[i].dev = d}
    BY <1>1, <1>2 DEF Placed
  <2>2. QED
    BY <2>1 DEF V!Whole, V!Remapped
<1>5. ASSUME NEW i \in DOMAIN analog_axes, by(i) # {}
      PROVE  V!Max(by(i)) \in by(i)
  <2>1. by(i) \in SUBSET (1..Len(list))
    BY <1>0
  <2> HIDE DEF by
  <2>2. QED
    BY <1>0, <1>5, <2>1, AnalogGreatest
<1>6. ASSUME V!IsInjective(analog_axes), NEW i \in DOMAIN analog_axes, located[i].dev # V!NoDevice,
             NEW k \in DOMAIN list, list[k] = located[i].dev
      PROVE  i \in V!ToSet(tables[k]) /\ tables[k][located[i].local] = i
  <2> DEFINE d == list[k]
             c == located[i].local
  <2>1. d \in analog_Devices /\ c \in V!Channels(d) /\ i \in V!Globals(located, d, c)
    BY <1>0, <1>6 DEF V!Globals, Placed
  <2>2. \A j \in V!Globals(located, d, c) : j = i
    BY <1>6, <2>1, AxesAreListed DEF V!Globals, Placed
  <2>3. /\ tables[k] = V!LocalToGlobal(located, k, d)
    OBVIOUS
  <2>4. /\ DOMAIN tables[k] = V!Channels(d)
        /\ tables[k][c] \in 1..Len(analog_axes) /\ located[tables[k][c]].dev = d
        /\ located[tables[k][c]].local = c
    BY <2>1, <2>3, EntriesAreRight
  <2>5. tables[k][c] \in V!Globals(located, d, c)
    BY <2>4, AxesAreListed DEF V!Globals, Placed
  <2>6. tables[k][c] = i
    BY <2>2, <2>5
  <2>7. QED
    BY <2>1, <2>4, <2>6 DEF V!ToSet
<1>7. ASSUME V!IsInjective(analog_axes), NEW i \in DOMAIN analog_axes, NEW k \in DOMAIN list, i \in V!ToSet(tables[k]),
             V!Whole(located, list[k]) \/ analog_subs = <<>>
      PROVE  located[i].dev = list[k]
  <2> DEFINE d == list[k]
  <2>1. d \in analog_Devices /\ tables[k] = V!LocalToGlobal(located, k, d)
    BY <1>0
  <2>2. DOMAIN tables[k] = V!Channels(d)
    BY <2>1, EntriesAreRight
  <2>3. PICK c \in V!Channels(d) : tables[k][c] = i
    BY <1>7, <2>2 DEF V!ToSet
  <2>4. CASE V!Globals(located, d, c) # {}
    BY <2>1, <2>3, <2>4, EntriesAreRight
  <2>5. CASE V!Globals(located, d, c) = {}
    <3>1. analog_subs = <<>>
      BY <1>7, <2>1, <2>5, WholeIsOnto
    <3>2. tables[k][c] = 0
      BY <2>1, <2>5, <3>1, EntriesAreRight
    <3>3. QED
      BY <2>3, <3>2, AxesAreListed
  <2>6. QED
    BY <2>4, <2>5
<1>8. ASSUME V!IsInjective(analog_axes), NEW i \in DOMAIN analog_axes, located[i].dev # V!NoDevice,
             i > 1 \/ ~located[i].vector, map[i].vector
      PROVE  \E k \in DOMAIN list : /\ V!Whole(located, list[k]) /\ list[k] = map[i].dev
                                    /\ tables[k][map[i].local] = i
  <2>1. PICK k \in DOMAIN list : list[k] = located[i].dev
    BY <1>8
  <2>2. i \in V!ToSet(tables[k]) /\ tables[k][located[i].local] = i
    BY <1>6, <1>8, <2>1
  <2>3. by(i) # {}
    <3>1. CASE i > 1
      BY <2>2, <3>1
    <3>2. CASE ~located[i].vector
      BY <1>1, <1>8, <3>2
    <3>3. QED
      BY <1>8, <3>1, <3>2
  <2>4. V!Max(by(i)) \in by(i)
    BY <1>5, <2>3
  <2> DEFINE m == V!Max(by(i))
  <2>5. map[i] = [located[i] EXCEPT !.vector = V!Whole(located, list[m])]
    BY <1>1, <2>3
  <2>6. m \in DOMAIN list /\ i \in V!ToSet(tables[m])
    BY <2>4
  <2> HIDE DEF m, by
  <2>7. V!Whole(located, list[m])
    <3>1. map[i].vector = V!Whole(located, list[m]) \/ map[i].vector = located[i].vector
      BY <2>5
    <3>2. QED
      BY <1>8, <2>5, <3>1
  <2>8. list[m] = located[i].dev
    BY <1>7, <1>8, <2>6, <2>7
  <2>9. QED
    BY <1>0, <1>2, <2>1, <2>2, <2>6, <2>7, <2>8
<1>9. ASSUME V!IsInjective(analog_axes), NEW i \in DOMAIN analog_axes, located[i].dev # V!NoDevice, analog_subs = <<>>,
             located[i].vector = FALSE, NEW k \in DOMAIN list, list[k] = map[i].dev
      PROVE  map[i].vector = V!Whole(located, list[k])
  <2>1. list[k] = located[i].dev
    BY <1>2, <1>9
  <2>2. i \in V!ToSet(tables[k])
    BY <1>6, <1>9, <2>1
  <2>3. \A j \in by(i) : j = k
    BY <1>0, <1>7, <1>9, <2>1
  <2>4. CASE by(i) = {}
    <3>1. ~V!Whole(located, list[k])
      BY <2>2, <2>4
    <3>2. map[i].vector = FALSE
      BY <1>1, <1>9, <2>4
    <3>3. V!Whole(located, list[k]) \in BOOLEAN
      BY DEF V!Whole
    <3>4. QED
      BY <3>1, <3>2, <3>3
  <2>5. CASE by(i) # {}
    <3>1. V!Max(by(i)) = k
      BY <1>5, <2>3, <2>5
    <3>2. map[i] = [located[i] EXCEPT !.vector = V!Whole(located, list[k])]
      BY <1>1, <2>5, <3>1
    <3>3. QED
      BY <3>2 DEF Placed
  <2>6. QED
    BY <2>4, <2>5
<1>10. QED
  BY <1>2, <1>3, <1>4, <1>8, <1>9 DEF map, FlaggedRight

\* attachAll builds the tables of a list of devices (VirtualAnalogRemapper.cpp:84-175).
LEMMA AnalogAttach ==
  ASSUME AnalogKept, NEW list \in V!Lists, NEW axisInfo \in BOOLEAN, V!AttachAll(list, axisInfo)
  PROVE  AnalogKept'
<1> USE DEF AnalogKept
<1>0. /\ analog_phase \in {"open", "attached"} /\ analog_again' = (analog_phase = "attached")
      /\ analog_update' = <<>> /\ analog_axes' = analog_axes /\ analog_buffer' = analog_buffer
  BY DEF V!AttachAll
<1>1. V!EstimatesArrive' /\ V!OneMessageWhenWhole'
  BY <1>0 DEF V!EstimatesArrive, V!OneMessageWhenWhole
<1>2. CASE ~axisInfo
  <2>1. UNCHANGED <<analog_phase, analog_mapped, analog_subs>>
    BY <1>2 DEF V!AttachAll
  <2>2. AnalogTyped'
    BY <1>0, <2>1 DEF AnalogTyped, V!Channels
  <2>3. analog_phase = "attached" => (Placed(analog_mapped) /\ Tables /\ OncePerDevice)'
    BY <1>0, <2>1 DEF Placed, Tables, OncePerDevice, V!Channels, V!Whole, V!Remapped
  <2>4. analog_phase = "attached" /\ V!IsInjective(analog_axes) => LeftToTheDevice'
    BY <1>0, <2>1 DEF LeftToTheDevice
  <2>5. V!OverrunNeedsATwin'
    BY <1>0, <2>1 DEF V!OverrunNeedsATwin
  <2>6. QED
    BY <1>0, <1>1, <2>1, <2>2, <2>3, <2>4, <2>5
<1>3. CASE axisInfo
  <2> DEFINE located == V!Located(list)
             tables == [k \in DOMAIN list |-> V!LocalToGlobal(located, k, list[k])]
             overrun == \E k \in DOMAIN list : V!Whole(located, list[k])
                          /\ \E c \in DOMAIN tables[k] : tables[k][c] = 0
             map == V!Flags(located, tables, list)
  <2>1. /\ analog_phase' = IF overrun THEN "undefined" ELSE "attached"
        /\ analog_mapped' = map
        /\ analog_subs' = [k \in DOMAIN list |->
                     [dev |-> list[k], global |-> tables[k], vector |-> V!Whole(located, list[k])]]
    BY <1>3 DEF V!AttachAll
  <2>a. /\ DOMAIN list = 1..Len(list) /\ Len(list) \in Nat
        /\ \A k \in DOMAIN list : list[k] \in analog_Devices
        /\ \A j, k \in DOMAIN list : list[j] = list[k] => j = k
    BY ListsAreListed
  <2>b. \/ analog_mapped = <<>> /\ analog_subs = <<>>
        \/ analog_phase = "attached" /\ Placed(analog_mapped) /\ Tables
    BY <1>0
  <2>2. /\ Placed(located)
        /\ \A i \in DOMAIN analog_axes : located[i].dev # V!NoDevice =>
             \E k \in DOMAIN list : list[k] = located[i].dev
        /\ analog_mapped = <<>> => \A i \in DOMAIN analog_axes : located[i].vector = FALSE
    BY <2>b, LocatedIsRight
  <2> DEFINE of(k) == V!LocalToGlobal(located, k, list[k])
  <2>3. \A k \in DOMAIN list : tables[k] = of(k)
    OBVIOUS
  <2>4. ASSUME NEW k \in DOMAIN list
        PROVE  /\ DOMAIN tables[k] = V!Channels(list[k])
               /\ \A c \in V!Channels(list[k]) :
                    /\ tables[k][c] \in 0..Len(analog_axes)
                    /\ V!Globals(located, list[k], c) # {} => tables[k][c] \in 1..Len(analog_axes)
    BY <2>a, <2>b, <2>2, <2>3, EntriesAreRight
  <2>c. tables = [k \in DOMAIN list |-> V!LocalToGlobal(located, k, list[k])]
    OBVIOUS
  <2> HIDE DEF tables, of, located
  <2>d. analog_subs = <<>> \/ Tables
    BY <2>b
  <2>5. FlaggedRight(list, located, tables, map)
    BY <2>2, <2>c, <2>d, FlagsAreRight
  <2> HIDE DEF map
  <2> USE DEF FlaggedRight
  <2>6. Placed(analog_mapped)'
    BY <1>0, <2>1, <2>5 DEF Placed, V!Channels
  <2>7. AnalogTyped'
    BY <1>0, <2>1, <2>6 DEF AnalogTyped, Placed, V!Channels
  <2>8. ASSUME ~overrun PROVE Tables'
    <3>1. \A k \in DOMAIN list : V!Whole(located, list[k]) =>
             \A c \in V!Channels(list[k]) : tables[k][c] \in 1..Len(analog_axes)
      BY <2>4, <2>8, AxesAreListed
    <3>2. QED
      BY <1>0, <2>1, <2>a, <2>4, <3>1 DEF Tables, V!Channels
  <2>9. OncePerDevice'
    <3>1. \A k \in DOMAIN list : analog_subs'[k].dev = list[k]
        /\ analog_subs'[k].vector = V!Whole(map, list[k])
      BY <2>1, <2>5
    <3>2. DOMAIN analog_subs' = DOMAIN list
      BY <2>1
    <3>3. \A d : V!Whole(analog_mapped, d)' = V!Whole(map, d)
      BY <2>1 DEF V!Whole, V!Remapped, V!Channels
    <3>4. \A i \in DOMAIN analog_mapped' : analog_mapped'[i].dev # V!NoDevice =>
          \E k \in DOMAIN list : list[k] = analog_mapped'[i].dev
      BY <1>0, <2>1, <2>2, <2>5, <2>6 DEF Placed
    <3>5. QED
      BY <2>a, <3>1, <3>2, <3>3, <3>4 DEF OncePerDevice
  <2>10. V!IsInjective(analog_axes) => LeftToTheDevice'
    <3> SUFFICES ASSUME V!IsInjective(analog_axes), NEW i \in DOMAIN analog_axes, map[i].dev # V!NoDevice, i > 1 \/ ~analog_again', map[i].vector
                 PROVE  \E k \in DOMAIN list : /\ V!Whole(located, list[k]) /\ list[k] = map[i].dev
                                               /\ tables[k][map[i].local] = i
      <4>1. DOMAIN analog_mapped' = DOMAIN analog_axes
        BY <2>1, <2>5 DEF Placed
      <4>2. QED
        BY <2>1, <4>1 DEF LeftToTheDevice
    <3>1. i > 1 \/ ~located[i].vector
      BY <1>0, <2>b, <2>2
    <3>2. located[i].dev # V!NoDevice
      BY <2>5
    <3>3. QED
      BY <2>5, <3>1, <3>2
  <2>11. V!IsInjective(analog_axes) /\ ~analog_again' => FlaggedAsDevice'
    <3> SUFFICES ASSUME V!IsInjective(analog_axes), ~analog_again', NEW i \in DOMAIN analog_axes, NEW k \in DOMAIN list,
                        map[i].dev = list[k]
                 PROVE  map[i].vector = V!Whole(located, list[k])
      <4>1. DOMAIN analog_mapped' = DOMAIN analog_axes
        BY <2>1, <2>5 DEF Placed
      <4>2. QED
        BY <2>1, <4>1 DEF FlaggedAsDevice
    <3>1. analog_subs = <<>> /\ located[i].vector = FALSE
      BY <1>0, <2>b, <2>2
    <3>2. located[i].dev # V!NoDevice
      BY <2>a, <2>5, AnalogAssumption
    <3>3. QED
      BY <2>5, <3>1, <3>2
  <2>12. V!OverrunNeedsATwin'
    <3> SUFFICES ASSUME overrun, V!IsInjective(analog_axes) PROVE FALSE
      BY <1>0, <2>1 DEF V!OverrunNeedsATwin, V!IsInjective
    <3>1. PICK k \in DOMAIN list : V!Whole(located, list[k])
        /\ \E c \in DOMAIN tables[k] : tables[k][c] = 0
      OBVIOUS
    <3>2. PICK c \in V!Channels(list[k]) : tables[k][c] = 0
      BY <2>4, <3>1
    <3>3. V!Globals(located, list[k], c) # {}
      BY <2>a, <2>2, <3>1, <3>2, WholeIsOnto
    <3>4. tables[k][c] \in 1..Len(analog_axes) /\ Len(analog_axes) \in Nat
      BY <2>4, <3>3, AxesAreListed
    <3>5. QED
      BY <3>2, <3>4
  <2>13. V!IsInjective(analog_axes)' = V!IsInjective(analog_axes)
    BY <1>0 DEF V!IsInjective
  <2>14. QED
    BY <1>0, <1>1, <2>1, <2>6, <2>7, <2>8, <2>9, <2>10, <2>11, <2>12, <2>13
<1>4. QED
  BY <1>2, <1>3

\* What the clients hold after an update of all the axes (VirtualAnalogRemapper.cpp:199-245).
LEMMA SpreadIsRight ==
  ASSUME AnalogKept, analog_phase = "attached", NEW m \in [DOMAIN analog_axes -> analog_Measures]
  PROVE  /\ DOMAIN V!Spread(m) = analog_Devices
         /\ \A d \in analog_Devices : V!Spread(m)[d] \in [V!Channels(d) -> analog_Measures \cup {0}]
         /\ V!IsInjective(analog_axes) =>
              \A i \in DOMAIN analog_axes : analog_mapped[i].dev # V!NoDevice
                  /\ (i > 1 \/ ~analog_again) =>
                V!Spread(m)[analog_mapped[i].dev][analog_mapped[i].local] = m[i]
<1> DEFINE one(d, c) == {i \in V!AxesOf(d) : analog_mapped[i].local = c}
           all(d) == {k \in V!Vectors : analog_subs[k].dev = d}
           entry(d, c) == IF one(d, c) # {} THEN m[CHOOSE i \in one(d, c) : \A k \in one(d, c) : k <= i]
                          ELSE IF all(d) # {} THEN m[analog_subs[CHOOSE k \in all(d) : TRUE].global[c]]
                          ELSE analog_buffer[d][c]
<1>0. Placed(analog_mapped) /\ Tables /\ OncePerDevice /\ AnalogTyped
    /\ (V!IsInjective(analog_axes) => LeftToTheDevice)
  BY DEF AnalogKept
<1>1. DOMAIN analog_mapped = 1..Len(analog_axes) /\ DOMAIN analog_axes = 1..Len(analog_axes)
    /\ Len(analog_axes) \in Nat
  BY <1>0, AxesAreListed DEF Placed
<1>2. V!Spread(m) = [d \in analog_Devices |-> [c \in V!Channels(d) |-> entry(d, c)]]
  BY DEF V!Spread
<1>3. \A d, c : one(d, c) \in SUBSET (1..Len(analog_axes))
  BY <1>1 DEF V!AxesOf
<1>4. ASSUME NEW d \in analog_Devices, NEW c \in V!Channels(d)
      PROVE  entry(d, c) \in analog_Measures \cup {0}
  <2>1. CASE one(d, c) # {}
    <3> DEFINE S == one(d, c)
    <3>1. S \in SUBSET (1..Len(analog_axes))
      BY <1>3
    <3> HIDE DEF S
    <3>2. S # {} => \E i \in S : \A k \in S : k <= i
      BY <1>1, <3>1, AnalogGreatest
    <3>3. (CHOOSE i \in S : \A k \in S : k <= i) \in DOMAIN analog_axes
      BY <1>1, <2>1, <3>1, <3>2 DEF S
    <3>4. QED
      BY <2>1, <3>3 DEF S
  <2>2. CASE one(d, c) = {} /\ all(d) # {}
    <3> DEFINE k == CHOOSE k \in all(d) : TRUE
    <3>1. k \in all(d)
      BY <2>2
    <3>2. k \in DOMAIN analog_subs /\ analog_subs[k].vector /\ analog_subs[k].dev = d
      BY <3>1 DEF V!Vectors
    <3>3. entry(d, c) = m[analog_subs[k].global[c]]
      BY <2>2
    <3> HIDE DEF k, entry
    <3>4. QED
      BY <1>0, <1>1, <3>2, <3>3 DEF Tables
  <2>3. CASE one(d, c) = {} /\ all(d) = {}
    BY <1>0, <2>3 DEF AnalogTyped
  <2>4. QED
    BY <2>1, <2>2, <2>3
<1>5. ASSUME V!IsInjective(analog_axes), NEW i \in DOMAIN analog_axes, analog_mapped[i].dev # V!NoDevice, i > 1 \/ ~analog_again
      PROVE  entry(analog_mapped[i].dev, analog_mapped[i].local) = m[i]
  <2> DEFINE d == analog_mapped[i].dev
             c == analog_mapped[i].local
  <2>1. \A j \in one(d, c) : j = i
    <3> SUFFICES ASSUME NEW j \in one(d, c) PROVE j = i
      OBVIOUS
    <3>1. j \in DOMAIN analog_axes /\ analog_mapped[j].dev = d /\ analog_mapped[j].local = c
      BY <1>1 DEF V!AxesOf
    <3>2. analog_axes[j] = analog_axes[i]
      BY <1>0, <1>5, <3>1 DEF Placed
    <3>3. QED
      BY <1>0, <1>5, <3>1, <3>2, AxesAreListed
  <2>2. CASE ~analog_mapped[i].vector
    <3>1. i \in one(d, c)
      BY <1>1, <1>5, <2>2 DEF V!AxesOf
    <3>2. one(d, c) = {i}
      BY <2>1, <3>1
    <3>3. i <= i
      BY <1>1
    <3>4. (CHOOSE j \in {i} : \A k \in {i} : k <= j) = i
      BY <3>3
    <3> HIDE DEF one, d, c
    <3>5. QED
      BY <3>2, <3>4 DEF d, c
  <2>3. CASE analog_mapped[i].vector
    <3>1. i \notin one(d, c)
      BY <2>3 DEF V!AxesOf
    <3>2. one(d, c) = {}
      BY <2>1, <3>1
    <3>3. PICK k \in DOMAIN analog_subs : analog_subs[k].vector /\ analog_subs[k].dev = d
        /\ analog_subs[k].global[c] = i
      BY <1>0, <1>1, <1>5, <2>3 DEF LeftToTheDevice
    <3>4. k \in all(d) /\ \A j \in all(d) : j = k
      BY <1>0, <3>3 DEF V!Vectors, OncePerDevice
    <3>5. (CHOOSE j \in all(d) : TRUE) = k
      BY <3>4
    <3>6. entry(d, c) = m[analog_subs[k].global[c]]
      BY <3>2, <3>4, <3>5
    <3>7. QED
      BY <3>3, <3>6
  <2>4. QED
    BY <2>2, <2>3
<1>6. ASSUME V!IsInjective(analog_axes), NEW i \in DOMAIN analog_axes, analog_mapped[i].dev # V!NoDevice, i > 1 \/ ~analog_again
      PROVE  V!Spread(m)[analog_mapped[i].dev][analog_mapped[i].local] = m[i]
  <2>1. analog_mapped[i].dev \in analog_Devices
      /\ analog_mapped[i].local \in V!Channels(analog_mapped[i].dev)
    BY <1>0, <1>6 DEF Placed
  <2>2. entry(analog_mapped[i].dev, analog_mapped[i].local) = m[i]
    BY <1>5, <1>6
  <2> HIDE DEF entry
  <2>3. QED
    BY <1>2, <2>1, <2>2
<1>7. \A d \in analog_Devices : V!Spread(m)[d] \in [V!Channels(d) -> analog_Measures \cup {0}]
  <2> HIDE DEF entry
  <2>1. QED
    BY <1>2, <1>4
<1>8. DOMAIN V!Spread(m) = analog_Devices
  BY <1>2
<1>9. QED
  BY <1>6, <1>7, <1>8

\* A device whose channels all have an axis gets one message, and its axes none of their own.
LEMMA CountsAreRight ==
  ASSUME AnalogKept, analog_phase =
        "attached", V!IsInjective(analog_axes), ~analog_again, NEW k \in DOMAIN analog_subs
  PROVE  LET d == analog_subs[k].dev
             n == V!Remapped(analog_mapped, d)
         IN  V!Counts[d] = IF n = V!Cardinality(V!Channels(d)) THEN 1 ELSE n
<1> DEFINE d == analog_subs[k].dev
           S == {i \in DOMAIN analog_mapped : analog_mapped[i].dev = d}
           all == {j \in V!Vectors : analog_subs[j].dev = d}
<1>0. Placed(analog_mapped) /\ Tables /\ OncePerDevice /\ AnalogTyped /\ FlaggedAsDevice
  BY DEF AnalogKept
<1>1. d \in analog_Devices /\ V!Counts[d] = V!Cardinality(V!AxesOf(d)) + V!Cardinality(all)
  BY <1>0 DEF V!Counts, Tables
<1>2. analog_subs[k].vector = (V!Cardinality(S) = V!Cardinality(V!Channels(d)))
  BY <1>0 DEF OncePerDevice, V!Whole, V!Remapped
<1>3. \A i \in S : analog_mapped[i].vector = analog_subs[k].vector
  BY <1>0 DEF FlaggedAsDevice
<1>4. \A j \in all : j = k
  BY <1>0 DEF OncePerDevice, V!Vectors
<1>5. V!Cardinality({}) = 0 /\ V!Cardinality({k}) = 1
  BY FS_EmptySet, AnalogCounts, FS_Singleton, AnalogCounts
<1>6. V!Cardinality(S) \in Nat
  <2>1. S \in SUBSET (1..Len(analog_axes)) /\ Len(analog_axes) \in Nat
    BY <1>0, AxesAreListed DEF Placed
  <2>2. IsFiniteSet(1..Len(analog_axes))
    <3>1. 1 \in Int /\ Len(analog_axes) \in Int
      BY <2>1
    <3>2. QED
      BY <3>1, FS_Interval
  <2>3. IsFiniteSet(S)
    BY <2>1, <2>2, FS_Subset, AnalogCounts
  <2>4. QED
    BY <2>3, FS_CardinalityType, AnalogCounts
<1>7. CASE analog_subs[k].vector
  <2>1. V!AxesOf(d) = {}
    BY <1>3, <1>7 DEF V!AxesOf
  <2>2. all = {k}
    BY <1>4, <1>7 DEF V!Vectors
  <2>3. V!Counts[d] = 1
    BY <1>1, <1>5, <2>1, <2>2
  <2>4. QED
    BY <1>2, <1>7, <2>3 DEF V!Remapped
<1>8. CASE ~analog_subs[k].vector
  <2>1. V!AxesOf(d) = S
    BY <1>3, <1>8 DEF V!AxesOf
  <2>2. all = {}
    BY <1>4, <1>8 DEF V!Vectors
  <2>3. V!Counts[d] = V!Cardinality(S)
    <3>1. V!Counts[d] = V!Cardinality(S) + V!Cardinality({})
      BY <1>1, <2>1, <2>2
    <3> HIDE DEF S
    <3>2. QED
      BY <1>5, <1>6, <3>1
  <2>4. QED
    BY <1>2, <1>8, <2>3 DEF V!Remapped
<1>9. QED
  BY <1>7, <1>8

\* The whole message fills the devices that it maps (updateVirtualAnalogSensorMeasure).
LEMMA AnalogUpdate ==
  ASSUME AnalogKept, NEW m \in [DOMAIN analog_axes -> analog_Measures], V!Update(m)
  PROVE  AnalogKept'
<1> USE DEF AnalogKept
<1>0. /\ analog_phase = "attached" /\ analog_buffer' = V!Spread(m) /\ analog_update' = m
      /\ analog_count' = V!Counts
      /\ UNCHANGED <<analog_phase, analog_axes, analog_again, analog_mapped, analog_subs>>
  BY DEF V!Update, V!Written
<1>1. AnalogTyped'
  BY <1>0, SpreadIsRight DEF AnalogTyped, V!Channels
<1>2. (Placed(analog_mapped) /\ Tables /\ OncePerDevice)'
  BY <1>0 DEF Placed, Tables, OncePerDevice, V!Channels, V!Whole, V!Remapped
<1>3. V!IsInjective(analog_axes)' = V!IsInjective(analog_axes)
  BY <1>0 DEF V!IsInjective
<1>4. (V!IsInjective(analog_axes) => LeftToTheDevice)'
    /\ (V!IsInjective(analog_axes) /\ ~analog_again => FlaggedAsDevice)'
  BY <1>0, <1>3 DEF LeftToTheDevice, FlaggedAsDevice
<1>5. V!EstimatesArrive'
  BY <1>0, <1>3, SpreadIsRight DEF V!EstimatesArrive, Placed
<1>6. V!OneMessageWhenWhole'
  BY <1>0, <1>3, CountsAreRight DEF V!OneMessageWhenWhole, V!Remapped, V!Channels
<1>7. V!OverrunNeedsATwin'
  BY <1>0 DEF V!OverrunNeedsATwin
<1>8. QED
  BY <1>0, <1>1, <1>2, <1>4, <1>5, <1>6, <1>7

\* The message of one axis sets its channel only.
LEMMA AnalogUpdateOne ==
  ASSUME AnalogKept, NEW i \in DOMAIN analog_axes, NEW v \in analog_Measures, V!UpdateOne(i, v)
  PROVE  AnalogKept'
<1> USE DEF AnalogKept
<1>0. /\ analog_phase = "attached" /\ i \in DOMAIN analog_mapped
      /\ analog_mapped[i].dev # V!NoDevice
      /\ analog_buffer' = [analog_buffer EXCEPT ![analog_mapped[i].dev][analog_mapped[i].local] = v]
      /\ analog_update' = IF analog_update = <<>> THEN <<>>
                   ELSE [k \in DOMAIN analog_update |-> IF k = i \/ analog_axes[k] = analog_axes[i] THEN v ELSE analog_update[k]]
      /\ UNCHANGED <<analog_phase, analog_axes, analog_again, analog_mapped, analog_subs,
                     analog_count>>
  BY DEF V!UpdateOne
<1>a. /\ analog_mapped[i].dev \in analog_Devices
      /\ analog_mapped[i].local \in V!Channels(analog_mapped[i].dev)
      /\ DOMAIN analog_buffer = analog_Devices
         /\ \A d \in analog_Devices : analog_buffer[d] \in [V!Channels(d) -> analog_Measures \cup {0}]
  BY <1>0 DEF Placed, AnalogTyped
<1>1. AnalogTyped'
  BY <1>0, <1>a DEF AnalogTyped, V!Channels
<1>2. (Placed(analog_mapped) /\ Tables /\ OncePerDevice)'
  BY <1>0 DEF Placed, Tables, OncePerDevice, V!Channels, V!Whole, V!Remapped
<1>3. V!IsInjective(analog_axes)' = V!IsInjective(analog_axes)
  BY <1>0 DEF V!IsInjective
<1>4. (V!IsInjective(analog_axes) => LeftToTheDevice)'
    /\ (V!IsInjective(analog_axes) /\ ~analog_again => FlaggedAsDevice)'
  BY <1>0, <1>3 DEF LeftToTheDevice, FlaggedAsDevice
<1>5. analog_update' # <<>> => analog_update # <<>>
    /\ analog_update' \in [DOMAIN analog_axes -> analog_Measures]
  BY <1>0
<1>6. V!EstimatesArrive'
  <2> SUFFICES ASSUME V!IsInjective(analog_axes), analog_update' # <<>>, NEW j \in DOMAIN analog_mapped, analog_mapped[j].dev # V!NoDevice,
                      j > 1 \/ ~analog_again
               PROVE  analog_buffer'[analog_mapped[j].dev][analog_mapped[j].local] =
                     analog_update'[j]
    BY <1>0, <1>3 DEF V!EstimatesArrive
  <2>0. j \in DOMAIN analog_axes /\ analog_mapped[j].dev \in analog_Devices
      /\ analog_mapped[j].local \in V!Channels(analog_mapped[j].dev)
    BY <1>0 DEF Placed
  <2>1. analog_buffer[analog_mapped[j].dev][analog_mapped[j].local] = analog_update[j]
      /\ DOMAIN analog_update = DOMAIN analog_axes
    BY <1>5 DEF V!EstimatesArrive
  <2>2. CASE j = i
    BY <1>0, <1>5, <1>a, <2>1, <2>2
  <2>3. CASE j # i
    <3>1. analog_axes[j] # analog_axes[i]
      BY <2>0, <2>3, AxesAreListed
    <3>2. analog_mapped[j].dev # analog_mapped[i].dev \/ analog_mapped[j].local # analog_mapped[i].local
      BY <1>0, <2>0, <3>1 DEF Placed
    <3>3. analog_buffer'[analog_mapped[j].dev][analog_mapped[j].local] =
          analog_buffer[analog_mapped[j].dev][analog_mapped[j].local]
      BY <1>0, <1>a, <2>0, <3>2
    <3>4. analog_update'[j] = analog_update[j]
      BY <1>0, <1>5, <2>0, <2>1, <2>3, <3>1
    <3>5. QED
      BY <2>1, <3>3, <3>4
  <2>4. QED
    BY <2>2, <2>3
<1>7. V!OneMessageWhenWhole'
  BY <1>0, <1>3, <1>5 DEF V!OneMessageWhenWhole, V!Channels
<1>8. V!OverrunNeedsATwin'
  BY <1>0 DEF V!OverrunNeedsATwin
<1>9. QED
  BY <1>0, <1>1, <1>2, <1>4, <1>5, <1>6, <1>7, <1>8

\* Every step keeps the invariant.
LEMMA AnalogNext == AnalogKept /\ [V!Next]_(V!analogVars) => AnalogKept'
<1> SUFFICES ASSUME AnalogKept, [V!Next]_(V!analogVars) PROVE AnalogKept'
  OBVIOUS
<1>1. CASE V!Open \/ V!DetachAll \/ V!Close
  <2>0. /\ UNCHANGED <<analog_axes, analog_buffer>> /\ analog_phase' \in {"open", "gone"}
        /\ analog_mapped' = <<>> /\ analog_subs' = <<>>
        /\ analog_update' = <<>> /\ analog_again' \in BOOLEAN
    BY <1>1 DEF V!Open, V!DetachAll, V!Close, AnalogKept, AnalogTyped
  <2>1. AnalogTyped'
    BY <2>0 DEF AnalogKept, AnalogTyped, V!Channels
  <2>2. (V!EstimatesArrive /\ V!OneMessageWhenWhole /\ V!OverrunNeedsATwin)'
    BY <2>0 DEF V!EstimatesArrive, V!OneMessageWhenWhole, V!OverrunNeedsATwin
  <2>3. QED
    BY <2>0, <2>1, <2>2 DEF AnalogKept
<1>2. CASE \E l \in V!Lists, a \in BOOLEAN : V!AttachAll(l, a)
  BY <1>2, AnalogAttach
<1>3. CASE \E m \in [DOMAIN analog_axes -> analog_Measures] : V!Update(m)
  BY <1>3, AnalogUpdate
<1>4. CASE \E i \in DOMAIN analog_axes, v \in analog_Measures : V!UpdateOne(i, v)
  BY <1>4, AnalogUpdateOne
<1>5. CASE UNCHANGED V!analogVars
  <2>0. UNCHANGED <<analog_phase, analog_axes, analog_again, analog_mapped, analog_subs,
                    analog_buffer, analog_count, analog_update>>
    BY <1>5 DEF V!analogVars
  <2>1. AnalogTyped'
    BY <2>0 DEF AnalogKept, AnalogTyped, V!Channels
  <2>2. analog_phase = "attached" => (Placed(analog_mapped) /\ Tables /\ OncePerDevice)'
    BY <2>0 DEF AnalogKept, Placed, Tables, OncePerDevice, V!Channels, V!Whole, V!Remapped
  <2>3. analog_phase = "attached" => (V!IsInjective(analog_axes) => LeftToTheDevice)'
      /\ (V!IsInjective(analog_axes) /\ ~analog_again => FlaggedAsDevice)'
    BY <2>0 DEF AnalogKept, LeftToTheDevice, FlaggedAsDevice, V!IsInjective
  <2>4. (V!EstimatesArrive /\ V!OneMessageWhenWhole /\ V!OverrunNeedsATwin)'
    BY <2>0 DEF AnalogKept, V!EstimatesArrive, V!OneMessageWhenWhole, V!OverrunNeedsATwin,
       V!IsInjective, V!Channels
  <2>5. QED
    BY <2>0, <2>1, <2>2, <2>3, <2>4 DEF AnalogKept
<1>6. QED
  BY <1>1, <1>2, <1>3, <1>4, <1>5 DEF V!Next

\* Nothing is mapped at the start.
LEMMA AnalogInit == V!Init => AnalogKept
<1> SUFFICES ASSUME V!Init PROVE AnalogKept
  OBVIOUS
<1>1. AnalogTyped
  <2>1. analog_buffer = [d \in analog_Devices |-> [c \in V!Channels(d) |-> 0]]
      /\ analog_mapped = <<>>
    BY DEF V!Init, V!Zero
  <2>2. \A d \in analog_Devices : analog_buffer[d] \in [V!Channels(d) -> analog_Measures \cup {0}]
    BY <2>1
  <2>3. \A i \in DOMAIN analog_mapped : analog_mapped[i].dev \in analog_Devices \cup {V!NoDevice}
    BY <2>1
  <2>4. QED
    BY <2>1, <2>2, <2>3 DEF V!Init, AnalogTyped
<1>2. V!EstimatesArrive /\ V!OneMessageWhenWhole /\ V!OverrunNeedsATwin
  BY DEF V!Init, V!EstimatesArrive, V!OneMessageWhenWhole, V!OverrunNeedsATwin
<1>3. QED
  BY <1>1, <1>2 DEF AnalogKept, V!Init

\* The invariant of the remapper.
LEMMA AnalogAlways == V!Spec => []AnalogKept
<1>1. AnalogKept /\ [V!Next]_(V!analogVars) => AnalogKept'
  BY AnalogNext
<1>2. QED
  BY AnalogInit, <1>1, PTL DEF V!Spec

\* The invariant has the types.
LEMMA AnalogTypes == AnalogKept => V!TypeOK
<1> SUFFICES ASSUME AnalogKept PROVE V!TypeOK
  OBVIOUS
<1>1. DOMAIN analog_update \subseteq DOMAIN analog_axes
  <2>1. CASE analog_update = <<>>
    BY <2>1
  <2>2. CASE analog_update # <<>>
    BY <2>2 DEF AnalogKept
  <2>3. QED
    BY <2>1, <2>2
<1>2. QED
  BY <1>1 DEF AnalogKept, AnalogTyped, V!TypeOK, Placed

\* A behaviour of all the components is one of VirtualAnalog, which takes its steps or none.
LEMMA AnalogBehaves == AllSpec => V!Spec
<1>1. AllInit => V!Init
  BY DEF AllInit
<1>2. [AllNext]_allVars => [V!Next]_(V!analogVars)
  BY DEF AllNext, allVars, analogVars, V!analogVars, DeviceEstimationRuns, ContactPointsRuns,
         SettingsEditorRuns, RemoteCallsRuns, FloatingBaseRuns, VirtualAnalogRuns,
         OffsetSmoothingRuns, TreeOdometryRuns, TreeContactsRuns
<1>3. QED
  BY <1>1, <1>2, PTL DEF AllSpec, V!Spec

--------------------------------------------------------------------------------
(* OffsetSmoothing *)

\* The quotient of a multiple is exact.
LEMMA DivExact ==
  ASSUME NEW p \in Nat \ {0}, NEW a \in Int
  PROVE  (p * a) \div p = a
<1>1. (p * a) \div p \in Int /\ p * ((p * a) \div p) <= p * a /\ p * a < p * ((p * a) \div p) + p
  OBVIOUS
<1>2. ASSUME NEW q \in Int, p * q <= p * a, p * a < p * q + p PROVE q = a
  <2>1. p * (a - q) >= 0 /\ p * (a - q) < p
    BY <1>2
  <2>2. a - q >= 0
    BY <2>1
  <2>3. a - q < 1
    BY <2>1
  <2>4. QED
    BY <2>2, <2>3
<1>3. QED
  BY <1>1, <1>2

\* Sizes multiply.
LEMMA SizeOfProduct ==
  ASSUME NEW d \in Int, NEW n \in Nat
  PROVE  O!Size(d * n) = O!Size(d) * n /\ O!Size(d) \in Nat
<1>1. CASE d >= 0
  <2>1. d * n >= 0
    BY <1>1
  <2>2. QED
    BY <1>1, <2>1 DEF O!Size
<1>2. CASE d < 0
  <2>1. d * n <= 0 /\ -(d * n) = (-d) * n
    BY <1>2
  <2>2. QED
    BY <1>2, <2>1 DEF O!Size
<1>3. QED
  BY <1>1, <1>2

\* A proportion of the change that is no more than a part of the period.
LEMMA ShareOfTheChange ==
  ASSUME NEW p \in Nat, NEW d \in Int, NEW n \in Nat, NEW m \in Nat, n <= m
  PROVE  p * O!Size(d * n) <= m * O!Size(p * d)
<1> DEFINE s == O!Size(d)
<1>1. O!Size(d * n) = s * n /\ s \in Nat
  BY SizeOfProduct
<1>2. O!Size(p * d) = s * p
  <2>1. p * d = d * p
    OBVIOUS
  <2>2. QED
    BY <2>1, SizeOfProduct
<1> HIDE DEF s
<1>3. s * n <= s * m
  BY <1>1
<1>4. p * (s * n) <= p * (s * m)
  <2>1. s * n \in Int /\ s * m \in Int
    BY <1>1
  <2>2. QED
    BY <1>3, <2>1
<1>5. p * (s * m) = m * (s * p)
  BY <1>1
<1>6. QED
  BY <1>1, <1>2, <1>4, <1>5

\* The unit of fewer calibrations is a multiple of that of more.
LEMMA UnitsDivide ==
  ASSUME NEW n \in 0..smooth_MaxCalibrations
  PROVE  \E k \in Int : smooth_Units[0] = k * smooth_Units[n]
<1> DEFINE Divides(i) == \E k \in Int : smooth_Units[0] = k * smooth_Units[i]
           S == {i \in Nat : i \in 0..smooth_MaxCalibrations /\ ~Divides(i)}
<1> USE SmoothAssumption
<1>1. SUFFICES ASSUME ~Divides(n) PROVE FALSE
  OBVIOUS
<1>0. n \in S
  BY <1>1
<1>2. PICK i \in S : \A k \in S : i <= k
  BY <1>0, LeastNatural
<1>3. i # 0
  <2>1. smooth_Units[0] \in Int /\ smooth_Units[0] = 1 * smooth_Units[0]
    OBVIOUS
  <2>2. QED
    BY <2>1
<1>4. i - 1 \in 0..smooth_MaxCalibrations /\ i - 1 \in Nat /\ i \in 1..smooth_MaxCalibrations
    /\ i - 1 \notin S
  BY <1>2, <1>3
<1>5. PICK k \in Int : smooth_Units[0] = k * smooth_Units[i - 1]
  BY <1>4
<1>6. smooth_Units[i - 1] = smooth_Period * smooth_Units[i] /\ smooth_Units[i] \in Int
  BY <1>4
<1>7. k * (smooth_Period * smooth_Units[i]) = (k * smooth_Period) * smooth_Units[i]
    /\ k * smooth_Period \in Int
  BY <1>6
<1>8. Divides(i)
  BY <1>5, <1>6, <1>7
<1>9. QED
  BY <1>2, <1>8

AtLastRun == IF smooth_elapsed < smooth_gap THEN 0 ELSE smooth_elapsed - smooth_gap
IsMultiple(x, u) == \E k \in Int : x = k * u
SmoothKept ==
  /\ O!TypeOK
  /\ smooth_smoothing => smooth_elapsed <= smooth_Period + smooth_gap
  /\ smooth_reset = "idle" => ~smooth_smoothing /\ smooth_used = 0
  /\ IsMultiple(smooth_used, smooth_Units[smooth_calibrations])
  /\ IsMultiple(smooth_old, smooth_Units[smooth_calibrations])
  /\ \E j \in Int : /\ smooth_new - smooth_old =
                         smooth_Period * (j * smooth_Units[smooth_calibrations])
                    /\ smooth_smoothing /\ smooth_reset = "none" =>
                         smooth_used = smooth_old + (j * smooth_Units[smooth_calibrations]) * AtLastRun
  /\ O!MissesByALateRun

\* Nothing is smoothed at the start.
LEMMA SmoothInit == O!Init => SmoothKept
<1> SUFFICES ASSUME O!Init PROVE SmoothKept
  OBVIOUS
<1> USE SmoothAssumption
<1>1. O!TypeOK
  <2>1. 0 \in 0..smooth_Period + smooth_Late /\ 0 \in 0..smooth_Late
      /\ 0 \in 0..smooth_MaxCalibrations
    OBVIOUS
  <2>2. {smooth_used, smooth_old, smooth_new} \subseteq Int
    BY DEF O!Init
  <2>3. QED
    BY <2>1, <2>2, Zenon DEF O!Init, O!TypeOK
<1>2. smooth_Units[0] \in Int /\ 0 = 0 * smooth_Units[0]
    /\ 0 - 0 = smooth_Period * (0 * smooth_Units[0])
  OBVIOUS
<1>3. QED
  BY <1>1, <1>2 DEF O!Init, SmoothKept, IsMultiple, O!MissesByALateRun

\* The invariant has integers of the right unit.
LEMMA SmoothTyped ==
  ASSUME SmoothKept
  PROVE  /\ smooth_used \in Int /\ smooth_old \in Int /\ smooth_new \in Int
         /\ smooth_elapsed \in Nat /\ smooth_gap \in Nat /\ smooth_gap <= smooth_Late
         /\ smooth_Units[smooth_calibrations] \in Int /\ AtLastRun \in Nat
         /\ AtLastRun <= smooth_elapsed /\ smooth_elapsed <= AtLastRun + smooth_gap
         /\ smooth_smoothing \in BOOLEAN /\ smooth_calibrations \in 0..smooth_MaxCalibrations
<1>1. smooth_used \in Int /\ smooth_old \in Int /\ smooth_new \in Int /\ smooth_elapsed \in Nat
    /\ smooth_gap \in 0..smooth_Late
      /\ smooth_smoothing \in BOOLEAN /\ smooth_calibrations \in 0..smooth_MaxCalibrations
  BY SmoothAssumption DEF SmoothKept, O!TypeOK
<1>2. QED
  BY <1>1, SmoothAssumption DEF AtLastRun

\* A run moves the offset in use by its share of the change (2203-2222).
LEMMA SmoothRun ==
  ASSUME SmoothKept, O!Run
  PROVE  /\ SmoothKept'
         /\ smooth_reset = "none" =>
              smooth_Period * O!Size(smooth_used' - smooth_used) <= smooth_gap * O!Size(smooth_new - smooth_old)
<1> USE SmoothAssumption
<1> DEFINE u == smooth_Units[smooth_calibrations]
<1>1. /\ smooth_used \in Int /\ smooth_old \in Int /\ smooth_new \in Int /\ smooth_elapsed \in Nat
      /\ smooth_gap \in Nat /\ smooth_gap <= smooth_Late
      /\ u \in Int /\ AtLastRun \in Nat /\ AtLastRun <= smooth_elapsed
      /\ smooth_elapsed <= AtLastRun + smooth_gap
      /\ smooth_smoothing \in BOOLEAN /\ smooth_calibrations \in 0..smooth_MaxCalibrations
  BY SmoothTyped
<1>2. PICK j \in Int : /\ smooth_new - smooth_old = smooth_Period * (j * u)
                       /\ smooth_smoothing /\ smooth_reset = "none" =>
                            smooth_used = smooth_old + (j * u) * AtLastRun
  BY DEF SmoothKept
<1>3. PICK a \in Int, b \in Int : smooth_used = a * u /\ smooth_old = b * u
  BY DEF SmoothKept, IsMultiple
<1> DEFINE d == j * u
<1>4. d \in Int
  BY <1>1
<1>5. /\ smooth_used' = O!UpdateOffset
      /\ smooth_smoothing' = (smooth_smoothing /\ smooth_elapsed <= smooth_Period)
      /\ smooth_gap' = 0
      /\ smooth_elapsed' = (IF smooth_smoothing' THEN smooth_elapsed ELSE 0)
      /\ smooth_old' = smooth_old /\ smooth_new' = smooth_new
      /\ smooth_calibrations' = smooth_calibrations /\ smooth_reset' = smooth_reset
  BY DEF O!Run
<1>a. smooth_smoothing' => smooth_elapsed <= smooth_Period /\ smooth_smoothing
  BY <1>5, Zenon
<1>b. (smooth_smoothing' => smooth_elapsed' = smooth_elapsed)
    /\ (~smooth_smoothing' => smooth_elapsed' = 0)
  BY <1>5, Zenon
<1>c. smooth_smoothing => smooth_elapsed <= smooth_Period + smooth_gap
  BY DEF SmoothKept
<1>6. smooth_smoothing => smooth_used' = smooth_old + d * smooth_elapsed
  <2>1. (smooth_new - smooth_old) * smooth_elapsed = smooth_Period * (d * smooth_elapsed)
    <3>1. \A x, y, z \in Int : (x * y) * z = x * (y * z)
      OBVIOUS
    <3>2. smooth_new - smooth_old = smooth_Period * d
      BY <1>2
    <3> HIDE DEF d
    <3>3. QED
      BY <1>1, <1>4, <3>1, <3>2
  <2>2. d * smooth_elapsed \in Int
    BY <1>1, <1>4
  <2> HIDE DEF d
  <2>3. ((smooth_new - smooth_old) * smooth_elapsed) \div smooth_Period = d * smooth_elapsed
    BY <2>1, <2>2, DivExact
  <2>4. QED
    BY <1>5, <2>3 DEF O!UpdateOffset, O!Blend
<1>7. ~smooth_smoothing => smooth_used' = smooth_used
  BY <1>5 DEF O!UpdateOffset
<1>8. smooth_used' \in Int /\ IsMultiple(smooth_used', u)
  <2>1. CASE smooth_smoothing
    <3>1. smooth_old + d * smooth_elapsed = (b + j * smooth_elapsed) * u
        /\ b + j * smooth_elapsed \in Int
      BY <1>1, <1>3
    <3>2. QED
      BY <1>1, <1>6, <2>1, <3>1 DEF IsMultiple
  <2>2. CASE ~smooth_smoothing
    BY <1>1, <1>3, <1>7, <2>2 DEF IsMultiple
  <2>3. QED
    BY <1>1, <2>1, <2>2
<1>9. O!TypeOK'
  <2>1. smooth_elapsed' \in 0..smooth_Period + smooth_Late
    <3>1. CASE smooth_smoothing'
      BY <1>1, <1>a, <1>b, <3>1
    <3>2. CASE ~smooth_smoothing'
      BY <1>b, <3>2
    <3>3. QED
      BY <3>1, <3>2
  <2>2. smooth_smoothing' \in BOOLEAN
    BY <1>5
  <2>3. QED
    BY <1>1, <1>5, <1>8, <2>1, <2>2 DEF SmoothKept, O!TypeOK
<1>10. AtLastRun' = smooth_elapsed'
  BY <1>1, <1>5 DEF AtLastRun
<1>11. smooth_smoothing' /\ smooth_reset' = "none" => smooth_used' = smooth_old' + d * AtLastRun'
  BY <1>1, <1>5, <1>6, <1>10
<1>12. smooth_smoothing' => smooth_elapsed' <= smooth_Period + smooth_gap'
  <2>1. smooth_gap' = 0
    BY <1>5
  <2>2. QED
    BY <1>1, <1>a, <1>b, <2>1
<1> HIDE DEF d, u
<1>13. O!MissesByALateRun'
  <2> SUFFICES ASSUME smooth_calibrations > 0, ~smooth_smoothing', smooth_reset = "none"
               PROVE  smooth_Period * O!Size(smooth_used' - smooth_new) <= smooth_Late * O!Size(smooth_new - smooth_old)
    BY <1>5 DEF O!MissesByALateRun
  <2>1. CASE smooth_smoothing
    <3> DEFINE n == smooth_elapsed - smooth_Period
    <3>1. n \in Nat /\ n <= smooth_Late
      <4>1. ~(smooth_elapsed <= smooth_Period)
        BY <1>5, <2>1, Zenon
      <4>2. QED
        BY <1>1, <1>c, <2>1, <4>1
    <3>2. smooth_used' - smooth_new = d * n
      <4>1. smooth_new = smooth_old + smooth_Period * d
        BY <1>1, <1>2, <1>4 DEF d
      <4>2. d * smooth_elapsed - smooth_Period * d = d * n
        BY <1>1, <1>4
      <4>3. d * smooth_elapsed \in Int /\ smooth_Period * d \in Int
        BY <1>1, <1>4
      <4>4. QED
        BY <1>1, <1>6, <2>1, <4>1, <4>2, <4>3
    <3> HIDE DEF n
    <3>3. smooth_Period * O!Size(d * n) <= smooth_Late * O!Size(smooth_Period * d)
      BY <1>4, <3>1, ShareOfTheChange
    <3>4. QED
      BY <1>2, <3>2, <3>3 DEF d
  <2>2. CASE ~smooth_smoothing
    BY <1>7, <2>2 DEF SmoothKept, O!MissesByALateRun
  <2>3. QED
    BY <1>1, <2>1, <2>2
<1>14. smooth_reset' = "idle" => ~smooth_smoothing' /\ smooth_used' = 0
  BY <1>5, <1>7 DEF SmoothKept
<1>15. SmoothKept'
  <2>1. IsMultiple(smooth_old', u')
    BY <1>3, <1>5 DEF IsMultiple, u
  <2>2. u' = u /\ IsMultiple(smooth_used', u')
    BY <1>5, <1>8 DEF u
  <2>3. smooth_new' - smooth_old' = smooth_Period * (j * u')
    BY <1>2, <1>5, <2>2
  <2>4. smooth_smoothing' /\ smooth_reset' = "none" =>
        smooth_used' = smooth_old' + (j * u') * AtLastRun'
    BY <1>11, <2>2 DEF d
  <2>5. QED
    BY <1>9, <1>12, <1>13, <1>14, <2>1, <2>2, <2>3, <2>4 DEF SmoothKept, u
<1>16. smooth_reset = "none" =>
      smooth_Period * O!Size(smooth_used' - smooth_used) <= smooth_gap * O!Size(smooth_new - smooth_old)
  <2> SUFFICES ASSUME smooth_reset =
        "none" PROVE smooth_Period * O!Size(smooth_used' - smooth_used) <= smooth_gap * O!Size(smooth_new - smooth_old)
    OBVIOUS
  <2>1. CASE smooth_smoothing
    <3> DEFINE n == smooth_elapsed - AtLastRun
    <3>1. n \in Nat /\ n <= smooth_gap
      BY <1>1
    <3>2. smooth_used' - smooth_used = d * n
      <4>1. smooth_used = smooth_old + d * AtLastRun
        BY <1>2, <2>1 DEF d
      <4>2. d * smooth_elapsed - d * AtLastRun = d * n
        BY <1>1, <1>4
      <4>3. d * smooth_elapsed \in Int /\ d * AtLastRun \in Int
        BY <1>1, <1>4
      <4>4. QED
        BY <1>1, <1>6, <2>1, <4>1, <4>2, <4>3
    <3> HIDE DEF n
    <3>3. smooth_Period * O!Size(d * n) <= smooth_gap * O!Size(smooth_Period * d)
      BY <1>1, <1>4, <3>1, ShareOfTheChange
    <3>4. QED
      BY <1>2, <3>2, <3>3 DEF d
  <2>2. CASE ~smooth_smoothing
    <3>1. smooth_used' - smooth_used = (smooth_new - smooth_old) * 0
      BY <1>1, <1>7, <2>2
    <3>2. smooth_new - smooth_old \in Int
      BY <1>1
    <3> DEFINE c == smooth_new - smooth_old
    <3>3. O!Size(c * 0) = O!Size(c) * 0 /\ O!Size(c) \in Nat
      BY <3>2, SizeOfProduct
    <3>4. smooth_Period * O!Size(c * 0) = 0 /\ smooth_gap * O!Size(c) >= 0
      <4> HIDE DEF c
      <4>1. O!Size(c * 0) = 0
        BY <3>3
      <4>2. QED
        BY <1>1, <3>3, <4>1
    <3>5. QED
      BY <3>1, <3>4
  <2>3. QED
    BY <1>1, <2>1, <2>2
<1>17. QED
  BY <1>15, <1>16

\* A calibration starts a smoothing from the offset in use (2192-2200).
LEMMA SmoothNewOffset ==
  ASSUME SmoothKept, NEW o \in smooth_Offsets, O!SetNewOffset(o * smooth_Units[0])
  PROVE  SmoothKept'
<1> USE SmoothAssumption
<1> DEFINE c == smooth_calibrations
<1>1. /\ smooth_used \in Int /\ smooth_elapsed \in Nat /\ smooth_gap \in Nat
      /\ smooth_gap <= smooth_Late /\ smooth_Units[0] \in Int
      /\ smooth_Units[c] \in Int /\ smooth_smoothing \in BOOLEAN /\ c \in 0..smooth_MaxCalibrations
  BY SmoothTyped
<1>2. /\ c < smooth_MaxCalibrations /\ smooth_calibrations' = c + 1
      /\ smooth_old' = smooth_used /\ smooth_new' = o * smooth_Units[0] /\ smooth_elapsed' = 0
      /\ smooth_smoothing' = TRUE /\ smooth_reset' = "none"
      /\ smooth_used' = smooth_used /\ smooth_gap' = smooth_gap
  BY DEF O!SetNewOffset
<1>3. c + 1 \in 0..smooth_MaxCalibrations /\ smooth_Units[c + 1] \in Int
    /\ smooth_Units[c] = smooth_Period * smooth_Units[c + 1]
  <2>1. c + 1 \in 1..smooth_MaxCalibrations /\ (c + 1) - 1 = c
    BY <1>1, <1>2
  <2>2. QED
    BY <2>1
<1> DEFINE v == smooth_Units[c + 1]
<1>4. PICK a \in Int : smooth_used = a * (smooth_Period * v)
  BY <1>3 DEF SmoothKept, IsMultiple
<1>5. PICK k \in Int : smooth_Units[0] = k * (smooth_Period * v)
  BY <1>1, <1>3, UnitsDivide
<1> HIDE DEF v
<1>6. v \in Int /\ o \in Int
  BY <1>3 DEF v
<1>7. smooth_used = (a * smooth_Period) * v /\ a * smooth_Period \in Int
  BY <1>4, <1>6
<1> DEFINE j == o * k - a
<1>8. j \in Int /\ smooth_new' - smooth_old' = smooth_Period * (j * v)
  <2>1. o * (k * (smooth_Period * v)) - a * (smooth_Period * v) = smooth_Period * ((o * k - a) * v)
    BY <1>6
  <2>2. QED
    BY <1>2, <1>4, <1>5, <1>6, <2>1
<1>9. O!TypeOK'
  <2>1. o * smooth_Units[0] \in Int /\ 0 \in 0..smooth_Period + smooth_Late
      /\ smooth_calibrations' \in 0..smooth_MaxCalibrations
    BY <1>1, <1>2, <1>3, <1>6
  <2>2. QED
    BY <1>1, <1>2, <2>1 DEF SmoothKept, O!TypeOK
<1> HIDE DEF j
<1>10. AtLastRun' = 0 /\ j * v \in Int /\ (j * v) * 0 = 0
  BY <1>1, <1>2, <1>6, <1>8 DEF AtLastRun
<1>11. smooth_used' = smooth_old' + (j * v) * AtLastRun'
  BY <1>1, <1>2, <1>10
<1>12. smooth_Units[smooth_calibrations'] = v /\ 0 <= smooth_Period + smooth_gap'
  BY <1>1, <1>2 DEF v
<1>13. IsMultiple(smooth_used', v) /\ IsMultiple(smooth_old', v)
  BY <1>2, <1>7 DEF IsMultiple
<1>14. QED
  BY <1>2, <1>8, <1>9, <1>11, <1>12, <1>13 DEF SmoothKept, O!MissesByALateRun

\* Every step keeps the invariant.
LEMMA SmoothNext == SmoothKept /\ [O!Next]_(O!vars) => SmoothKept'
<1> SUFFICES ASSUME SmoothKept, [O!Next]_(O!vars) PROVE SmoothKept'
  OBVIOUS
<1> USE SmoothAssumption
<1>1. CASE O!Tick
  <2>1. /\ smooth_used \in Int /\ smooth_old \in Int /\ smooth_new \in Int
        /\ smooth_elapsed \in Nat /\ smooth_gap \in Nat /\ smooth_gap <= smooth_Late
        /\ smooth_smoothing \in BOOLEAN
    BY SmoothTyped
  <2>2. /\ smooth_gap < smooth_Late /\ smooth_gap' = smooth_gap + 1
           /\ smooth_elapsed' = (IF smooth_smoothing THEN smooth_elapsed + 1 ELSE smooth_elapsed)
        /\ smooth_used' = smooth_used /\ smooth_old' = smooth_old /\ smooth_new' = smooth_new
        /\ smooth_smoothing' = smooth_smoothing
        /\ smooth_calibrations' = smooth_calibrations /\ smooth_reset' = smooth_reset
    BY <1>1 DEF O!Tick
  <2>3. smooth_smoothing => smooth_elapsed' <= smooth_Period + smooth_gap' /\ AtLastRun' = AtLastRun
    BY <2>1, <2>2 DEF SmoothKept, AtLastRun
  <2>4. smooth_elapsed' \in 0..smooth_Period + smooth_Late
    BY <2>1, <2>2 DEF SmoothKept, O!TypeOK
  <2>5. O!TypeOK'
    BY <2>1, <2>2, <2>4 DEF SmoothKept, O!TypeOK
  <2>6. QED
    BY <2>2, <2>3, <2>5 DEF SmoothKept, O!MissesByALateRun
<1>2. CASE O!Run
  BY <1>2, SmoothRun
<1>3. CASE \E o \in smooth_Offsets : O!SetNewOffset(o * smooth_Units[0])
  BY <1>3, SmoothNewOffset
<1>4. CASE O!ResetOffset
  <2>1. smooth_Units[smooth_calibrations] \in Int
    BY SmoothTyped
  <2>2. /\ smooth_used' = 0 /\ smooth_reset' = (IF smooth_smoothing THEN "smoothing" ELSE "idle")
        /\ smooth_old' = smooth_old /\ smooth_new' = smooth_new /\ smooth_elapsed' = smooth_elapsed
        /\ smooth_smoothing' = smooth_smoothing /\ smooth_gap' = smooth_gap
        /\ smooth_calibrations' = smooth_calibrations
    BY <1>4 DEF O!ResetOffset
  <2>3. O!TypeOK'
    BY <2>2 DEF SmoothKept, O!TypeOK
  <2>4. IsMultiple(0, smooth_Units[smooth_calibrations])
    <3>1. 0 = 0 * smooth_Units[smooth_calibrations]
      BY <2>1
    <3>2. QED
      BY <3>1 DEF IsMultiple
  <2>5. QED
    BY <2>2, <2>3, <2>4 DEF SmoothKept, O!MissesByALateRun
<1>5. CASE UNCHANGED O!vars
  BY <1>5 DEF O!vars, SmoothKept, O!TypeOK, O!MissesByALateRun, AtLastRun, IsMultiple
<1>6. QED
  BY <1>1, <1>2, <1>3, <1>4, <1>5 DEF O!Next

\* The invariant of the smoothing, under its fairness or not.
LEMMA SmoothAlways == O!Spec => []SmoothKept
BY SmoothInit, SmoothNext, PTL DEF O!Spec

\* The offset that stays in use misses the one found by no more than what a late run adds, for any
\* period, lateness and offsets (wholeBodyDynamicsThread.cpp:2203-2222).
THEOREM MissesByALateRunHolds == O!Spec => []O!MissesByALateRun
<1>1. SmoothKept => O!MissesByALateRun
  BY DEF SmoothKept
<1>2. QED
  BY <1>1, SmoothAlways, PTL

\* A run moves the offset in use by no more than the share of the change for the time since the last
\* run, unless a reset came in between (2203-2222).
THEOREM MovesGraduallyHolds == O!Spec => O!MovesGradually
<1>1. SmoothKept /\ [O!Next]_(O!vars) =>
        [smooth_used' # smooth_used /\ smooth_reset = "none" /\ smooth_reset' = "none" =>
           smooth_Period * O!Size(smooth_used' - smooth_used) <= smooth_gap * O!Size(smooth_new - smooth_old)]_(O!vars)
  <2> SUFFICES ASSUME SmoothKept, O!Next, smooth_used' # smooth_used, smooth_reset =
        "none", smooth_reset' = "none"
               PROVE  smooth_Period * O!Size(smooth_used' - smooth_used) <= smooth_gap * O!Size(smooth_new - smooth_old)
    BY DEF O!vars
  <2>1. ~O!ResetOffset
    BY DEF O!ResetOffset, SmoothKept, O!TypeOK
  <2>2. O!Run
    BY <2>1 DEF O!Next, O!Tick, O!SetNewOffset
  <2>3. QED
    BY <2>2, SmoothRun
<1>2. QED
  BY <1>1, SmoothAlways, PTL DEF O!Spec, O!MovesGradually

\* A behaviour of all the components is one of OffsetSmoothing, which takes its steps or none.
LEMMA SmoothBehaves == AllSpec => O!Spec
<1>1. AllInit => O!Init
  BY DEF AllInit
<1>2. [AllNext]_allVars => [O!Next]_(O!vars)
  BY DEF AllNext, allVars, smoothVars, O!vars, DeviceEstimationRuns, ContactPointsRuns,
         SettingsEditorRuns, RemoteCallsRuns, FloatingBaseRuns, VirtualAnalogRuns,
         OffsetSmoothingRuns, TreeOdometryRuns, TreeContactsRuns
<1>3. QED
  BY <1>1, <1>2, PTL DEF AllSpec, O!Spec

--------------------------------------------------------------------------------
(* Together *)

\* The estimation of the wrenches always has a contact in every part that the sensors cut the robot
\* into: one of the skin, from the last message that had any, or else a default one.
THEOREM EveryPartIsTouchedHolds == AllSpec => []EveryPartIsTouched
<1>1. AllSpec => [](ContactKept /\ P!EverySubModelIsTouched /\ P!SkinContactsWereRead /\ P!FirstSuitableFrame)
  BY ContactBehaves, ContactAlways, EverySubModelIsTouchedHolds, SkinContactsWereReadHolds,
     FirstSuitableFrameHolds, PTL
<1>2. AllSpec => []TouchKept
  BY TouchBehaves, TouchAlways, PTL
<1>3. ASSUME ContactKept, P!EverySubModelIsTouched, P!SkinContactsWereRead, P!FirstSuitableFrame,
            TouchKept
      PROVE  EveryPartIsTouched
  <2>1. ContactKept => P!TypeOK
    BY DEF ContactKept
  <2>2. TouchKept => K!TypeOK /\ K!EverySubtreeIsTouched /\ K!DefaultsOnlyWhereUntouched
      /\ K!TouchesWereRead
    BY DEF TouchKept
  <2>3. QED
    BY <1>3, <2>1, <2>2 DEF EveryPartIsTouched
<1>4. QED
  BY <1>1, <1>2, <1>3, PTL

\* Measures are those of their sensor, fresh and numbers; offsets come into use up to a late run, and
\* estimates reach the device that has their axis, in one message.
THEOREM MeasuresAreRightHolds == AllSpec => []MeasuresAreRight
<1>1. AllSpec => []EstimationKept
  BY EstimationBehaves, EstimationAlways, PTL
<1>2. AllSpec => [](SmoothKept /\ O!MissesByALateRun)
  BY SmoothBehaves, SmoothAlways, MissesByALateRunHolds, PTL
<1>3. AllSpec => []AnalogKept
  BY AnalogBehaves, AnalogAlways, PTL
<1>4. ASSUME EstimationKept,
            SmoothKept, O!MissesByALateRun,
            AnalogKept
      PROVE  MeasuresAreRight
  <2>1. EstimationKept => D!TypeOK /\ D!FTsNotMixed /\ D!FTsAreNumbers /\ D!ReadMeansFresh
      /\ D!FixedFrameIsValid /\ D!OneSourceInARun
    BY DEF EstimationKept
  <2>2. SmoothKept => O!TypeOK /\ O!ResetLasts
    BY SmoothTyped DEF SmoothKept, O!ResetLasts
  <2>3. AnalogKept => V!TypeOK /\ V!EstimatesArrive /\ V!OneMessageWhenWhole /\ V!OverrunNeedsATwin
    BY AnalogTypes DEF AnalogKept
  <2>4. QED
    BY <1>4, <2>1, <2>2, <2>3 DEF MeasuresAreRight
<1>5. QED
  BY <1>1, <1>2, <1>3, <1>4, PTL
================================================================================
