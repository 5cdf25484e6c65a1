----------------------------- MODULE ContactPoints -----------------------------
(***************************************************************************)
(* Where the wholeBodyDynamics device assumes that the robot is touched:   *)
(* openDefaultContactFrames chooses a default contact for every submodel   *)
(* that the force-torque sensors induce, and readContactPoints puts in     *)
(* every run the contacts read from the skin where there are any.          *)
(*                                                                         *)
(* The skin port keeps the last message; time passes between the runs.     *)
(***************************************************************************)
EXTENDS Naturals, Sequences, SequencesExt

CONSTANTS
  SubModels,
  Links,         \* links with skin
  Mapped,        \* those that IDYNTREE_SKINDYNLIB_LINKS names
  SubModelOf,    \* the submodel of each link with skin, and of each frame
  Frames,        \* names of the defaultContactFrames parameter
  ModelFrames,   \* those that the model has
  MaxFrames,     \* bound: the frames that the parameter lists, a natural number
  Timeout        \* SKIN_EVENTS_TIMEOUT, in runs; a natural number

NoFrame == "invalid"
Never == Timeout + 2
Nothing == [links |-> {}, pressed |-> FALSE]

VARIABLES
  frames,     \* defaultContactFrames, as configured
  listed,     \* how many of the frames have been gone through
  skin,       \* the contacts: "opening", "failed" or "open"
  defaults,   \* subModelIndex2DefaultContact
  mailbox,    \* portContactsInput: the links of the last message, not yet read
  fromSkin,   \* contactsReadFromSkin
  silence,    \* runs since lastReadingSkinContactListStamp, or Never
  pressing,   \* the links of the last message read that had any
  measured    \* measuredContactLocations: where, and where from

contactVars == <<frames, listed, skin, defaults, mailbox, fromSkin, silence, pressing, measured>>

Contacts == [at : Links \cup ModelFrames, from : {"skin", "default"}]

TypeOK ==
  /\ frames \in SeqOf(Frames, MaxFrames)
  /\ listed \in 0..Len(frames)
  /\ skin \in {"opening", "failed", "open"}
  /\ defaults \in [SubModels -> ModelFrames \cup {NoFrame}]
  /\ mailbox \in {<<>>} \cup {<<L>> : L \in SUBSET Links}
  /\ fromSkin \in [links : SUBSET Links, pressed : BOOLEAN]
  /\ silence \in 0..Never
  /\ pressing \subseteq Links
  /\ measured \subseteq Contacts

Init ==
  /\ frames \in SeqOf(Frames, MaxFrames)
  /\ listed = 0
  /\ skin = "opening"
  /\ defaults = [s \in SubModels |-> NoFrame]
  /\ mailbox = <<>>
  /\ fromSkin = Nothing
  /\ silence = Never
  /\ pressing = {}
  /\ measured = {}

(* openDefaultContactFrames *)

\* A name that the model does not have is discarded; any other one is chosen if its submodel has none.
\* Wrong variant: also if it has one
ListFrameWhen(free) ==
  /\ skin = "opening" /\ listed < Len(frames)
  /\ listed' = listed + 1
  /\ LET frame == frames[listed']
     IN  defaults' = IF frame \in ModelFrames /\ defaults[SubModelOf[frame]] \in free
                     THEN [defaults EXCEPT ![SubModelOf[frame]] = frame] ELSE defaults
  /\ UNCHANGED <<frames, skin, mailbox, fromSkin, silence, pressing, measured>>
ListFrameAgain == ListFrameWhen(ModelFrames \cup {NoFrame})
ListFrame == ListFrameWhen({NoFrame})

\* every submodel must have one
OpenContacts ==
  /\ skin = "opening" /\ listed = Len(frames)
  /\ skin' = IF \E s \in SubModels : defaults[s] = NoFrame THEN "failed" ELSE "open"
  /\ UNCHANGED <<frames, listed, defaults, mailbox, fromSkin, silence, pressing, measured>>

\* a message of the skin, with contacts or without; it replaces one that was not read
Message(L) ==
  /\ skin = "open"
  /\ mailbox' = <<L>>
  /\ UNCHANGED <<frames, listed, skin, defaults, fromSkin, silence, pressing, measured>>

--------------------------------------------------------------------------------
(* readContactPoints, in a run *)

DefaultsOf(S) == {[at |-> defaults[s], from |-> "default"] : s \in S}

(* variants: default contacts only when the skin has none at all; contacts counted before the conversion *)
LocatedCountsAll(links) ==
  {[at |-> l, from |-> "skin"] : l \in links \cap Mapped}
    \cup DefaultsOf(SubModels \ {SubModelOf[l] : l \in links})

\* the contacts on links with no alias do not reach the estimator; a submodel with no contact then
\* has its default one
Located(links) ==
  LET known == links \cap Mapped
  IN  {[at |-> l, from |-> "skin"] : l \in known}
        \cup DefaultsOf(SubModels \ {SubModelOf[l] : l \in known})

(* variant: the contacts read add to those known *)
HeardAdds(links, pressed) ==
  /\ fromSkin' = [links |-> links \cup fromSkin.links, pressed |-> pressed]
  /\ measured' = Located(links \cup fromSkin.links)

\* a run keeps the contacts it knows, with no pressure, unless nothing was heard for too long
Heard(links, pressed) ==
  /\ fromSkin' = [links |-> links, pressed |-> pressed]
  /\ measured' = Located(links)

ReadContacts ==
  /\ skin = "open" /\ mailbox # <<>>
  /\ silence' = 0
  /\ IF mailbox[1] = {}
     THEN Heard(fromSkin.links, FALSE) /\ UNCHANGED pressing
     ELSE Heard(mailbox[1], TRUE) /\ pressing' = mailbox[1]
  /\ mailbox' = <<>>
  /\ UNCHANGED <<frames, listed, skin, defaults>>

(* variant: the timeout is never exceeded *)
ElapsedStops == IF silence >= Timeout THEN silence ELSE silence + 1
Elapsed == IF silence > Timeout THEN silence ELSE silence + 1

NoMessageAfter(elapsed) ==
  /\ skin = "open" /\ mailbox = <<>>
  /\ silence' = elapsed
  /\ Heard(IF silence' = Timeout + 1 THEN {} ELSE fromSkin.links, FALSE)
  /\ UNCHANGED <<frames, listed, skin, defaults, mailbox, pressing>>
NoMessage == NoMessageAfter(Elapsed)

Next ==
  \/ ListFrame
  \/ OpenContacts
  \/ \E L \in SUBSET Links : Message(L)
  \/ ReadContacts
  \/ NoMessage

Spec == Init /\ [][Next]_contactVars

\* opening goes on, and the periodic thread runs
FairSpec ==
  /\ Spec
  /\ WF_contactVars(ListFrame \/ OpenContacts) /\ WF_contactVars(ReadContacts \/ NoMessage)

--------------------------------------------------------------------------------

\* The estimation has an unknown wrench in every submodel, or its problem would be singular: a
\* default one exactly where the skin gives none (WholeBodyDynamicsDevice.h:129).
EverySubModelIsTouched ==
  measured # {} =>
    \A s \in SubModels :
      LET here == {c \in measured : SubModelOf[c.at] = s}
      IN  /\ here # {}
          /\ (\E c \in here : c.from = "default") =>
               here = {[at |-> defaults[s], from |-> "default"]}

\* A contact taken from the skin is of a message, the last one that had contacts; the messages with
\* no contact in between keep it.
SkinContactsWereRead ==
  \A c \in measured : c.from = "skin" => c.at \in pressing \cap Mapped

\* Each submodel has the frame that comes first in the parameter, whatever was discarded before it.
FirstSuitableFrame ==
  skin = "open" =>
    \A i \in DOMAIN frames : frames[i] \in ModelFrames =>
      \E j \in 1..i : defaults[SubModelOf[frames[i]]] = frames[j]

\* Contacts that the skin does not confirm, with a message of any kind, are left: when no message
\* comes any more, in the end only the default contacts are used.
OldContactsAreLeft ==
  (<>[](skin = "open" /\ mailbox = <<>>)) => <>[](\A c \in measured : c.from = "default")

================================================================================
