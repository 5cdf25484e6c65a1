------------------------------ MODULE TreeContacts ------------------------------
(***************************************************************************)
(* Where wholeBodyDynamicsTree assumes that the robot is touched: init     *)
(* reads the subtrees that the force-torque sensors cut the robot into,    *)
(* and readSkinContacts, in every run, collects the contacts of the skin   *)
(* and adds a default one where a subtree has none                         *)
(* (wholeBodyDynamicsStatesInterfaces.cpp).                                *)
(*                                                                         *)
(* Unlike the device (ContactPoints) a run that reads a message with no    *)
(* contacts returns before it collects any: the contacts of the run before *)
(* are used again, and in the first run that is none at all.               *)
(***************************************************************************)
EXTENDS Naturals, FiniteSets, Sequences

CONSTANTS
  Links,        \* links of the model
  Configs,      \* configurations: see Config
  MostTaxels,   \* the taxels of a contact are 1 .. MostTaxels, a natural number
  MaxContacts,  \* bound: the contacts of a message
  Timeout       \* SKIN_EVENTS_TIMEOUT, in runs; a natural number

Nowhere == "nowhere"

\* IDYNTREE_SKINDYNLIB_LINKS, WBD_SUBTREES and min_taxel
Subtrees == Seq([links : SUBSET Links, default : Links])
Config(c) == c.aliases \subseteq Links /\ c.trees \in Subtrees /\ c.minTaxel \in Nat

VARIABLES
  config,
  phase,     \* "created", "refused", "running" or, at a failed assertion, "aborted"
  subtree,   \* link2subtree
  mailbox,   \* port_skin_contacts: the last message, not yet read
  skin,      \* skinContacts: the links
  used,      \* dynContacts: the link of each, and where it comes from
  silence,   \* runs since a message was read
  heard      \* the last message that had contacts

contactVars == <<config, phase, subtree, mailbox, skin, used, silence, heard>>

Trees == DOMAIN config.trees
Contacts == [at : Links, taxels : 1..MostTaxels]
Messages == {M \in SUBSET Contacts : Cardinality(M) <= MaxContacts}

Init ==
  /\ config \in {c \in Configs : Config(c)}
  /\ phase = "created"
  /\ subtree = [l \in Links |-> 1]
  /\ mailbox = <<>>
  /\ skin = {} /\ used = {}
  /\ silence = Timeout + 1
  /\ heard = {}

--------------------------------------------------------------------------------
(* init *)

\* the last subtree that lists a link, and the first one for a link that none lists
SubtreeOf(l) ==
  LET listed == {i \in Trees : l \in config.trees[i].links}
  IN  IF listed = {} THEN 1 ELSE CHOOSE i \in listed : \A k \in listed : k <= i

InitEstimator ==
  /\ phase = "created"
  /\ IF \A i \in Trees : config.trees[i].default \in config.trees[i].links
     THEN phase' = "running" /\ subtree' = [l \in Links |-> SubtreeOf(l)]
     ELSE phase' = "refused" /\ UNCHANGED subtree
  /\ UNCHANGED <<config, mailbox, skin, used, silence, heard>>

\* the skin manager; a message replaces one that was not read
Message(M) ==
  /\ phase = "running"
  /\ mailbox' = <<M>>
  /\ UNCHANGED <<config, phase, subtree, skin, used, silence, heard>>

--------------------------------------------------------------------------------
(* readSkinContacts *)

Pressed(M) == {c.at : c \in {d \in M : d.taxels > config.minTaxel}}

(* variants: contacts that have no alias count; no contact counts *)
UntouchedByAny(links) == Trees \ {subtree[l] : l \in links}
UntouchedAlways(links) == Trees
Untouched(links) == Trees \ {subtree[l] : l \in links \cap config.aliases}

\* getDefaultContact asserts that the link has an alias; a build without assertions goes on with
\* a contact that is nowhere
Default(i) ==
  LET l == config.trees[i].default
  IN  [at |-> IF l \in config.aliases THEN l ELSE Nowhere, from |-> "default"]
Defaults(links) == {Default(i) : i \in Untouched(links)}

Collect(links) ==
  /\ skin' = links
  /\ used' = {[at |-> l, from |-> "skin"] : l \in links} \cup Defaults(links)
  /\ phase' \in {"running"} \cup
       (IF \E d \in Defaults(links) : d.at = Nowhere THEN {"aborted"} ELSE {})

(* variant: the contacts read join those already known *)
ReadAdds(M) == Collect(skin \cup Pressed(M))
Read(M) == Collect(Pressed(M))

ReadContacts ==
  /\ phase = "running" /\ mailbox # <<>>
  /\ silence' = 0
  /\ LET M == mailbox[1]
     IN  IF M = {} THEN UNCHANGED <<phase, skin, used, heard>>
         ELSE Read(M) /\ heard' = M
  /\ mailbox' = <<>>
  /\ UNCHANGED <<config, subtree>>

(* variant: an old contact is forgotten, but not collected again *)
Forget ==
  /\ skin' = {}
  /\ UNCHANGED <<phase, used>>
TimesOutForgets == IF silence' > Timeout THEN Forget ELSE Collect(skin)
TimesOut == Collect(IF silence' > Timeout THEN {} ELSE skin)

NoMessage ==
  /\ phase = "running" /\ mailbox = <<>>
  /\ silence' = IF silence > Timeout THEN silence ELSE silence + 1
  /\ TimesOut
  /\ UNCHANGED <<config, subtree, mailbox, heard>>

Next ==
  \/ InitEstimator
  \/ \E M \in Messages : Message(M)
  \/ ReadContacts \/ NoMessage

Spec == Init /\ [][Next]_contactVars

\* the estimation is a periodic thread
FairSpec == Spec /\ WF_contactVars(ReadContacts \/ NoMessage)

--------------------------------------------------------------------------------
(* Properties *)

\* The state has the declared shape: in particular each link is of a subtree that there is.
TypeOK ==
  /\ config \in Configs
  /\ phase \in {"created", "refused", "running", "aborted"}
  /\ subtree \in [Links -> Trees \cup {1}]
  /\ mailbox \in {<<>>} \cup {<<M>> : M \in Messages}
  /\ skin \subseteq Links
  /\ used \subseteq [at : Links \cup {Nowhere}, from : {"skin", "default"}]
  /\ silence \in 0 .. Timeout + 1
  /\ heard \subseteq Contacts

Sound ==
  /\ \A l \in config.aliases : Cardinality({i \in Trees : l \in config.trees[i].links}) = 1
  /\ \A i \in Trees : config.trees[i].default \in config.aliases

\* Every subtree has a contact on one of its own links, as the estimation of its wrenches needs
\* (the comment above the loop over the subtrees), when the subtrees share the links with an alias
\* out among them - unless all that was read are messages without contacts, when there is none.
EverySubtreeIsTouched ==
  phase = "running" /\ Sound =>
    \/ used = {} /\ heard = {}
    \/ \A i \in Trees : \E c \in used : c.at \in config.trees[i].links \cap config.aliases

\* A subtree that the skin says is touched has no default contact besides.
DefaultsOnlyWhereUntouched ==
  phase = "running" /\ Sound =>
    \A c, d \in used :
      c.from = "default" /\ d.from = "skin" /\ d.at \in config.aliases => subtree[c.at] # subtree[d.at]

\* A contact taken from the skin is one of the last message that had any.
TouchesWereRead == \A c \in used : c.from = "skin" => \E h \in heard : h.at = c.at

\* Contacts that no message confirms are left in the end.
SilentTouchesAreLeft ==
  (<>[](phase = "running" /\ mailbox = <<>>)) => <>[](\A c \in used : c.from = "default")
================================================================================
