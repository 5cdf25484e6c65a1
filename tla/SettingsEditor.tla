---- MODULE SettingsEditor ----
(***************************************************************************)
(* wholeBodyDynamicsSettings: a client edits a copy of the settings of the *)
(* device through an Editor, which marks what it has changed and sends it  *)
(* as a patch; the Editor of the device reads the patch into its settings  *)
(* piece by piece.  Gravity, a structure, is three pieces of one field.    *)
(***************************************************************************)
EXTENDS Integers, Sequences, FiniteSets

CONSTANTS Order,      \* the pieces, in the order write() sends them
          Values,     \* the values a field is set to
          MaxGroup,   \* bound on the nesting of begin()
          MaxWire     \* bound on the patches under way

VARIABLES local,    \* the settings the client edits
          dirty,    \* is_dirty_<field>
          count,    \* dirty_count
          group,    \* begin() not yet matched by end()
          linked,   \* yarp().canWrite()
          wire,     \* patches sent and not yet read
          rest,     \* what is still to be read of the patch being read
          broken,   \* a patch was lost, or refused half-way
          remote    \* the settings of the device

editorVars == <<local, dirty, count, group, linked, wire, rest, broken, remote>>

AllPieces == {Order[i] : i \in DOMAIN Order}
Before(p, q) == \E i, j \in DOMAIN Order : i < j /\ Order[i] = p /\ Order[j] = q
FieldOf(p) == IF p \in {"x", "y", "z"} THEN "gravity" ELSE p
Fields == {FieldOf(p) : p \in AllPieces}
SentWithoutZ(marks) == {p \in AllPieces \ {"z"} : FieldOf(p) \in marks}
Sent(marks) == {p \in AllPieces : FieldOf(p) \in marks}

Nothing == [p \in {} |-> local[p]]
Init ==
    /\ local \in [AllPieces -> Values] /\ remote = local
    /\ \A p, q \in {"x", "y", "z"} : local[p] = local[q]
    /\ dirty = {} /\ count = 0 /\ group = 0
    /\ linked = FALSE /\ wire = <<>> /\ rest = Nothing /\ broken = FALSE

(* The client ------------------------------------------------------------*)
\* write(): the header with the count, then the values of every dirty field.
Patch(edited, marks, n) == [count |-> n, values |-> [p \in Sent(marks) |-> edited[p]]]

\* communicate(): what the write answers is ignored, and the marks are
\* removed whether or not the patch has arrived.
Sends(g, edited, marks, n, arrives) ==
    IF g = 0 /\ linked
      THEN /\ wire' = IF arrives THEN Append(wire, Patch(edited, marks, n)) ELSE wire
           /\ broken' = (broken \/ ~arrives)
           /\ dirty' = {} /\ count' = 0
      ELSE /\ dirty' = marks /\ count' = n
           /\ UNCHANGED <<wire, broken>>
CommunicateCleansAlways(g, edited, marks, n, arrives) ==
    IF g = 0 /\ ~linked
      THEN dirty' = {} /\ count' = 0 /\ UNCHANGED <<wire, broken>>
      ELSE Sends(g, edited, marks, n, arrives)
CommunicateInGroups(g, edited, marks, n, arrives) ==
    Sends(0, edited, marks, n, arrives)
Communicate(g, edited, marks, n, arrives) == Sends(g, edited, marks, n, arrives)

MarkAgain(f) == count + 1
Mark(f) == IF f \in dirty THEN count ELSE count + 1

Set(f, v, arrives) ==
    /\ Len(wire) < MaxWire
    /\ local' = [p \in AllPieces |-> IF FieldOf(p) = f THEN v ELSE local[p]]
    /\ Communicate(group, local', dirty \cup {f}, Mark(f), arrives)
    /\ UNCHANGED <<group, linked, rest, remote>>

Begin ==
    /\ group < MaxGroup /\ group' = group + 1
    /\ UNCHANGED <<local, dirty, count, linked, wire, rest, broken, remote>>

\* An end() without its begin() leaves a negative count, and then nothing is
\* ever sent: legal clients close what they open.
End(arrives) ==
    /\ group > 0 /\ Len(wire) < MaxWire
    /\ group' = group - 1
    /\ IF group' = 0 /\ dirty # {}
         THEN Communicate(0, local, dirty, count, arrives)
         ELSE UNCHANGED <<dirty, count, wire, broken>>
    /\ UNCHANGED <<local, linked, rest, remote>>

\* The port to the device is connected; what was edited before is not sent.
Link ==
    /\ ~linked /\ linked' = TRUE
    /\ UNCHANGED <<local, dirty, count, group, wire, rest, broken, remote>>

(* The device ------------------------------------------------------------*)
\* Editor::read begins with the number of fields of the header.
ReadHeader ==
    /\ DOMAIN rest = {} /\ wire # <<>>
    /\ rest' = Head(wire).values /\ wire' = Tail(wire)
    /\ UNCHANGED <<local, dirty, count, group, linked, broken, remote>>
ReadPiece ==
    \E p \in DOMAIN rest :
        /\ \A q \in DOMAIN rest : ~Before(q, p)
        /\ remote' = [remote EXCEPT ![p] = rest[p]]
        /\ rest' = [q \in DOMAIN rest \ {p} |-> rest[q]]
        /\ UNCHANGED <<local, dirty, count, group, linked, wire, broken>>
\* A connection that ends early: what was read so far stays.
ReadBreaks ==
    /\ DOMAIN rest # {} /\ rest' = Nothing /\ broken' = TRUE
    /\ UNCHANGED <<local, dirty, count, group, linked, wire, remote>>

Next ==
    \/ \E f \in Fields, v \in Values, a \in BOOLEAN : Set(f, v, a)
    \/ Begin \/ (\E a \in BOOLEAN : End(a)) \/ Link
    \/ ReadHeader \/ ReadPiece \/ ReadBreaks
Spec == Init /\ [][Next]_editorVars

(* Properties ------------------------------------------------------------*)
TypeOK ==
    /\ {local, remote} \subseteq [AllPieces -> Values]
    /\ dirty \subseteq Fields /\ count \in 0 .. Cardinality(Fields)
    /\ group \in 0 .. MaxGroup
    /\ {linked, broken} \subseteq BOOLEAN
    /\ Len(wire) <= MaxWire /\ \A i \in DOMAIN wire : wire[i].count \in 1 .. Cardinality(Fields)
    /\ DOMAIN rest \subseteq AllPieces

\* A field that is not marked is the same on both sides once every patch has
\* been read, unless a patch was lost or refused: no edit is forgotten.
CleanMeansSent ==
    ~broken /\ wire = <<>> /\ DOMAIN rest = {} =>
        \A p \in AllPieces : FieldOf(p) \notin dirty => remote[p] = local[p]

\* The header of a patch announces as many fields as the patch holds: the
\* reader would otherwise wait for one that never comes, or drop the last.
PatchesAreWellFormed ==
    \A i \in DOMAIN wire :
        wire[i].count = Cardinality({FieldOf(p) : p \in DOMAIN wire[i].values})

\* The gravity vector of the device mixes two edits only while a patch is
\* being read, without the mutex of the device, or after one that broke.
GravityIsOneEdit ==
    DOMAIN rest = {} /\ ~broken =>
        \A p, q \in {"x", "y", "z"} : remote[p] = remote[q]

\* The edits between begin() and end() are sent together: nothing is sent
\* while a group is open.
GroupsAreSentWhole == [][group' > 0 => Len(wire') <= Len(wire)]_editorVars
====
