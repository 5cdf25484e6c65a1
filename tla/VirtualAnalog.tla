---- MODULE VirtualAnalog ----
(***************************************************************************)
(* virtualAnalogRemapper and virtualAnalogClient: the remapper spreads the *)
(* torque estimates of a list of axes over several clients, each of which  *)
(* publishes the estimates of its own axes in one message.                 *)
(***************************************************************************)
EXTENDS Naturals, Sequences, FiniteSets, SequencesExt

CONSTANTS Devices,    \* the devices that can be attached
          NamesOf,    \* the axes each of them exposes, in order
          AxesLists,  \* the lists axesNames of a configuration
          Measures    \* values of an estimate, other than the initial zero

VARIABLES phase,    \* closed, open, attached, or undefined after an overrun
          axes,     \* m_axesNames
          again,    \* attachAll was called a second time without detachAll
          mapped,   \* remappedAxes
          subs,     \* remappedSubdevices
          buffer,   \* measureBuffer of each client, as in its last message
          count,    \* messages a client has sent in the last update
          update    \* the estimates of the last update, <<>> before one

analogVars == <<phase, axes, again, mapped, subs, buffer, count, update>>

NoDevice == "none"
Unmapped == [dev |-> NoDevice, local |-> 1, vector |-> FALSE]
Channels(d) == DOMAIN NamesOf[d]
Zero(d) == [c \in Channels(d) |-> 0]

Init ==
    /\ phase = "closed" /\ axes \in AxesLists /\ again = FALSE
    /\ mapped = <<>> /\ subs = <<>>
    /\ buffer = [d \in Devices |-> Zero(d)]
    /\ count = [d \in Devices |-> 0] /\ update = <<>>

Open ==
    /\ phase = "closed" /\ phase' = "open"
    /\ UNCHANGED <<axes, again, mapped, subs, buffer, count, update>>

(* attachAll -------------------------------------------------------------*)
\* The last device that exposes an axis is the one it is mapped to; an axis
\* that none exposes is mapped to nothing.
LastWith(list, name) ==
    {i \in DOMAIN list : name \in ToSet(NamesOf[list[i]])
        /\ \A k \in i + 1 .. Len(list) : name \notin ToSet(NamesOf[list[k]])}
IndexOf(d, name) == CHOOSE c \in Channels(d) : NamesOf[d][c] = name
Located(list) ==
    [i \in DOMAIN axes |->
        LET at == LastWith(list, axes[i])
            old == IF i \in DOMAIN mapped THEN mapped[i].vector ELSE FALSE
        IN  IF at = {} THEN [Unmapped EXCEPT !.vector = old]
            ELSE LET d == list[CHOOSE k \in at : TRUE]
                 IN  [dev |-> d, local |-> IndexOf(d, axes[i]), vector |-> old]]

\* local2globalIdx of the k-th device: the last axis mapped to a channel; for
\* a channel without one, what an earlier attachAll left there, 0 for nothing.
Globals(located, d, c) ==
    {i \in DOMAIN located : located[i].dev = d /\ located[i].local = c}
LocalToGlobal(located, k, d) ==
    [c \in Channels(d) |->
        IF Globals(located, d, c) # {} THEN Max(Globals(located, d, c))
        ELSE IF k \in DOMAIN subs /\ c \in DOMAIN subs[k].global THEN subs[k].global[c]
        ELSE 0]
Remapped(located, d) == Cardinality({i \in DOMAIN located : located[i].dev = d})
WholeIfAny(located, d) == Remapped(located, d) > 0
Whole(located, d) == Remapped(located, d) = Cardinality(Channels(d))

\* The flags of the axes a device is mapped from are set when all its channels
\* are remapped and cleared when not, but never cleared for the first axis
\* ("globalIdx > 0").
Flags(located, l2g, list) ==
    [i \in DOMAIN located |->
        LET by == {k \in DOMAIN list : i \in ToSet(l2g[k])
                                        /\ (i > 1 \/ Whole(located, list[k]))}
        IN  IF by = {} THEN located[i]
            ELSE [located[i] EXCEPT !.vector = Whole(located, list[Max(by)])]]

AttachAll(list, axisInfo) ==
    /\ phase \in {"open", "attached"}
    /\ again' = (phase = "attached")
    /\ IF ~axisInfo
         THEN UNCHANGED <<phase, mapped, subs>>    \* returns before it maps
         ELSE LET located == Located(list)
                  l2g == [k \in DOMAIN list |-> LocalToGlobal(located, k, list[k])]
                  overrun == \E k \in DOMAIN list : Whole(located, list[k])
                                  /\ \E c \in DOMAIN l2g[k] : l2g[k][c] = 0
              IN  /\ phase' = IF overrun THEN "undefined" ELSE "attached"
                  /\ mapped' = Flags(located, l2g, list)
                  /\ subs' = [k \in DOMAIN list |->
                                [dev |-> list[k], global |-> l2g[k],
                                 vector |-> Whole(located, list[k])]]
    /\ count' = [d \in Devices |-> 0] /\ update' = <<>>
    /\ UNCHANGED <<axes, buffer>>

DetachAll ==
    /\ phase \in {"open", "attached"}
    /\ phase' = "open" /\ mapped' = <<>> /\ subs' = <<>> /\ again' = FALSE
    /\ update' = <<>>
    /\ UNCHANGED <<axes, buffer, count>>
Close == phase = "open" /\ phase' = "gone"
         /\ UNCHANGED <<axes, again, mapped, subs, buffer, count, update>>

(* updateVirtualAnalogSensorMeasure --------------------------------------*)
\* First one message for each whole device, then one for each other axis,
\* with what the buffer of its client holds for the axes not updated.
AxesOf(d) == {i \in DOMAIN mapped : mapped[i].dev = d /\ ~mapped[i].vector}
Vectors == {k \in DOMAIN subs : subs[k].vector}
Spread(m) ==
    [d \in Devices |-> [c \in Channels(d) |->
        LET one == {i \in AxesOf(d) : mapped[i].local = c}
            all == {k \in Vectors : subs[k].dev = d}
        IN  IF one # {} THEN m[CHOOSE i \in one : \A k \in one : k <= i]
            ELSE IF all # {} THEN m[subs[CHOOSE k \in all : TRUE].global[c]]
            ELSE buffer[d][c]]]
SpreadVectors(m) ==
    [d \in Devices |-> [c \in Channels(d) |->
        LET all == {k \in Vectors : subs[k].dev = d}
        IN  IF all # {} THEN m[subs[CHOOSE k \in all : TRUE].global[c]] ELSE buffer[d][c]]]
\* A device updated as a whole, and its axes once more one by one.
CountsBoth == [d \in Devices |-> Remapped(mapped, d)
                                   + Cardinality({k \in Vectors : subs[k].dev = d})]
Counts == [d \in Devices |-> Cardinality(AxesOf(d))
                               + Cardinality({k \in Vectors : subs[k].dev = d})]
Written(m) == Spread(m)

Update(m) ==
    /\ phase = "attached"
    /\ buffer' = Written(m) /\ update' = m
    /\ count' = Counts
    /\ UNCHANGED <<phase, axes, again, mapped, subs>>

\* The method of a single channel writes the one axis.
UpdateOne(i, v) ==
    /\ phase = "attached" /\ i \in DOMAIN mapped /\ mapped[i].dev # NoDevice
    /\ buffer' = [buffer EXCEPT ![mapped[i].dev][mapped[i].local] = v]
    /\ update' = IF update = <<>> THEN <<>>
                 ELSE [k \in DOMAIN update |->
                         IF k = i \/ axes[k] = axes[i] THEN v ELSE update[k]]
    /\ UNCHANGED <<phase, axes, again, mapped, subs, count>>

Lists == {l \in UNION {[1 .. n -> Devices] : n \in 0 .. Cardinality(Devices)} :
            IsInjective(l)}
Next ==
    \/ Open \/ DetachAll \/ Close
    \/ \E l \in Lists, a \in BOOLEAN : AttachAll(l, a)
    \/ \E m \in [DOMAIN axes -> Measures] : Update(m)
    \/ \E i \in DOMAIN axes, v \in Measures : UpdateOne(i, v)
Spec == Init /\ [][Next]_analogVars

(* Properties ------------------------------------------------------------*)
TypeOK ==
    /\ phase \in {"closed", "open", "attached", "undefined", "gone"}
    /\ axes \in AxesLists /\ again \in BOOLEAN
    /\ phase = "attached" => DOMAIN mapped = DOMAIN axes
    /\ \A i \in DOMAIN mapped : mapped[i].dev \in Devices \cup {NoDevice}
    /\ \A d \in Devices : buffer[d] \in [Channels(d) -> Measures \cup {0}]
    /\ DOMAIN update \subseteq DOMAIN axes

\* After an update each axis a device exposes has its estimate in the last
\* message about it, unless the list of axes names one twice.  The first axis
\* is an exception after a second attachAll, when it may keep the flag that
\* says its device is updated as a whole.
EstimatesArrive ==
    IsInjective(axes) /\ update # <<>> =>
        \A i \in DOMAIN mapped :
            mapped[i].dev # NoDevice /\ (i > 1 \/ ~again) =>
                buffer[mapped[i].dev][mapped[i].local] = update[i]

\* A device whose channels are all remapped gets one message an update, one
\* with other channels one message for each of its axes, never both.
OneMessageWhenWhole ==
    IsInjective(axes) /\ update # <<>> /\ ~again => \A k \in DOMAIN subs :
        LET d == subs[k].dev
            n == Cardinality({i \in DOMAIN mapped : mapped[i].dev = d})
        IN  count[d] = IF n = Cardinality(Channels(d)) THEN 1 ELSE n

\* The table of a device is run over only by a list that names an axis twice.
OverrunNeedsATwin == phase = "undefined" => ~IsInjective(axes)
====
