---- MODULE RemoteCalls ----
(***************************************************************************)
(* The generated RPC interfaces of wholeBodyDynamics, floatingBaseEstimator*)
(* and eventRepeater.  A client calls a stub, or types a command; the      *)
(* words of the command find the method, its arguments are read one by     *)
(* one, the method is called and its result sent back.  A connection may   *)
(* break before the command or its answer arrives.                         *)
(***************************************************************************)
EXTENDS Naturals, Sequences, FiniteSetsExt, SequencesExt

CONSTANT Missing   \* names of the methods a server does not override

VARIABLES call,     \* the command called or typed
          stub,     \* it was written by the generated stub
          request,  \* words and values under way to the server
          server,   \* idle, decided, refused, answered
          method,   \* the method the words have found, with its arguments
          done,     \* calls of a method, with the result
          answer    \* what the client is told

callVars == <<call, stub, request, server, method, done, answer>>

None == "none"
Default == "default"
Word(parts) == [type |-> "word", value |-> parts]
Value(type) == [type |-> type, value |-> <<type>>]

(* The interfaces --------------------------------------------------------*)
\* name, types of the arguments, and an optional number of samples at the end
M(name, args, samples) == [name |-> name, args |-> args, samples |-> samples]
NoMethod == M(<<>>, <<>>, FALSE)
NoCall == [server |-> None, method |-> NoMethod]
Unread == [method |-> NoMethod, given |-> <<>>, samples |-> Default]

CalibrationMethods ==
    {M(<<"calib">>, <<"word">>, TRUE), M(<<"calibStanding">>, <<"word">>, TRUE),
     M(<<"calibStandingLeftFoot">>, <<"word">>, TRUE),
     M(<<"calibStandingRightFoot">>, <<"word">>, TRUE),
     M(<<"calibStandingOnOneLink">>, <<"word">>, TRUE),
     M(<<"calibStandingOnTwoLinks">>, <<"word", "word">>, TRUE),
     M(<<"resetOffset">>, <<"word">>, FALSE), M(<<"quit">>, <<>>, FALSE)}
OdometryMethods ==
    {M(<<"resetSimpleLeggedOdometry">>, <<"word", "word">>, FALSE),
     M(<<"changeFixedLinkSimpleLeggedOdometry">>, <<"word">>, FALSE)}
Cutoffs == {"imuFilterCutoffInHz", "forceTorqueFilterCutoffInHz",
            "jointVelFilterCutoffInHz", "jointAccFilterCutoffInHz"}
CutoffMethods ==
    {M(<<"set", c>>, <<"float">>, FALSE) : c \in Cutoffs}
      \cup {M(<<"get", c>>, <<>>, FALSE) : c \in Cutoffs}
KinematicSourceMethods ==
    {M(<<"useIMUAsKinematicSource">>, <<>>, FALSE),
     M(<<"useFixedFrameAsKinematicSource">>, <<"word">>, FALSE),
     M(<<"setUseOfJointVelocities">>, <<"bool">>, FALSE),
     M(<<"setUseOfJointAccelerations">>, <<"bool">>, FALSE),
     M(<<"getCurrentSettingsString">>, <<>>, FALSE)}
FloatingBaseMethods ==
    {M(<<"resetSimpleLeggedOdometry">>, <<"word", "word">>, FALSE),
     M(<<"resetSimpleLeggedOdometryToArbitraryFrame">>,
       <<"word", "transform", "word">>, FALSE),
     M(<<"changeFixedLinkSimpleLeggedOdometry">>, <<"word">>, FALSE),
     M(<<"getCurrentSettingsString">>, <<>>, FALSE)}
EventMethods == {M(<<"sendEvent">>, <<"word">>, FALSE), M(<<"se">>, <<"word">>, FALSE)}

WholeBodyMethods ==
    CalibrationMethods \cup OdometryMethods \cup CutoffMethods \cup KinematicSourceMethods
Servers == [wholeBody |-> WholeBodyMethods, floatingBase |-> FloatingBaseMethods,
            events |-> EventMethods]

(* The client ------------------------------------------------------------*)
\* write(): the words of the name, then the arguments; a transform is a
\* list of twelve numbers.
Written(m) ==
    [i \in DOMAIN m.name |-> Word(<<m.name[i]>>)]
      \o [i \in DOMAIN m.args |-> Value(m.args[i])]
      \o (IF m.samples THEN <<Value("int")>> ELSE <<>>)

\* What a person may type instead: the name as one word, an argument or the
\* samples left out, a value of another type at the end, one too many.
Typed(m) ==
    LET w == Written(m)
        one == <<Word(m.name)>> \o SubSeq(w, Len(m.name) + 1, Len(w))
    IN  {w, one, Front(w), Append(Front(w), Value("double")), Append(w, Value("int"))}
          \ {<<>>}

Init ==
    /\ call = NoCall /\ stub = FALSE /\ request = <<>> /\ server = "idle"
    /\ method = Unread /\ done = <<>> /\ answer = None

Call(s, m) ==
    /\ call = NoCall
    /\ call' = [server |-> s, method |-> m] /\ stub' = TRUE /\ request' = Written(m)
    /\ UNCHANGED <<server, method, done, answer>>
TypeCommand(s, m) ==
    /\ call = NoCall /\ \E t \in Typed(m) : request' = t
    /\ call' = [server |-> s, method |-> m] /\ stub' = FALSE
    /\ UNCHANGED <<server, method, done, answer>>

(* The server ------------------------------------------------------------*)
\* Words are joined until they are the name of a method.
StartsWith(name, words) == IsPrefix(words, name)
NameIs(name, words) == name = words

Joined(tokens, k) == FlattenSeq([i \in 1 .. k |-> tokens[i].value])
\* The methods found after k words, none of a shorter beginning being one.
FoundAt(tokens, k) ==
    LET words == Joined(tokens, k)
    IN  {m \in Servers[call.server] : NameIs(m.name, words)}
Found(tokens) ==
    LET words == {k \in DOMAIN tokens : \A i \in 1 .. k : tokens[i].type = "word"}
        found == [k \in words |-> FoundAt(tokens, k)]
        at == {k \in words : found[k] # {}}
    IN  IF at = {} THEN [method |-> NoMethod, rest |-> <<>>]
        ELSE [method |-> CHOOSE m \in found[Min(at)] : TRUE,
              rest |-> SubSeq(tokens, Min(at) + 1, Len(tokens))]

\* An argument that is missing or of another type refuses the command, a
\* number of samples that is leaves the default; what follows is not read.
ReadsAll(m, rest) ==
    /\ Len(rest) >= Len(m.args)
    /\ \A i \in DOMAIN m.args :
          rest[i].type = m.args[i] \/ (m.args[i] = "float" /\ rest[i].type = "int")
Reads(m, rest) == ReadsAll(m, rest)
SamplesFirst(m, rest) ==
    IF m.samples /\ rest # <<>> /\ rest[1].type = "int" THEN "asked" ELSE Default
SamplesOf(m, rest) ==
    LET i == Len(m.args) + 1
    IN  IF m.samples /\ i <= Len(rest) /\ rest[i].type = "int" THEN "asked" ELSE Default

ReadOr(refusal) ==
    /\ request # <<>> /\ server = "idle"
    /\ LET found == Found(request)
       IN  IF found.method # NoMethod /\ Reads(found.method, found.rest)
           THEN /\ server' = "decided"
                /\ method' = [method |-> found.method,
                              given |-> found.rest,
                              samples |-> SamplesOf(found.method, found.rest)]
           ELSE server' = refusal /\ UNCHANGED method
    /\ request' = <<>>
    /\ UNCHANGED <<call, stub, done, answer>>
ReadSilently == ReadOr("idle")
Read == ReadOr("refused")

\* The method of the server, or the one it inherits, a stub without a
\* connection, which answers with the default.
Run(result) ==
    /\ server = "decided"
    /\ method.method.name \in Missing => ~result
    /\ done' = Append(done, [method |-> method.method, result |-> result])
    /\ server' = "answered"
    /\ UNCHANGED <<call, stub, request, method, answer>>

(* The answer ------------------------------------------------------------*)
\* A call whose connection fails, or that is refused, has the default result.
AnswerTrue == "true"
AnswerFalse == "false"
OnFailure == AnswerFalse
Lost ==
    /\ call # NoCall /\ answer = None
    /\ answer' = OnFailure
    /\ UNCHANGED <<call, stub, request, server, method, done>>
Refused ==
    /\ server = "refused" /\ answer = None
    /\ answer' = OnFailure
    /\ UNCHANGED <<call, stub, request, server, method, done>>
Answered ==
    /\ server = "answered" /\ answer = None
    /\ answer' = IF done[Len(done)].result THEN "true" ELSE "false"
    /\ UNCHANGED <<call, stub, request, server, method, done>>
\* The client may call again once the server has done with the call.
Again ==
    /\ answer # None /\ server \in {"refused", "answered"}
    /\ call' = NoCall /\ stub' = FALSE /\ server' = "idle" /\ method' = Unread
    /\ done' = <<>> /\ answer' = None
    /\ UNCHANGED request

Next ==
    \/ \E s \in DOMAIN Servers : \E m \in Servers[s] : Call(s, m)
    \/ \E s \in DOMAIN Servers : \E m \in Servers[s] : TypeCommand(s, m)
    \/ Read \/ (\E r \in BOOLEAN : Run(r))
    \/ Lost \/ Refused \/ Answered \/ Again
Spec == Init /\ [][Next]_callVars
FairSpec ==
    /\ Spec
    /\ WF_callVars(Read) /\ WF_callVars(\E r \in BOOLEAN : Run(r))
    /\ WF_callVars(Refused) /\ WF_callVars(Answered)

(* Properties ------------------------------------------------------------*)
TypeOK ==
    /\ call # NoCall => call.server \in DOMAIN Servers
    /\ server \in {"idle", "decided", "refused", "answered"}
    /\ Len(done) <= 1 /\ (server = "answered") = (Len(done) = 1)
    /\ answer \in {"true", "false", None}

\* No two methods of an interface can be mistaken for one another: a command
\* runs the method whose name was called or typed, with all its arguments.
RunsWhatWasCalled ==
    \A i \in DOMAIN done :
        /\ done[i].method = call.method
        /\ Len(method.given) >= Len(call.method.args)

\* What a stub writes is never refused, and keeps the samples asked for.
StubsAreUnderstood ==
    stub => /\ server # "refused"
            /\ done # <<>> /\ call.method.samples => method.samples = "asked"

\* TRUE means that the method has run, once, and has answered TRUE; FALSE
\* means nothing: the answer may have been lost after the method has run.
TrueMeansDone == answer = "true" => done # <<>> /\ done[1].result

\* Every command is answered, were it garbage.
CommandsAreAnswered == call # NoCall ~> answer # None
====
