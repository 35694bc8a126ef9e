------------------------------ MODULE MCParts ------------------------------
\* Parts of the pod that share no state with each other, checked side by side:
\* a behaviour picks one of them and the others stand still.
EXTENDS FileStore, Selection, Response, TLC

VARIABLES
  subject,   \* which part this behaviour is of
  probe      \* the input a pure function is asked about

-----------------------------------------------------------------------------
\* Selection: two stubs of every shape, or three of a few.
Var(n) == [isVar |-> TRUE, literal |-> n]
Lit(n) == [isVar |-> FALSE, literal |-> n]

Shape(u, m, p, w) == [kind |-> u[1], url |-> u[2], method |-> m, priority |-> p, wants |-> w]

UnderA == <<"template", <<Lit("a"), Var("x")>> >>

Urls == {<<"any", 0>>, <<"exactFull", [path |-> <<"a", "b">>, query |-> "q"]>>,
         <<"exactPath", <<"a", "b">> >>, <<"patternPath", {<<"a">>, <<"a", "b">>}>>, UnderA}

XIsB == <<"path", <<"x", "b">> >>
Form == <<"form", "f">>
Flow == <<"scenario", "s">>

Shapes == {Shape(u, m, p, w) : u \in Urls, m \in {"GET", "ANY"}, p \in 1..2, w \in {{}, {Form}}}
     \cup {Shape(UnderA, "ANY", p, w) : p \in 1..2, w \in {{XIsB}, {XIsB, Flow}}}

FewShapes == {Shape(u, m, 1, {}) : u \in {<<"any", 0>>, <<"exactPath", <<"a", "b">> >>}, m \in {"GET", "ANY"}}
     \cup {Shape(UnderA, "ANY", 2, {XIsB, Form})}

WithSeq(s, n) == [kind |-> s.kind, url |-> s.url, method |-> s.method, priority |-> s.priority,
                  wants |-> s.wants, seq |-> n]

Numbered(list) == [i \in DOMAIN list |-> WithSeq(list[i], i)]

Lineups == {<<>>} \cup {Numbered(<<a, b>>) : a, b \in Shapes} \cup {Numbered(<<a, b, c>>) : a, b, c \in FewShapes}

Calls == [method : {"GET", "PUT"}, path : {<<"a">>, <<"a", "b">>, <<"a", "">>}, query : {"q"}, has : {{}, {Form}}]
    \cup [method : {"GET"}, path : {<<"a", "b">>}, query : {"?"}, has : {{Flow}}]

\* What SelectionProofs asks of the stubs.
ASSUME ListsAreCompiled == CompiledLists

-----------------------------------------------------------------------------
\* Responses: every way of sending a body, every way of delaying one, and the
\* answers that send none of the stub's.  Durations go up to 7.
NoDelay == [kind |-> "none"]
Delayed(by, dist) == [fixed |-> by, delay |-> dist]
NoSettings == Delayed(0, NoDelay)

Uniform == [kind |-> "uniform", lower |-> 1, upper |-> 2]
LogNormal == [kind |-> "lognormal", median |-> 1]

Plain ==
  [status |-> 200, size |-> 3, rendered |-> 2, template |-> "none", declared |-> -1, coding |-> "none",
   hasStatusMessage |-> FALSE, dribble |-> [chunks |-> 0, total |-> 0], fault |-> "none",
   bodyFileMissing |-> FALSE, fixed |-> 0, fixedSet |-> FALSE, delay |-> NoDelay]

Sent(resps, hijacks, heads, slacks) ==
  [resp : resps, global : {NoSettings}, head : heads, hijack : hijacks, slack : slacks]

Sendings ==
  Sent({[Plain EXCEPT !.status = st, !.size = n, !.template = t, !.declared = len, !.coding = te,
                      !.hasStatusMessage = phrase, !.dribble = [chunks |-> d[1], total |-> d[2]]] :
          st \in {200, 204}, n \in {0, 1, 5}, t \in {"none", "renders"}, len \in {-2, -1, 2},
          te \in {"none", "chunked"}, phrase \in BOOLEAN, d \in {<<0, 0>>, <<2, 3>>, <<7, 5>>}},
       BOOLEAN, BOOLEAN, {0, 1})
  \cup
  Sent({[Plain EXCEPT !.status = st, !.declared = len, !.hasStatusMessage = phrase, !.dribble = [chunks |-> n, total |-> n]] :
          st \in {101, 103}, len \in {-1, 2}, phrase \in BOOLEAN, n \in {0, 2}},
       BOOLEAN, BOOLEAN, {1})

Delayings ==
  [resp : {[Plain EXCEPT !.fixed = f[2], !.fixedSet = f[1], !.delay = d] :
             f \in {<<FALSE, 0>>, <<TRUE, 0>>, <<TRUE, 2>>}, d \in {NoDelay, Uniform, LogNormal}},
   global : {NoSettings, Delayed(1, LogNormal), Delayed(2, Uniform)},
   head : {FALSE}, hijack : {TRUE}, slack : {1}]

Failures ==
  Sent({[Plain EXCEPT !.fault = "reset"], [Plain EXCEPT !.bodyFileMissing = TRUE], [Plain EXCEPT !.template = "fails"]},
       BOOLEAN, {FALSE}, {1})

Ways == Sendings \cup Delayings \cup Failures

\* What ResponseProofs asks of the responses.
ASSUME ResponsesAreCompiled == CompiledExchanges

-----------------------------------------------------------------------------
\* JSONPath: one document a behaviour, and every path.
Json == INSTANCE MCJsonPath WITH KeyOrder <- <<"a", "b">>, MaxDepth <- 2

-----------------------------------------------------------------------------
\* Matchers: one expected document or one criterion a behaviour, and every
\* document or binding it may be asked about.  Numbers are kept in tenths.
RoundOff(v) == v - (v % 10)

Matcher == INSTANCE MCMatchers
  WITH KeyOrder <- <<"a", "b">>, MaxDepth <- 5, MaxNesting <- 2, Round <- RoundOff

-----------------------------------------------------------------------------
\* Verification: a pattern and a request a behaviour; near misses of the
\* pattern beside two others; or two texts and how far they are apart.
Text(x) == [t |-> "plain", s |-> x]

Record == INSTANCE MCVerification WITH
  Canonical <- [x |-> "X", X |-> "X", q |-> "q", sid |-> "SID", SID |-> "SID", Authorization |-> "Authorization"],
  Latin1 <- (Text("latin1 bytes") :> Text("accented")),
  Lossy <- (Text("latin1 bytes") :> Text("replacement characters")),
  Raw <- {"{b}"}, Reescaped <- ("{b}" :> <<"%7Bb%7D">> @@ "%61" :> <<"a">>),
  KeyOrder <- <<"a", "b">>, MaxDepth <- 5, MaxNesting <- 2, Round <- RoundOff, MaxDifferent <- 4, Unit <- 12

-----------------------------------------------------------------------------
\* The parts that stand still show one of their initial states.
InitFiles == IF subject = "files" THEN Init ELSE Init /\ tree = [f \in Files |-> Absent]

InitSelect == MatchInit /\ (subject = "select" \/ stubs = Numbered(<<>>))

InitReply == WriteInit /\ (subject = "reply" \/ exchange = CHOOSE e \in Failures : TRUE)

MCInit ==
  /\ subject \in {"files", "select", "reply", "jsonpath", "equality", "criterion", "record", "words"}
  /\ InitFiles
  /\ InitSelect
  /\ InitReply
  /\ probe \in CASE subject = "jsonpath"  -> Json!Documents
                 [] subject = "equality"  -> Matcher!Equalities
                 [] subject = "criterion" -> Matcher!Criteria
                 [] subject = "record"    -> Record!Patterns \X Record!Arrivals
                 [] subject = "words"     -> Record!Words \X Record!Words
                 [] OTHER                 -> {Json!Null}

partVars == <<subject, vars, matchVars, writeVars, probe>>

OfFiles(action) == subject = "files" /\ action /\ UNCHANGED <<subject, matchVars, writeVars, probe>>

MCNext ==
  \/ OfFiles(Next)
  \/ subject = "select" /\ MatchNext /\ UNCHANGED <<subject, vars, writeVars, probe>>
  \/ subject = "reply" /\ WriteNext /\ UNCHANGED <<subject, vars, matchVars, probe>>

MCSpec == MCInit /\ [][MCNext]_partVars /\ WF_partVars(OfFiles(BeginPoll)) /\ WF_partVars(OfFiles(Walking))

\* See JsonPath.
ScanIsEval == subject = "jsonpath" => Json!ScanAgrees(probe)
EvalSelects == subject = "jsonpath" => Json!EvalAgrees(probe)

\* See Matchers.
JsonEqualityExact == subject = "equality" => Matcher!EqualityAgrees(probe)
RepeatsDistribute == subject = "criterion" => Matcher!RepeatsAgree(probe)

\* See Verification.
VerificationAgrees == subject = "record" => Record!VerificationAgrees(probe[1], probe[2])
RecordedAgrees == subject = "record" => Record!RecordedAgrees(probe[1], probe[2])
NearestFirst ==
  subject = "record" =>
    /\ Record!MatchesAreNearest(probe[1], probe[2])
    /\ \A p, q \in Record!Ranked :
         Record!RankingIsStable(Record!Ids(<<p, probe[1], q>>), probe[2], 2)
DistanceIsLeast == subject = "words" => Record!DistanceIsLeast(probe[1], probe[2])
=============================================================================
