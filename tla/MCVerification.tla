-------------------------- MODULE MCVerification --------------------------
\* The patterns and requests the verification's properties are checked over.
EXTENDS Verification

Text(x) == [t |-> "plain", s |-> x]

A == Text("a")
B == Text("b")
One == [t |-> "obj", of |-> [a |-> [t |-> "num", v |-> 1, wide |-> FALSE]]]
Bytes == Text("latin1 bytes")
Accented == Text("accented")
Credentials == Text("Basic credentials")

Is(v) == [kind |-> "value", negate |-> FALSE, accepts |-> {v}]
IsNot(v) == [kind |-> "value", negate |-> TRUE, accepts |-> {v}]
Missing == [kind |-> "absent"]
Exactly(v, w) == [kind |-> "hasExactly", of |-> <<Is(v), Is(w)>>]
Neither(v) == [kind |-> "not", of |-> <<Is(v)>>]
Json == [kind |-> "json", source |-> One, ignoreArrayOrder |-> FALSE, ignoreExtraElements |-> FALSE]

On(name, m) == [name |-> name, m |-> m, described |-> <<Text("equalTo"), A>>]

Var(n) == [isVar |-> TRUE, literal |-> n]
Lit(n) == [isVar |-> FALSE, literal |-> n]

-----------------------------------------------------------------------------
AnyRequest ==
  [method |-> "ANY", kind |-> "any", url |-> <<>>, host |-> {}, port |-> {}, scheme |-> {},
   headers |-> {}, query |-> {}, cookies |-> {}, auth |-> {}, pathParams |-> {}, form |-> {}, body |-> {}]

Urls == {<<"any", <<>> >>, <<"exactFull", [path |-> <<"a", "b">>, query |-> ""]>>,
         <<"exactFull", [path |-> <<"a">>, query |-> "q"]>>, <<"exactPath", <<"a", "c">> >>,
         <<"patternFull", {[path |-> <<"a">>, query |-> q] : q \in {"", "q"}}>>,
         <<"patternPath", {<<"a", "b">>}>>, <<"template", <<Lit("a"), Var("v")>> >>,
         <<"exactPath", <<"a", "{b}">> >>, <<"patternPath", {<<"a", "%7Bb%7D">>}>>}

ByURL == {[AnyRequest EXCEPT !.method = m, !.kind = u[1], !.url = u[2]] : m \in {"ANY", "GET", "PUT"}, u \in Urls}

OfKey == {Is(A), IsNot(A), Missing, Neither(B), Json}

ByHeader == {[AnyRequest EXCEPT !.headers = c] :
               c \in {{On(n, m)} : n \in {"x", "X"}, m \in OfKey \cup {Exactly(A, B)}}
                 \cup {{On("x", Is(A)), On("X", Is(B))}}}
ByCookie == {[AnyRequest EXCEPT !.cookies = {On("sid", m)}] : m \in OfKey}
ByQuery  == {[AnyRequest EXCEPT !.query = {On("q", m)}] : m \in OfKey \cup {Exactly(A, B)}}
ByBody   == {[AnyRequest EXCEPT !.body = c] : c \in {{m} : m \in OfKey \cup {Is(Accented)}} \cup {{Is(A), Missing}}}
Beyond   == {[AnyRequest EXCEPT !.host = {Is(A)}], [AnyRequest EXCEPT !.port = {Is(Empty)}],
             [AnyRequest EXCEPT !.scheme = {Is(B)}], [AnyRequest EXCEPT !.auth = {Credentials}],
             [AnyRequest EXCEPT !.kind = "template", !.url = <<Lit("a"), Var("v")>>, !.pathParams = {On("v", Is("b"))}],
             [AnyRequest EXCEPT !.form = {On("q", Is(A))}]}
Mixed    == {[AnyRequest EXCEPT !.method = "GET", !.headers = {On("x", Is(A))}, !.query = {On("q", m)},
                                !.cookies = {On("SID", Is(A))}, !.body = {IsNot(A)}] : m \in OfKey}

Patterns == ByURL \cup ByHeader \cup ByCookie \cup ByQuery \cup ByBody \cup Beyond \cup Mixed

-----------------------------------------------------------------------------
Plain ==
  [method |-> "GET", path |-> <<"a">>, query |-> "", params |-> <<>>, host |-> A, port |-> Empty, scheme |-> A,
   headers |-> <<>>, cookies |-> <<>>, type |-> "", fields |-> <<>>, body |-> Empty, head |-> Empty, cut |-> FALSE]

Param(v, decodes) == [name |-> "q", value |-> v, decodes |-> decodes]
Pair(n, read, kept) == [name |-> n, read |-> read, kept |-> kept]
Cookie(n, v) == Pair(n, <<v>>, <<v>>)

Targets == {[Plain EXCEPT !.method = m, !.path = p, !.query = q] :
              m \in {"GET", "PUT"}, p \in {<<"a">>, <<"a", "b">>, <<"b", "a", "c">>, <<"%61">>, <<"a", "{b}">>, <<"%61", "{b}">>}, q \in {"", "?", "q"}}

Keyed == {[Plain EXCEPT !.headers = h, !.cookies = c] :
            h \in {<<>>} \cup {"X" :> v : v \in {<<A>>, <<B>>, <<One>>, <<A, B>>, <<B, A>>, <<Bytes>>}}
                   \cup {"Authorization" :> <<Credentials>>},
            c \in {<<>>, <<Cookie("sid", A)>>, <<Cookie("SID", A)>>, <<Cookie("sid", A), Cookie("sid", B)>>,
                   <<Cookie("sid", One), Cookie("SID", B)>>, <<Pair("sid", <<B>>, <<>>)>>,
                   <<Pair("sid", <<>>, <<Empty>>)>>, <<Pair("sid", <<A>>, <<Text(" a")>>)>>}}

Queried == {[Plain EXCEPT !.query = "q", !.params = s] :
              s \in {<<Param(A, TRUE)>>, <<Param(B, TRUE), Param(A, TRUE)>>, <<Param(A, TRUE), Param(B, FALSE)>>}}

Payloads == {[Plain EXCEPT !.type = t, !.fields = <<[name |-> "q", value |-> A]>>, !.body = b, !.head = A, !.cut = cut] :
             t \in {"", "form", "latin1"}, b \in {A, B, One, Bytes}, cut \in BOOLEAN}

Arrivals == Targets \cup Keyed \cup Queried \cup Payloads

-----------------------------------------------------------------------------
Words == UNION {[1..n -> {"a", "b"}] : n \in 0..4} \cup {<<"a", "b", "c", "a">>, <<"c", "a", "b">>}

\* A few stubs, in the order their ids do not give.
Ids(patterns) == [i \in DOMAIN patterns |-> [id |-> 9 - i, pattern |-> patterns[i]]]
Ranked == {AnyRequest, [AnyRequest EXCEPT !.method = "PUT"], [AnyRequest EXCEPT !.headers = {On("x", Is(A))}],
           [AnyRequest EXCEPT !.kind = "exactPath", !.url = <<"a", "c">>]}
=============================================================================
