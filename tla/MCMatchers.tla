---------------------------- MODULE MCMatchers ----------------------------
\* The criteria, texts and documents the matchers' properties are checked over.
EXTENDS Matchers

UpTo(S, n) == UNION {[1..k -> S] : k \in 0..n}

Null == [t |-> "null"]
Str(x) == [t |-> "str", s |-> x]
Num(n) == [t |-> "num", v |-> 10 * n, wide |-> FALSE]
\* Written out as far as a neighbour that rounds to n, or as n itself.
Near(n) == [t |-> "num", v |-> 10 * n + 1, wide |-> TRUE]
Long(n) == [t |-> "num", v |-> 10 * n, wide |-> TRUE]
Arr(s) == [t |-> "arr", items |-> s]
Obj(f) == [t |-> "obj", of |-> f]
Rule(kind) == [t |-> "placeholder", kind |-> kind]

-----------------------------------------------------------------------------
\* equalToJson: every pair of small documents, under every relaxation.
Fields(S) == {Obj([a |-> x]) : x \in S} \cup {Obj([a |-> x, b |-> y]) : x, y \in S} \cup {Obj(<<>>)}

Element == {Num(1), Num(2), Near(2), Rule("any-number"), Obj([a |-> Num(1)]), Rule("ignore")}
Field == {Num(1), Near(1), Rule("any-string"), Rule("ignore-element"), Arr(<<Rule("ignore"), Num(1)>>)}

Expected == Field \cup Fields(Field) \cup {Arr(s) : s \in UpTo(Element, 2) \cup UpTo(Element \ {Rule("ignore"), Near(2)}, 3)}

ActualElement == {Num(1), Long(2), Near(2), Obj([a |-> Num(1)]), Obj([a |-> Num(1), b |-> Num(2)])}
ActualField == {Long(1), Near(1), Str("b"), Arr(<<Num(1), Num(2)>>)}

Actual == {Null} \cup ActualField \cup Fields(ActualField) \cup {Arr(s) : s \in UpTo(ActualElement, 2) \cup UpTo(ActualElement \ {Long(2)}, 3)}

Equalities == [kind : {"json"}, source : Expected, ignoreArrayOrder : BOOLEAN, ignoreExtraElements : BOOLEAN]

\* Matchers.JsonEqualityExact, of one expected document.
EqualityAgrees(m) == \A document \in Actual : JsonEqualityExact(m, document)

-----------------------------------------------------------------------------
\* Criteria of a key, some of them nested, some refused.
Good(v) == [form |-> "good", v |-> v]

A == [t |-> "plain", s |-> "a"]
B == [t |-> "plain", s |-> "b"]
One == Obj([a |-> Num(1)])
TextsOf == {A, B, One}

OnPath(inner) == Good([expression |-> <<[kind |-> "child", name |-> "a"]>>, inner |-> inner])

IsA == [equalTo |-> Good({A})]
Selects == (A :> <<B, A>>) @@ (One :> None)

IsOne == [equalTo |-> Good({Num(1)})]

Simple ==
  {IsA, [doesNotMatch |-> Good({A})], [doesNotContain |-> Good({A, B})], [matches |-> Good({A, B})],
   [absent |-> Good(TRUE)], [equalToJson |-> Good(One)], [matchesJsonSchema |-> Good({One})],
   [matchesJsonPath |-> OnPath(None)], [doesNotMatchJsonPath |-> OnPath(None)],
   [matchesJsonPath |-> OnPath(<<IsOne>>)], [contains |-> Good({B}), doesNotMatch |-> Good({B})],
   [matchesXPath |-> Good([selects |-> Selects, inner |-> <<IsA>>])],
   [matches |-> Good({A, One}), doesNotContain |-> Good({A})]}

Refusable ==
  {[includes |-> Good(<<IsA, [doesNotMatch |-> Good({B})]>>)], [hasExactly |-> Good(<<IsA>>)],
   [hasExactly |-> Good(None)], [equalToJson |-> Good(Obj([a |-> Rule("unknown")]))],
   [binaryEqualTo |-> Good(A)], [schemaVersion |-> Good("V7")],
   [before |-> Good({A}), actualFormat |-> Good("f")], [equalTo |-> Good({A}), actualFormat |-> Good("f")],
   [matches |-> [form |-> "bad"]], [equalTo |-> Good({A}), ignoreArrayOrder |-> Good(TRUE)]}

Combined(S) == {[and |-> Good(<<x, y>>)] : x, y \in S} \cup {[or |-> Good(<<x, y>>)] : x, y \in S}
          \cup {[not |-> Good(x)] : x \in S}

Both == [and |-> Good(<<IsA, [equalTo |-> Good({B})]>>)]

Criteria == Simple \cup Refusable \cup Combined(Simple) \cup Combined({IsA, Both} \cup Refusable)
       \cup Combined(Combined({IsA, [doesNotMatch |-> Good({B})]}))

Bindings == UpTo(TextsOf, 2) \ {None}

\* Matchers.RepeatsDistribute, of one criterion.
RepeatsAgree(criterion) == \A values \in Bindings : RepeatsDistribute(criterion, values)
=============================================================================
