---------------------------- MODULE MCJsonPath ----------------------------
\* The documents and the paths the JSONPath properties are checked over.
EXTENDS JsonPath

Null == [t |-> "null"]
Num(n) == [t |-> "num", v |-> n]
Str(x) == [t |-> "str", s |-> x]
Bad == [t |-> "bad"]
Arr(s) == [t |-> "arr", items |-> s]
Obj(m) == [t |-> "obj", members |-> m]

UpTo(S, n) == UNION {[1..k -> S] : k \in 0..n}

Member(k, v) == <<k, v>>
Pairs(S) == {Member(k, v) : k \in ToSet(KeyOrder), v \in S}

\* Every small document; bigger ones, that repeat keys, nest, run too deep for a
\* MaxDepth of 2, and break off somewhere.
Leaf == {Null, Num(1), Bad}

Inside == {Null, Num(1), Num(2), Str("a"), Str("b"), Bad, Arr(<<>>), Arr(<<Num(1), Null>>), Obj(<<>>),
           Obj(<<Member("a", Num(1))>>),
           Obj(<<Member("a", Obj(<<>>)), Member("a", Num(2))>>),
           Obj(<<Member("a", Arr(<<Num(1)>>)), Member("b", Num(1))>>)}

Documents ==
  Leaf \cup {Arr(s) : s \in UpTo(Leaf, 2)} \cup {Obj(m) : m \in UpTo(Pairs(Leaf), 2)}
    \cup {Obj(m) : m \in UpTo(Pairs(Inside), 2)}
    \cup {Arr(s) : s \in UpTo(Inside, 2) \cup UpTo({Num(1), Num(2), Obj(<<Member("a", Num(1))>>)}, 3)}

Child(k) == [kind |-> "child", name |-> k]
Index(i) == [kind |-> "index", index |-> i]
Wild == [kind |-> "wildcard"]
SliceOf(from, hasTo, to) == [kind |-> "slice", from |-> from, hasTo |-> hasTo, to |-> to]
Down(k) == [kind |-> "descend", name |-> k, call |-> FALSE]
Term(path, op, v) == [path |-> path, op |-> op, value |-> v]
Filter(or) == [kind |-> "filter", or |-> or]
Where(op, v) == Filter(<<<<Term(<<Child("a")>>, op, v)>>>>)

Steps == {Child("a"), Child("b"), Index(0), Index(1), Index(-1), Wild,
          SliceOf(0, TRUE, -1), SliceOf(-2, FALSE, 0), SliceOf(1, TRUE, 5),
          Down("a"), Down("*"), Where("", Null), Where("==", Num(1)), Where("<=", Num(1))}

\* Each operator on a number, a text and null; an operand that finds many; and two
\* conjunctions.
Filters == {Where(op, v) : op \in {"==", "!=", "<", "<=", ">", ">="}, v \in {Num(1), Str("a"), Str("b"), Null}}
  \cup {Filter(<<<<Term(<<Down("a")>>, "!=", Num(1))>>>>),
        Filter(<<<<Term(<<Child("a")>>, ">", Num(1)), Term(<<Child("b")>>, "", Null)>>,
                 <<Term(<<Child("b"), Wild>>, "<", Num(2))>>>>)}

Paths == UpTo(Steps, 2) \cup {<<Child("a"), Child("a"), Index(0)>>}
           \cup {<<f>> : f \in Filters} \cup {<<Wild, f>> : f \in Filters}

-----------------------------------------------------------------------------
Scannables == {p \in Paths : Compile(p).scannable}

\* JsonPath.ScanIsEval, of one document.
ScanAgrees(document) == \A p \in Scannables : ScanIsEval(p, document)

\* JsonPath.EvalSelects, of one document.
EvalAgrees(document) == \A p \in Paths : EvalSelects(p, document)
=============================================================================
