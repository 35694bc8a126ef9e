------------------------------ MODULE JsonPath ------------------------------
(***************************************************************************)
(* JSONPath: the evaluator over the decoded document, and the scanner that *)
(* answers from the bytes for the paths one forward pass can walk.         *)
(*                                                                         *)
(* A document as it arrives is a tree of [t |-> "obj", members |->         *)
(* sequence of <<key, value>>], [t |-> "arr", items |-> sequence],         *)
(* [t |-> "num", v |-> Int], [t |-> "str", s |-> STRING] and               *)
(* [t |-> "null"]; t is "bad" where the bytes are no JSON.  A key may be   *)
(* repeated.  Decoded, an object is [t |-> "obj", of |-> function].        *)
(* Characters and white space are left out; a path is taken as the parser  *)
(* has split it.                                                           *)
(***************************************************************************)
EXTENDS Integers, Sequences, FiniteSets, SequencesExt

CONSTANTS
  KeyOrder,  \* the texts there are, keys and values, in the order of their bytes
  MaxDepth   \* how deep a document may nest: maxScanDepth, and encoding/json's own

None == <<>>

-----------------------------------------------------------------------------
(* encoding/json (external).                                               *)

RECURSIVE Decodes(_, _)
Decodes(raw, depth) ==
  CASE raw.t = "bad" -> FALSE
    [] raw.t = "obj" -> depth < MaxDepth /\ \A i \in DOMAIN raw.members : Decodes(raw.members[i][2], depth + 1)
    [] raw.t = "arr" -> depth < MaxDepth /\ \A i \in DOMAIN raw.items : Decodes(raw.items[i], depth + 1)
    [] OTHER         -> TRUE

\* Duplicate members share one slot of the map, and the last stays in it.
RECURSIVE Decode(_)
Decode(raw) ==
  CASE raw.t = "obj" ->
         LET keys == {raw.members[i][1] : i \in DOMAIN raw.members}
             LastOf(k) == CHOOSE i \in DOMAIN raw.members :
               raw.members[i][1] = k /\ \A j \in (i + 1)..Len(raw.members) : raw.members[j][1] # k
         IN [t |-> "obj", of |-> [k \in keys |-> Decode(raw.members[LastOf(k)][2])]]
    [] raw.t = "arr" -> [t |-> "arr", items |-> [i \in DOMAIN raw.items |-> Decode(raw.items[i])]]
    [] OTHER         -> raw

-----------------------------------------------------------------------------
(* Compile.                                                                *)

\* What registration refuses: a function other than length(), one after "..",
\* a union of names and indexes, and a union inside a filter.
RECURSIVE Refused(_)
Refused(steps) == \E i \in DOMAIN steps :
  LET st == steps[i] IN
  \/ st.kind = "call" /\ st.name # "length"
  \/ st.kind = "descend" /\ st.call
  \/ st.kind = "union" /\ st.names # None /\ st.indexes # None
  \/ st.kind = "filter" /\ \E c \in DOMAIN st.or : \E n \in DOMAIN st.or[c] :
       LET operand == st.or[c][n].path
       IN Refused(operand) \/ \E j \in DOMAIN operand : operand[j].kind = "union"

\* markMergingUnions: a union of names at the end of the path, length() calls
\* aside, gives one object; further up it branches.
Merging(steps, i) ==
  /\ steps[i].kind = "union" /\ steps[i].names # None
  /\ \A j \in (i + 1)..Len(steps) : steps[j].kind = "call"

Definite(steps) == \A i \in DOMAIN steps :
  steps[i].kind \in {"child", "index", "call"} \/ Merging(steps, i)

Scannable(steps) == \A i \in DOMAIN steps :
  steps[i].kind = "child" \/ (steps[i].kind = "index" /\ steps[i].index >= 0)

\* What a path is compiled to, beside its steps.
Compile(steps) ==
  [ok |-> ~Refused(steps), definite |-> Definite(steps), scannable |-> Definite(steps) /\ Scannable(steps)]

-----------------------------------------------------------------------------
(* Eval.                                                                   *)

\* A negative index counts from the end.
At(i, len) == IF i < 0 THEN i + len ELSE i

Clamp(v, lo, hi) == IF v < lo THEN lo ELSE IF v > hi THEN hi ELSE v

\* Mutant of Slice: a negative end is taken as written.
SliceEndRaw(st, items) ==
  LET from == Clamp(At(st.from, Len(items)), 0, Len(items))
      to == Clamp(IF st.hasTo THEN st.to ELSE Len(items), from, Len(items))
  IN SubSeq(items, from + 1, to)

Slice(st, items) ==
  LET from == Clamp(At(st.from, Len(items)), 0, Len(items))
      to == Clamp(IF st.hasTo THEN At(st.to, Len(items)) ELSE Len(items), from, Len(items))
  IN SubSeq(items, from + 1, to)

\* The items at the indexes that are in reach; the others drop out.
Picked(indexes, items) ==
  LET InReach(i) == At(i, Len(items)) \in 0..(Len(items) - 1)
      reached == SelectSeq(indexes, InReach)
  IN [n \in DOMAIN reached |-> items[At(reached[n], Len(items)) + 1]]

SortedKeys(node) == SelectSeq(KeyOrder, LAMBDA k : k \in DOMAIN node.of)

Named(names, node) ==
  LET kept == SelectSeq(names, LAMBDA k : k \in DOMAIN node.of)
  IN [n \in DOMAIN kept |-> node.of[kept[n]]]

Children(node) ==
  CASE node.t = "obj" -> Named(SortedKeys(node), node)
    [] node.t = "arr" -> node.items
    [] OTHER          -> None

\* Every value under the name at any depth, "*" standing for all.
RECURSIVE Descend(_, _)
Descend(node, name) ==
  CASE node.t = "obj" ->
         LET keys == SortedKeys(node)
         IN FlattenSeq([n \in DOMAIN keys |->
              (IF name \in {"*", keys[n]} THEN <<node.of[keys[n]]>> ELSE None)
                \o Descend(node.of[keys[n]], name)])
    [] node.t = "arr" ->
         FlattenSeq([n \in DOMAIN node.items |->
              (IF name = "*" THEN <<node.items[n]>> ELSE None) \o Descend(node.items[n], name)])
    [] OTHER -> None

\* Numbers compare numerically, strings lexically.
Rank(value) == IF value.t = "num" THEN value.v ELSE CHOOSE i \in DOMAIN KeyOrder : KeyOrder[i] = value.s

\* compare: equality on any scalar, an order on two numbers and on two strings,
\* and false for the rest.
Compare(actual, op, expected) ==
  CASE op = "==" -> actual = expected
    [] op = "!=" -> actual # expected
    [] OTHER ->
         /\ actual.t = expected.t /\ actual.t \in {"num", "str"}
         /\ CASE op = ">"  -> Rank(actual) > Rank(expected)
              [] op = ">=" -> Rank(actual) >= Rank(expected)
              [] op = "<"  -> Rank(actual) < Rank(expected)
              [] op = "<=" -> Rank(actual) <= Rank(expected)

NotFound(definite) == [found |-> FALSE, definite |-> definite, hits |-> None]

RECURSIVE Eval(_, _), Apply(_, _, _), TermHolds(_, _)

\* An operand alone asks whether it resolves, whatever it resolves to.
TermHolds(term, item) ==
  LET result == Eval(term.path, item)
  IN result.found /\ (term.op = "" \/ \E n \in DOMAIN result.hits : Compare(result.hits[n], term.op, term.value))

\* A disjunction of conjunctions of terms.
FilterHolds(st, item) ==
  \E c \in DOMAIN st.or : \A n \in DOMAIN st.or[c] : TermHolds(st.or[c][n], item)

Apply(steps, i, node) ==
  LET st == steps[i] IN
  CASE st.kind = "child" -> IF node.t = "obj" THEN Named(<<st.name>>, node) ELSE None
    [] st.kind = "index" -> IF node.t = "arr" THEN Picked(<<st.index>>, node.items) ELSE None
    [] st.kind = "wildcard" -> Children(node)
    [] st.kind = "slice" -> IF node.t = "arr" THEN Slice(st, node.items) ELSE None
    [] st.kind = "union" /\ st.names = None ->
         IF node.t = "arr" THEN Picked(st.indexes, node.items) ELSE None
    [] st.kind = "union" /\ st.names # None ->
         IF node.t # "obj" THEN None
         ELSE IF Merging(steps, i)
           THEN <<[t |-> "obj", of |-> [k \in ToSet(st.names) \cap DOMAIN node.of |-> node.of[k]]]>>
         ELSE Named(st.names, node)
    [] st.kind = "call" ->
         IF node.t \in {"obj", "arr"} THEN <<[t |-> "num", v |-> Len(Children(node))]>> ELSE None
    [] st.kind = "descend" -> Descend(node, st.name)
    [] st.kind = "filter" ->
         IF node.t = "arr" THEN SelectSeq(node.items, LAMBDA item : FilterHolds(st, item))
         ELSE IF FilterHolds(st, node) THEN <<node>> ELSE None

\* The nodes reached step by step; a definite path keeps the first.
Eval(steps, doc) ==
  LET Reached[i \in 0..Len(steps)] ==
        IF i = 0 THEN <<doc>>
        ELSE FlattenSeq([n \in DOMAIN Reached[i - 1] |-> Apply(steps, i, Reached[i - 1][n])])
      current == Reached[Len(steps)]
  IN IF current = None THEN NotFound(Definite(steps))
     ELSE [found |-> TRUE, definite |-> Definite(steps),
           hits |-> IF Definite(steps) THEN <<current[1]>> ELSE current]

NonEmptyNode(node) == ~(node.t = "null" \/ (node.t \in {"obj", "arr"} /\ Children(node) = None))

\* Result.Matches: the truthiness of matchesJsonPath's bare form.
Matches(result) == result.found /\ (result.definite => NonEmptyNode(result.hits[1]))

-----------------------------------------------------------------------------
(* The scanner.                                                            *)

Invalid  == [ok |-> FALSE, found |-> FALSE]
Nothing  == [ok |-> TRUE, found |-> FALSE]

\* skipString, skipLiteral, skipNumber: a scalar by the grammar of JSON.
Token(raw) == raw.t # "bad"

\* keyIs: an escaped key is decoded before it is compared.
KeyIs(key, name) == key = name

\* value, object and array: one pass validates the whole document and, where the
\* next step asks for a member or an item, selects inside it.
RECURSIVE ScanValue(_, _, _, _), ScanMembers(_, _, _, _, _), ScanItems(_, _, _, _, _)

\* What the loop over the members has selected by its i-th.  A repeated key
\* replaces what the earlier one selected, by nothing too.
\* Mutant of Replaces: the last that found something stays.
ReplacesIfFound(earlier, later) == IF later.ok /\ ~later.found THEN earlier ELSE later

Replaces(earlier, later) == later

ScanMembers(members, i, steps, selecting, depth) ==
  IF i = 0 THEN Nothing
  ELSE LET earlier == ScanMembers(members, i - 1, steps, selecting, depth)
           wanted == selecting /\ steps[1].kind = "child" /\ KeyIs(members[i][1], steps[1].name)
           here == IF wanted THEN ScanValue(members[i][2], Tail(steps), TRUE, depth)
                   ELSE ScanValue(members[i][2], None, FALSE, depth)
       IN IF ~earlier.ok \/ ~here.ok THEN Invalid
          ELSE IF wanted THEN Replaces(earlier, here) ELSE earlier

ScanItems(items, i, steps, selecting, depth) ==
  IF i = 0 THEN Nothing
  ELSE LET earlier == ScanItems(items, i - 1, steps, selecting, depth)
           wanted == selecting /\ steps[1].kind = "index" /\ steps[1].index = i - 1
           here == IF wanted THEN ScanValue(items[i], Tail(steps), TRUE, depth)
                   ELSE ScanValue(items[i], None, FALSE, depth)
       IN IF ~earlier.ok \/ ~here.ok THEN Invalid ELSE IF wanted THEN here ELSE earlier

ScanValue(raw, steps, selecting, depth) ==
  IF selecting /\ steps = None
    THEN IF ScanValue(raw, None, FALSE, depth).ok THEN [ok |-> TRUE, found |-> TRUE, span |-> raw] ELSE Invalid
  ELSE CASE raw.t = "obj" -> IF depth + 1 > MaxDepth THEN Invalid
                             ELSE ScanMembers(raw.members, Len(raw.members), steps, selecting, depth + 1)
         [] raw.t = "arr" -> IF depth + 1 > MaxDepth THEN Invalid
                             ELSE ScanItems(raw.items, Len(raw.items), steps, selecting, depth + 1)
         [] OTHER -> IF Token(raw) THEN Nothing ELSE Invalid

Scan(steps, raw) == ScanValue(raw, steps, TRUE, 0)

\* nonEmptyRaw: read off the bytes, where a repeated key has not been merged.
NonEmptyRaw(raw) ==
  CASE raw.t = "null" -> FALSE
    [] raw.t = "obj"  -> raw.members # None
    [] raw.t = "arr"  -> raw.items # None
    [] OTHER          -> TRUE

MatchBytes(steps, raw) ==
  LET s == Scan(steps, raw) IN s.ok /\ s.found /\ NonEmptyRaw(s.span)

\* Numbers come back as the tree would hold them.
DecodeNode(span) == Decode(span)

EvalBytes(steps, raw) ==
  LET s == Scan(steps, raw)
  IN IF ~s.ok \/ ~s.found THEN NotFound(TRUE)
     ELSE [found |-> TRUE, definite |-> TRUE, hits |-> <<DecodeNode(s.span)>>]

-----------------------------------------------------------------------------
(* What they promise.                                                      *)

\* scan.go:33: the two give the same answers, for every path the scanner takes
\* and every document, one that is not JSON and is no match either way included.
ScanIsEval(steps, raw) ==
  (Compile(steps).ok /\ Compile(steps).scannable) =>
    IF Decodes(raw, 0)
      THEN LET result == Eval(steps, Decode(raw))
           IN Scan(steps, raw).ok /\ EvalBytes(steps, raw) = result
                /\ MatchBytes(steps, raw) = Matches(result)
      ELSE ~Scan(steps, raw).ok /\ ~MatchBytes(steps, raw) /\ ~EvalBytes(steps, raw).found

\* A location is the keys and positions (from 0) on the way to a node.
RECURSIVE Locations(_)
Locations(node) ==
  {<<>>} \cup
  CASE node.t = "obj" -> UNION {{<<[key |-> k]>> \o l : l \in Locations(node.of[k])} : k \in DOMAIN node.of}
    [] node.t = "arr" -> UNION {{<<[pos |-> i - 1]>> \o l : l \in Locations(node.items[i])} : i \in DOMAIN node.items}
    [] OTHER          -> {}

RECURSIVE NodeAt(_, _)
NodeAt(node, loc) ==
  IF loc = <<>> THEN node
  ELSE NodeAt(IF node.t = "obj" THEN node.of[loc[1].key] ELSE node.items[loc[1].pos + 1], Tail(loc))

\* How two values stand to each other, and where each operator holds.
Standing(a, b) ==
  IF a = b THEN "same"
  ELSE IF a.t = "num" /\ b.t = "num" THEN (IF a.v < b.v THEN "below" ELSE "above")
  ELSE IF a.t = "str" /\ b.t = "str"
    THEN (IF \E i, j \in DOMAIN KeyOrder : i < j /\ KeyOrder[i] = a.s /\ KeyOrder[j] = b.s
          THEN "below" ELSE "above")
  ELSE "apart"

HoldsWhere(op) ==
  CASE op = "==" -> {"same"}          [] op = "!=" -> {"below", "above", "apart"}
    [] op = "<=" -> {"below", "same"} [] op = ">"  -> {"above"}
    [] op = ">=" -> {"above", "same"} [] op = "<"  -> {"below"}

\* null is equal to null, and neither below nor above it.
Relates(a, op, b) == Standing(a, b) \in HoldsWhere(op) /\ (op \in {"<=", ">="} => a.t \in {"num", "str"})

RECURSIVE Ways(_, _)

\* One of the conjunctions holds of the item: every operand in it leads somewhere,
\* and to a value that stands to the literal as asked.
Satisfies(st, item) ==
  \E c \in DOMAIN st.or : \A n \in DOMAIN st.or[c] :
    LET term == st.or[c][n]
        ends == {NodeAt(item, w[Len(w)]) : w \in Ways(term.path, item)}
    IN IF term.op = "" THEN ends # {} ELSE \E v \in ends : Relates(v, term.op, term.value)

\* The step leads from one location to another, by the meaning of the notation.
Leads(st, doc, from, to) ==
  LET node == NodeAt(doc, from)
      down == Len(to) = Len(from) + 1 /\ IsPrefix(from, to)
      len == IF node.t = "arr" THEN Len(node.items) ELSE 0
      IsPos(i) == to[Len(to)] = [pos |-> i] \/ to[Len(to)] = [pos |-> i + len]
      pos == to[Len(to)].pos
  IN CASE st.kind = "child"    -> down /\ to[Len(to)] = [key |-> st.name]
       [] st.kind = "index"    -> down /\ IsPos(st.index)
       [] st.kind = "wildcard" -> down
       [] st.kind = "slice"    ->
            /\ down /\ node.t = "arr"
            /\ IF st.from >= 0 THEN pos >= st.from ELSE pos - len >= st.from
            /\ st.hasTo => IF st.to >= 0 THEN pos < st.to ELSE pos - len < st.to
       [] st.kind = "descend"  ->
            /\ IsStrictPrefix(from, to)
            /\ st.name = "*" \/ to[Len(to)] = [key |-> st.name]
       [] st.kind = "filter"   ->
            /\ IF node.t = "arr" THEN down ELSE to = from
            /\ Satisfies(st, NodeAt(doc, to))

RECURSIVE Navigates(_)
Navigates(steps) == \A i \in DOMAIN steps :
  /\ steps[i].kind \notin {"union", "call"}
  /\ steps[i].kind = "filter" =>
       \A c \in DOMAIN steps[i].or : \A n \in DOMAIN steps[i].or[c] : Navigates(steps[i].or[c][n].path)

\* The ways to follow the path through the document.
Ways(steps, doc) ==
  LET Reach[i \in 0..Len(steps)] ==
        IF i = 0 THEN {<< <<>> >>}
        ELSE {Append(w, to) : w \in Reach[i - 1], to \in Locations(doc)}
  IN {w \in Reach[Len(steps)] : \A i \in DOMAIN steps : Leads(steps[i], doc, w[i], w[i + 1])}

\* SPEC 6.7: the evaluator selects the nodes the path leads to, each as often as
\* there are ways to it, and no other: whatever is negative, out of range,
\* missing, or of the wrong type.
EvalSelects(steps, raw) ==
  (Decodes(raw, 0) /\ Compile(steps).ok /\ Navigates(steps)) =>
    LET doc == Decode(raw)
        hits == Eval(steps, doc).hits
        ways == Ways(steps, doc)
        Ends(node) == {w \in ways : NodeAt(doc, w[Len(w)]) = node}
    IN /\ Len(hits) = Cardinality(ways)
       /\ \A n \in DOMAIN hits :
            Cardinality({m \in DOMAIN hits : hits[m] = hits[n]}) = Cardinality(Ends(hits[n]))
=============================================================================
