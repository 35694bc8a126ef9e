------------------------------ MODULE Matchers ------------------------------
(***************************************************************************)
(* Content matchers: how a criterion is compiled and what it answers of a  *)
(* subject.                                                                *)
(*                                                                         *)
(* A text is [t |-> "plain", s |-> STRING] or, where it is JSON, the       *)
(* document it decodes to (see JsonPath), its numbers carrying their exact *)
(* value v and whether they were written wide.  What a pattern, a          *)
(* substring, a date or an expected string accepts is a set of texts.  A   *)
(* criterion as registered is a function from its keys to operands, an     *)
(* operand [form |-> "good", v |-> what it says] or one that is refused.   *)
(***************************************************************************)
EXTENDS Integers, Sequences, FiniteSets, SequencesExt

CONSTANTS
  KeyOrder, MaxDepth,  \* see JsonPath
  MaxNesting,          \* how deep combinators nest
  Round(_)             \* the float64 a decimal decodes to

Path == INSTANCE JsonPath

None == <<>>
Empty == [t |-> "plain", s |-> ""]

-----------------------------------------------------------------------------
(* Numbers.  The tree holds float64s; a literal is wide when float64 may   *)
(* not tell it from a neighbour.                                           *)

\* canonicalDecimal: scale and the sign of zero are no part of the value.
\* pairExactNumbers: an expected number becomes a rule about decimals.
As(reading, num) ==
  CASE reading = "float"   -> [t |-> "num", v |-> Round(num.v), wide |-> FALSE]
    [] reading = "decimal" -> [t |-> "decimal", v |-> num.v]
    [] reading = "rule"    -> [t |-> "placeholder", kind |-> "decimal", v |-> num.v]

\* The document with each number read one of these ways.
RECURSIVE Reading(_, _)
Reading(reading, doc) ==
  CASE doc.t = "obj" -> [doc EXCEPT !.of = [k \in DOMAIN doc.of |-> Reading(reading, doc.of[k])]]
    [] doc.t = "arr" -> [doc EXCEPT !.items = [i \in DOMAIN doc.items |-> Reading(reading, doc.items[i])]]
    [] doc.t = "num" -> As(reading, doc)
    [] OTHER         -> doc

RECURSIVE Nodes(_)
Nodes(doc) == {doc} \cup
  CASE doc.t = "obj" -> UNION {Nodes(doc.of[k]) : k \in DOMAIN doc.of}
    [] doc.t = "arr" -> UNION {Nodes(doc.items[i]) : i \in DOMAIN doc.items}
    [] OTHER         -> {}

HasNumber(doc) == \E node \in Nodes(doc) : node.t = "num"

DocumentNeedsExactNumbers(doc) == \E node \in Nodes(doc) : node.t = "num" /\ node.wide

-----------------------------------------------------------------------------
(* json-unit placeholders in an expected document.                         *)

Holds(ph, actual) ==
  CASE ph.kind \in {"ignore", "ignore-element"} -> TRUE
    [] ph.kind = "any-string"  -> actual.t = "str"
    [] ph.kind = "any-number"  -> actual.t \in {"num", "decimal"}
    [] ph.kind = "any-boolean" -> actual.t = "bool"
    [] ph.kind = "regex"       -> actual.t = "str" /\ actual.s \in ph.accepts
    [] ph.kind = "decimal"     -> actual = [t |-> "decimal", v |-> ph.v]

Optional(node) == node.t = "placeholder" /\ node.kind = "ignore-element"

UnknownPlaceholder(node) == node.t = "placeholder" /\ node.kind = "unknown"

-----------------------------------------------------------------------------
(* jsonEqual.                                                              *)

\* The pairing of arrays whose order does not count: candidates[i] lists the
\* actual elements the i-th expected one accepts.
FirstFit(candidates) ==
  LET Free(i, used) == SelectSeq(candidates[i], LAMBDA j : j \notin used)
      Used[i \in 0..Len(candidates)] ==
        IF i = 0 THEN {}
        ELSE IF Free(i, Used[i - 1]) = None THEN Used[i - 1] ELSE Used[i - 1] \cup {Free(i, Used[i - 1])[1]}
  IN Cardinality(Used[Len(candidates)]) = Len(candidates)

\* An augmenting path from i, trying its candidates from the n-th on.
RECURSIVE AugmentPairing(_, _, _, _, _)
AugmentPairing(i, n, candidates, pairedWith, visited) ==
  IF n > Len(candidates[i]) THEN [ok |-> FALSE, pairedWith |-> pairedWith, visited |-> visited]
  ELSE LET j == candidates[i][n]
           deeper == IF pairedWith[j] = 0
                       THEN [ok |-> TRUE, pairedWith |-> pairedWith, visited |-> visited \cup {j}]
                     ELSE AugmentPairing(pairedWith[j], 1, candidates, pairedWith, visited \cup {j})
       IN IF j \in visited THEN AugmentPairing(i, n + 1, candidates, pairedWith, visited)
          ELSE IF deeper.ok THEN [deeper EXCEPT !.pairedWith[j] = i]
          ELSE AugmentPairing(i, n + 1, candidates, deeper.pairedWith, deeper.visited)

\* Mutant of ArrayMatchable: visited is not cleared from one search to the next.
ArrayMatchableVisitsOnce(candidates, n) ==
  LET Search[i \in 0..Len(candidates)] ==
        IF i = 0 THEN [ok |-> TRUE, pairedWith |-> [j \in 1..n |-> 0], visited |-> {}]
        ELSE IF ~Search[i - 1].ok THEN Search[i - 1]
        ELSE AugmentPairing(i, 1, candidates, Search[i - 1].pairedWith, Search[i - 1].visited)
  IN Search[Len(candidates)].ok

ArrayMatchable(candidates, n) ==
  LET Search[i \in 0..Len(candidates)] ==
        IF i = 0 THEN [ok |-> TRUE, pairedWith |-> [j \in 1..n |-> 0], visited |-> {}]
        ELSE IF ~Search[i - 1].ok THEN Search[i - 1]
        ELSE AugmentPairing(i, 1, candidates, Search[i - 1].pairedWith, {})
  IN Search[Len(candidates)].ok

LengthsAgree(exp, act, m) == Len(act) >= Len(exp) /\ (m.ignoreExtraElements \/ Len(act) = Len(exp))

RECURSIVE JsonEqual(_, _, _), ArrayEqualUnordered(_, _, _)

\* Greedy first; only its failures pay for the matching.
ArrayEqualUnordered(exp, act, m) ==
  /\ LengthsAgree(exp, act, m)
  /\ LET candidates == [i \in DOMAIN exp |->
           SelectSeq([j \in DOMAIN act |-> j], LAMBDA j : JsonEqual(exp[i], act[j], m))]
     IN FirstFit(candidates) \/ ArrayMatchable(candidates, Len(act))

JsonEqual(expected, actual, m) ==
  CASE expected.t = "placeholder" -> Holds(expected, actual)
    [] expected.t = "obj" ->
         /\ actual.t = "obj"
         /\ m.ignoreExtraElements \/ DOMAIN actual.of \subseteq DOMAIN expected.of
         /\ \A k \in DOMAIN expected.of :
              IF k \in DOMAIN actual.of THEN JsonEqual(expected.of[k], actual.of[k], m)
              ELSE Optional(expected.of[k])
    [] expected.t = "arr" ->
         /\ actual.t = "arr"
         /\ IF m.ignoreArrayOrder THEN ArrayEqualUnordered(expected.items, actual.items, m)
            ELSE /\ LengthsAgree(expected.items, actual.items, m)
                 /\ \A i \in DOMAIN expected.items : JsonEqual(expected.items[i], actual.items[i], m)
    [] OTHER -> actual = expected

\* A match at float64 precision is confirmed digit by digit where the digits
\* could have rounded together.
ConfirmNumbers(m, document) ==
  \/ ~HasNumber(m.source)
  \/ ~DocumentNeedsExactNumbers(m.source) /\ ~DocumentNeedsExactNumbers(document)
  \/ JsonEqual(Reading("rule", m.source), Reading("decimal", document), m)

EqualToJson(m, document) ==
  JsonEqual(Reading("float", m.source), Reading("float", document), m) /\ ConfirmNumbers(m, document)

-----------------------------------------------------------------------------
(* Subjects.                                                               *)

Key(values) == [kind |-> "key", present |-> TRUE, values |-> values, strict |-> FALSE]
AbsentKey   == [Key(None) EXCEPT !.present = FALSE]
AbsentCookie == [AbsentKey EXCEPT !.strict = TRUE]
View(value) == [Key(<<value>>) EXCEPT !.kind = "view"]
Body(text)  == [Key(<<text>>) EXCEPT !.kind = "body", !.present = text # Empty]
Document(text) == [Body(text) EXCEPT !.kind = "document"]

IsJson(text) == text.t # "plain"

\* JSON: the first value's, and metadata that is null is taken for none.
HasJson(s) ==
  /\ s.present /\ s.values # None /\ IsJson(s.values[1])
  /\ s.kind = "document" => s.values[1].t # "null"

\* perValueScope
Repeated(s) == s.kind = "key" /\ s.present /\ Len(s.values) >= 2

-----------------------------------------------------------------------------
(* Match.                                                                  *)

MatchAnyValue(s, accepts) == s.present /\ \E i \in DOMAIN s.values : s.values[i] \in accepts

MatchNegatedValue(s, accepts) ==
  IF ~s.present THEN ~s.strict
  ELSE s.values = None \/ \E i \in DOMAIN s.values : s.values[i] \notin accepts

\* The criteria that are asked of a repeated key one value at a time.
\* Mutant of WholeCriterion: the combinators leave it to their operands.
LeavesOnly(m) == m.kind \in {"json", "path", "xpath", "parsed"}

WholeCriterion(m) == m.kind \in {"json", "path", "xpath", "parsed", "and", "or", "not"}

Scopes(m, s) ==
  IF WholeCriterion(m) /\ Repeated(s) THEN {View(s.values[i]) : i \in DOMAIN s.values} ELSE {s}

\* renderSelected: a string is passed on raw.
Rendered(node) == IF node.t = "str" THEN [t |-> "plain", s |-> node.s] ELSE node

RECURSIVE Match(_, _)

\* matchOne of each criterion.
MatchOne(m, s) ==
  CASE m.kind = "json"   -> s.present /\ HasJson(s) /\ EqualToJson(m, s.values[1])
    [] m.kind = "parsed" -> s.present /\ s.values[1] \in m.accepts
    [] m.kind = "path"   ->
         LET result == Path!Eval(m.steps, Reading("float", s.values[1]))
             inner(node) == node.t # "null" /\ Match(m.inner[1], Key(<<Rendered(node)>>))
         IN m.negate # (/\ s.present /\ HasJson(s)
                        /\ IF m.inner = None THEN Path!Matches(result)
                           ELSE \E n \in DOMAIN result.hits : inner(result.hits[n]))
    [] m.kind = "xpath"  ->
         /\ s.present /\ s.values[1] \in DOMAIN m.selects
         /\ \E n \in DOMAIN m.selects[s.values[1]] :
              m.inner = None \/ Match(m.inner[1], View(m.selects[s.values[1]][n]))
    [] m.kind = "and"    -> \A i \in DOMAIN m.of : Match(m.of[i], s)
    [] m.kind = "or"     -> \E i \in DOMAIN m.of : Match(m.of[i], s)
    [] m.kind = "not"    -> ~Match(m.of[1], s)

Match(m, s) ==
  CASE m.kind = "value"  -> IF m.negate THEN MatchNegatedValue(s, m.accepts) ELSE MatchAnyValue(s, m.accepts)
    [] m.kind = "absent" -> ~s.present
    [] m.kind = "binary" ->
         /\ s.present \/ m.bytes = Empty
         /\ m.bytes = IF s.present /\ s.values # None THEN s.values[1] ELSE Empty
    [] m.kind \in {"hasExactly", "includes"} ->
         /\ s.present
         /\ m.kind = "hasExactly" => Len(s.values) = Len(m.of)
         /\ \A n \in DOMAIN m.of : \E i \in DOMAIN s.values : Match(m.of[n], View(s.values[i]))
    [] OTHER ->
         /\ (m.kind \in {"and", "or", "not"} /\ ~s.present) => ~s.strict
         /\ \E subject \in Scopes(m, s) : MatchOne(m, subject)

-----------------------------------------------------------------------------
(* Compile.                                                                *)

Problem == [ok |-> FALSE]
Built(m) == [ok |-> TRUE, m |-> m]

Has(doc, k) == k \in DOMAIN doc

modifierKeys == {"caseInsensitive", "ignoreArrayOrder", "ignoreExtraElements"}
temporalMatcherKeys == {"before", "after", "equalToDateTime"}
temporalModifierKeys == {"truncateExpected", "truncateActual", "applyTruncationLast", "actualFormat"}
modifiers == modifierKeys \cup temporalModifierKeys \cup {"schemaVersion"}

\* A flag that is no boolean is taken for FALSE.
BoolField(doc, k) == Has(doc, k) /\ doc[k].form = "good" /\ doc[k].v

\* A modifier without the matcher it modifies.
Stray(doc, k) ==
  \/ k = "schemaVersion" /\ ~Has(doc, "matchesJsonSchema")
  \/ k \in temporalModifierKeys /\ \A t \in temporalMatcherKeys : ~Has(doc, t)

\* A matcher where it may not stand.
Misplaced(doc, k, opts) ==
  \/ k \in {"hasExactly", "includes"} /\ (~opts.AllowMultiValue \/ Cardinality(DOMAIN doc) > 1)
  \/ k = "binaryEqualTo" /\ ~opts.AllowContentPatterns

Nested(opts) == [AllowContentPatterns |-> FALSE, AllowMultiValue |-> FALSE, depth |-> opts.depth + 1]

RECURSIVE Compile(_, _), CompileOne(_, _, _)

CompileAll(items, opts) ==
  LET built == [i \in DOMAIN items |-> Compile(items[i], Nested(opts))]
  IN IF \E i \in DOMAIN items : ~built[i].ok THEN Problem ELSE Built([i \in DOMAIN items |-> built[i].m])

\* A criterion of the criteria it is written over, if they all compile.
Over(kind, items, opts) ==
  LET all == CompileAll(items, opts)
  IN IF all.ok THEN Built([kind |-> kind, of |-> all.m]) ELSE Problem

\* An expression alone, or with one inner matcher for what it selects.
CompilePath(v, negate, opts) ==
  LET inner == CompileAll(v.inner, opts)
  IN IF Path!Refused(v.expression) \/ ~inner.ok THEN Problem
     ELSE Built([kind |-> "path", negate |-> negate, steps |-> v.expression, inner |-> inner.m])

CompileXPath(v, opts) ==
  LET inner == CompileAll(v.inner, opts)
  IN IF inner.ok THEN Built([kind |-> "xpath", selects |-> v.selects, inner |-> inner.m]) ELSE Problem

CompileList(k, items, opts) ==
  IF Len(items) < (CASE k \in {"and", "or"} -> 2 [] k = "hasExactly" -> 1 [] OTHER -> 0) THEN Problem
  ELSE Over(k, items, opts)

\* Of the right type; base64, a pattern, a schema, a date or a document where it
\* has to be one; and not null.
Readable(operand) == operand.form = "good"

CompileOne(doc, k, opts) ==
  LET v == doc[k].v IN
  IF ~Readable(doc[k]) THEN Problem
  ELSE CASE k \in {"equalTo", "contains", "matches"} \cup temporalMatcherKeys ->
              Built([kind |-> "value", negate |-> FALSE, accepts |-> v])
         [] k \in {"doesNotContain", "doesNotMatch"} -> Built([kind |-> "value", negate |-> TRUE, accepts |-> v])
         [] k = "binaryEqualTo" -> Built([kind |-> "binary", bytes |-> v])
         [] k = "absent" -> IF v THEN Built([kind |-> "absent"]) ELSE Problem
         [] k \in {"matchesJsonSchema", "equalToXml"} -> Built([kind |-> "parsed", accepts |-> v])
         [] k = "equalToJson" ->
              IF \E node \in Nodes(v) : UnknownPlaceholder(node) THEN Problem
              ELSE Built([kind |-> "json", source |-> v,
                          ignoreArrayOrder |-> BoolField(doc, "ignoreArrayOrder"),
                          ignoreExtraElements |-> BoolField(doc, "ignoreExtraElements")])
         [] k \in {"matchesJsonPath", "doesNotMatchJsonPath"} -> CompilePath(v, k = "doesNotMatchJsonPath", opts)
         [] k = "matchesXPath" -> CompileXPath(v, opts)
         [] k = "not" -> Over("not", <<v>>, opts)
         [] k \in {"and", "or", "hasExactly", "includes"} -> CompileList(k, v, opts)
         [] OTHER -> Problem

\* Several matchers in one object are a conjunction; one problem refuses it all.
Compile(doc, opts) ==
  LET keys == SetToSeq(DOMAIN doc \ modifiers)
      built == [i \in DOMAIN keys |-> CompileOne(doc, keys[i], opts)]
  IN IF \/ opts.depth > MaxNesting
        \/ keys = None
        \/ \E k \in DOMAIN doc : Stray(doc, k) \/ Misplaced(doc, k, opts)
        \/ \E i \in DOMAIN keys : ~built[i].ok
       THEN Problem
     ELSE IF Len(keys) = 1 THEN built[1]
     ELSE Built([kind |-> "and", of |-> [i \in DOMAIN keys |-> built[i].m]])

-----------------------------------------------------------------------------
(* What they promise.                                                      *)

\* The two documents say the same, up to the relaxations: digit for digit, and
\* where order does not count, one element for one.
RECURSIVE Same(_, _, _)
Same(expected, actual, m) ==
  CASE expected.t = "obj" ->
         /\ actual.t = "obj"
         /\ \A k \in DOMAIN expected.of \cup DOMAIN actual.of :
              CASE ~Has(expected.of, k) -> m.ignoreExtraElements
                [] ~Has(actual.of, k)   -> Optional(expected.of[k])
                [] OTHER                -> Same(expected.of[k], actual.of[k], m)
    [] expected.t = "arr" ->
         /\ actual.t = "arr"
         /\ m.ignoreExtraElements \/ Len(actual.items) = Len(expected.items)
         /\ \E to \in [DOMAIN expected.items -> DOMAIN actual.items] :
              /\ m.ignoreArrayOrder \/ \A i \in DOMAIN to : to[i] = i
              /\ \A i, j \in DOMAIN to : to[i] = to[j] => i = j
              /\ \A i \in DOMAIN to : Same(expected.items[i], actual.items[to[i]], m)
    [] expected.t = "num"         -> actual.t = "num" /\ actual.v = expected.v
    [] expected.t = "placeholder" -> Holds(expected, actual)
    [] OTHER                      -> actual = expected

\* SPEC 5.2: equalToJson answers as the exact comparison of the two documents
\* would, whichever shortcut answered.
JsonEqualityExact(m, document) == Match(m, Body(document)) <=> Same(m.source, document, m)

ForKeys == [AllowContentPatterns |-> FALSE, AllowMultiValue |-> TRUE, depth |-> 0]

\* SPEC 5.2: a criterion of a repeated key holds when one of its values alone
\* satisfies all of it, unless it asks about the values together; two values
\* cannot share the work, nor does a negation speak for all of them.
RepeatsDistribute(criterion, values) ==
  LET compiled == Compile(criterion, ForKeys)
  IN (compiled.ok /\ compiled.m.kind \notin {"hasExactly", "includes"}) =>
       (Match(compiled.m, Key(values)) <=> \E i \in DOMAIN values : Match(compiled.m, Key(<<values[i]>>)))
=============================================================================
