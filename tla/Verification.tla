---------------------------- MODULE Verification ----------------------------
(***************************************************************************)
(* What a request pattern says of a request: when it arrives, where the    *)
(* engine matches a stub's pattern against it; once it is recorded, where  *)
(* a verification counts the journal entries a pattern describes; and how  *)
(* far a pattern is from a request that it does not match.                 *)
(*                                                                         *)
(* A pattern is what the stub compiler makes of a `request` object: the    *)
(* method and URL as in Selection, and criteria whose matchers are those   *)
(* of Matchers.  A request is what the client sent, its target in origin   *)
(* form.  Header names are canonical there, and a name is spelled as it    *)
(* pleases in a criterion and in a cookie.  A pair of the Cookie header is *)
(* what the engine reads in it and what net/http keeps of it, each one     *)
(* value or none.  Distances are in parts of Unit, the distance of a       *)
(* criterion that is missed outright; a letter is a path segment, or a     *)
(* word of a value.                                                        *)
(***************************************************************************)
EXTENDS Matchers

CONSTANTS
  Canonical,    \* [names -> canonical spellings]: the same for names equal but for case
  Latin1,       \* [bytes -> text]: bytes read as ISO-8859-1; other bytes read as they are
  Lossy,        \* [bytes -> text]: bytes that are no UTF-8, as a JSON string carries them
  Raw,          \* path segments with a byte net/url takes for unescaped: { } | " ^ # or non-ASCII
  Reescaped,    \* [segments -> sequences of segments]: decoded and escaped again; others
                \* come out as they are.  A %2F in one makes two of it
  MaxDifferent, \* maxEditDistanceInput
  Unit          \* a multiple of 1..MaxDifferent

LOCAL Sel == INSTANCE Selection WITH StubLists <- {}, Requests <- {}, stubs <- <<>>, ordered <- <<>>,
                               req <- <<>>, pr <- <<>>, cursor <- <<>>, verdict <- <<>>

-----------------------------------------------------------------------------
(* fullMatch: the subjects of a ParsedRequest.                             *)

\* A body is text in the charset its Content-Type declares.
ReadAs(type, bytes) == IF type = "latin1" /\ bytes \in DOMAIN Latin1 THEN Latin1[bytes] ELSE bytes

\* The values given under a name, in a sequence of [name, value] pairs.
ValuesOf(pairs, name) ==
  LET named == SelectSeq(pairs, LAMBDA pair : pair.name = name)
  IN [i \in DOMAIN named |-> named[i].value]

\* Absent where no value is given.
Given(values, absent) == IF values = <<>> THEN absent ELSE Key(values)

HeaderSubject(r, name) ==
  IF Canonical[name] \in DOMAIN r.headers THEN Key(r.headers[Canonical[name]]) ELSE AbsentKey

QuerySubject(r, name) == Given(ValuesOf(r.params, name), AbsentKey)

\* parseCookies: a pair without = is skipped, a value is trimmed of spaces and
\* quotes.  An absent cookie fails a negative matcher too.
CookieSubject(r, name) ==
  LET named == SelectSeq(r.cookies, LAMBDA pair : pair.name = name)
  IN Given(FlattenSeq([i \in DOMAIN named |-> named[i].read]), AbsentCookie)

\* A body that is not declared a form has no fields.
FormSubject(r, name) ==
  Given(IF r.type = "form" THEN ValuesOf(r.fields, name) ELSE <<>>, AbsentKey)

PathVarSubject(p, r, name) ==
  LET bound == IF p.kind = "template" THEN Sel!Bindings(p.url, r.path) ELSE {}
      values == {b[2] : b \in {x \in bound : x[1] = name}}
  IN IF values = {} THEN AbsentKey ELSE Key(<<CHOOSE v \in values : TRUE>>)

BodySubject(r) == Body(ReadAs(r.type, r.body))

\* Any Authorization header will do; p.auth holds the spellings of the one wanted.
MatchesBasicAuth(p, r) ==
  p.auth # {} =>
    \E i \in DOMAIN HeaderSubject(r, "Authorization").values :
      HeaderSubject(r, "Authorization").values[i] \in p.auth

\* The criteria of named values, each with what the request has for it.
NamedCriteria(p, r) == {<<"header", c, HeaderSubject(r, c.name)>> : c \in p.headers}
          \cup {<<"query", c, QuerySubject(r, c.name)>> : c \in p.query}
          \cup {<<"cookie", c, CookieSubject(r, c.name)>> : c \in p.cookies}

\* Every matcher of the pattern, with its subject.
Asked(p, r) == {<<m, Key(<<r.host>>)>> : m \in p.host}
          \cup {<<m, Key(<<r.port>>)>> : m \in p.port}
          \cup {<<m, Key(<<r.scheme>>)>> : m \in p.scheme}
          \cup {<<k[2].m, k[3]>> : k \in NamedCriteria(p, r)}
          \cup {<<c.m, PathVarSubject(p, r, c.name)>> : c \in p.pathParams}
          \cup {<<c.m, FormSubject(r, c.name)>> : c \in p.form}
          \cup {<<m, BodySubject(r)>> : m \in p.body}

AllHold(asked) == \A a \in asked : Match(a[1], a[2])

FullMatch(p, r) ==
  /\ Sel!MatchesMethod(p, r) /\ Sel!MatchURL(p, r)
  /\ MatchesBasicAuth(p, r)
  /\ AllHold(Asked(p, r))

-----------------------------------------------------------------------------
(* NewEntry: what the journal keeps of a request, and loadEvents reads.    *)

Kept(bytes) == IF bytes \in DOMAIN Lossy THEN Lossy[bytes] ELSE bytes

KeptAll(values) == [i \in DOMAIN values |-> Kept(values[i])]

Names(pairs) == {pairs[i].name : i \in DOMAIN pairs}

\* cookieMap: those net/http keeps, with or without =, and of a repeated one the
\* last.
CookieMap(cookies) ==
  LET kept == SelectSeq(cookies, LAMBDA c : c.kept # <<>>)
  IN [name \in Names(kept) |-> Last(SelectSeq(kept, LAMBDA c : c.name = name)).kept]

\* queryMap: url.ParseQuery drops a pair that does not decode.
QueryMap(params) ==
  LET decoded == SelectSeq(params, LAMBDA pair : pair.decodes)
  IN [name \in Names(decoded) |-> ValuesOf(decoded, name)]

\* URL.RequestURI of the parsed target: the path as it came if net/url would have
\* written it so, or else all of it decoded and escaped again (external).
RequestURIPath(path) ==
  IF Range(path) \cap Raw = {} THEN path
  ELSE FlattenSeq([i \in DOMAIN path |->
         IF path[i] \in DOMAIN Reescaped THEN Reescaped[path[i]] ELSE <<path[i]>>])

\* The query is kept as it came, a bare ? included; the body is cut.
NewEntry(r) ==
  [method |-> r.method, path |-> RequestURIPath(r.path), query |-> r.query, params |-> r.params,
   headers |-> [name \in DOMAIN r.headers |-> KeptAll(r.headers[name])],
   sent |-> r.cookies, cookies |-> CookieMap(r.cookies), queryParams |-> QueryMap(r.params),
   type |-> r.type, body |-> Kept(IF r.cut THEN r.head ELSE r.body)]

-----------------------------------------------------------------------------
(* criteria.matches: the pattern asked of an entry.                        *)

MatchRecordedURL(p, e) ==
  CASE p.kind = "any"         -> TRUE
    [] p.kind = "exactFull"   -> p.url = [path |-> e.path, query |-> e.query]
    [] p.kind = "exactPath"   -> p.url = e.path
    [] p.kind = "patternFull" -> [path |-> e.path, query |-> e.query] \in p.url
    [] p.kind = "patternPath" -> e.path \in p.url
    [] p.kind = "template"    -> Sel!Fitting(p.url, e.path) = Len(p.url)

\* Mutant of RecordedValues: a name is looked up as it is spelled.
RecordedValuesAsSpelled(source, name) ==
  IF name \in DOMAIN source THEN {Key(source[name])} ELSE {AbsentKey}

\* The name as it is spelled, or else one that differs in case: whichever of
\* them a walk over a Go map meets first.
RecordedValues(source, name) ==
  LET folded == {n \in DOMAIN source : Canonical[n] = Canonical[name]}
  IN IF name \in DOMAIN source THEN {Key(source[name])}
     ELSE IF folded # {} THEN {Key(source[n]) : n \in folded}
     ELSE {AbsentKey}

RecordedQuery(source, name) ==
  IF name \in DOMAIN source THEN Key(source[name]) ELSE AbsentKey

\* What a pattern says of an entry, given the subjects its lookups found.
Counts(p, e, headers, cookies) ==
  /\ Sel!MatchesMethod(p, e) /\ MatchRecordedURL(p, e)
  /\ AllHold({<<c.m, headers[c]>> : c \in p.headers} \cup {<<c.m, cookies[c]>> : c \in p.cookies}
        \cup {<<c.m, RecordedQuery(e.queryParams, c.name)>> : c \in p.query}
        \cup {<<m, Body(e.body)>> : m \in p.body})

\* The ways those lookups may go.
Lookups(criteria, source) ==
  LET any == UNION {RecordedValues(source, c.name) : c \in criteria}
  IN {f \in [criteria -> any] : \A c \in criteria : f[c] \in RecordedValues(source, c.name)}

\* The answers criteria.matches may give.
Verdicts(p, e) ==
  {Counts(p, e, headers, cookies) : headers \in Lookups(p.headers, e.headers),
                                    cookies \in Lookups(p.cookies, e.cookies)}

-----------------------------------------------------------------------------
(* Near misses.                                                            *)

\* The criterion compared as words: what it describes itself as, and the first
\* value there is.
FirstValue(subject) == IF subject.values = <<>> THEN <<>> ELSE <<subject.values[1]>>

\* Cells[i][j]: the edits that turn the first i letters of s into the first j
\* of t.  The code keeps two rows of it.
\* Mutant of EditDistance: a row's first cell is left as two rows before.
EditDistanceStaleColumn(s, t) ==
  LET Cells[i \in 0..Len(s)] ==
        IF i = 0 THEN [j \in 0..Len(t) |-> j]
        ELSE LET Row[j \in 0..Len(t)] ==
                   IF j = 0 THEN (IF i = 1 THEN 0 ELSE Cells[i - 2][0])
                   ELSE Min({Row[j - 1] + 1, Cells[i - 1][j] + 1,
                             Cells[i - 1][j - 1] + IF s[i] = t[j] THEN 0 ELSE 1})
             IN Row
  IN Cells[Len(s)][Len(t)]

EditDistance(s, t) ==
  LET Cells[i \in 0..Len(s)] ==
        IF i = 0 THEN [j \in 0..Len(t) |-> j]
        ELSE LET Row[j \in 0..Len(t)] ==
                   IF j = 0 THEN i
                   ELSE Min({Row[j - 1] + 1, Cells[i - 1][j] + 1,
                             Cells[i - 1][j - 1] + IF s[i] = t[j] THEN 0 ELSE 1})
             IN Row
  IN Cells[Len(s)][Len(t)]

Shortened(s) == IF Len(s) > MaxDifferent THEN SubSeq(s, 1, MaxDifferent) ELSE s

\* normalizedEditDistance, in parts of Unit.
Near(expected, actual) ==
  LET s == Shortened(expected)
      t == Shortened(actual)
      longest == Max({Len(s), Len(t)})
  IN IF expected = actual THEN 0
     ELSE IF expected = <<>> \/ actual = <<>> \/ EditDistance(s, t) >= longest THEN Unit
     ELSE (EditDistance(s, t) * Unit) \div longest

\* scoreURL: a pattern has no edit distance.
URLDistance(p, r) ==
  LET full == r.path \o IF Sel!Target(r).query = "" THEN <<>> ELSE <<Sel!Target(r).query>>
      literal == CASE p.kind = "exactFull" -> p.url.path \o IF p.url.query = "" THEN <<>> ELSE <<p.url.query>>
                   [] p.kind = "exactPath" -> p.url
                   [] p.kind = "template"  -> [i \in DOMAIN p.url |-> p.url[i].literal]
  IN IF Sel!MatchURL(p, r) THEN 0
     ELSE IF p.kind \in {"exactFull", "exactPath", "template"}
       THEN Near(literal, IF p.kind = "exactFull" THEN full ELSE r.path)
     ELSE Unit

\* Mutant of MethodDistance: a pattern for any method is compared as any other.
MethodDistanceLiteral(p, r) == IF p.method = r.method THEN 0 ELSE Unit

MethodDistance(p, r) == IF Sel!MatchesMethod(p, r) THEN 0 ELSE Unit

\* What is scored, each with its subject.
Scored(p, r) == NamedCriteria(p, r) \cup {<<"body", [m |-> m], BodySubject(r)>> : m \in p.body}

\* A body is not compared word by word.
CriterionDistance(kind, c, subject) ==
  IF Match(c.m, subject) THEN 0
  ELSE IF kind = "body" THEN Unit ELSE Near(c.described, FirstValue(subject))

\* scoreStub: host, port, scheme, credentials, path parameters and form fields
\* are not looked at.  The distance is total / count.
Score(p, r) ==
  [total |-> MethodDistance(p, r) + URLDistance(p, r)
             + MapThenSumSet(LAMBDA k : CriterionDistance(k[1], k[2], k[3]), Scored(p, r)),
   count |-> 2 + Cardinality(Scored(p, r))]

Nearer(a, b) == a.score.total * b.score.count < b.score.total * a.score.count

\* TopNearMisses: a tie is broken by the stub's id.
TopNearMisses(all, limit) ==
  LET sorted == SortSeq(all, LAMBDA a, b : Nearer(a, b) \/ (~Nearer(b, a) /\ a.id < b.id))
  IN SubSeq(sorted, 1, Min({limit, Len(all)}))

\* Snapshot.NearMisses, of a snapshot's stubs in selection order.
NearMisses(stubs, r, limit) ==
  TopNearMisses([i \in DOMAIN stubs |-> [id |-> stubs[i].id, score |-> Score(stubs[i].pattern, r)]], limit)

\* parseDescribed of recordedRequestDesc: an entry as a request again, with the
\* first value of each header.  The recorded cookies are added to the Cookie
\* header they were read from.
Described(e) ==
  LET again == SetToSeq({[name |-> n, read |-> e.cookies[n], kept |-> e.cookies[n]] : n \in DOMAIN e.cookies})
  IN [method |-> e.method, path |-> e.path, query |-> e.query, params |-> e.params,
      headers |-> [name \in DOMAIN e.headers |-> SubSeq(e.headers[name], 1, 1)],
      cookies |-> e.sent \o again, type |-> e.type, body |-> e.body]

\* nearMissesForPattern: the entries, nearest first; an older one before a newer.
PatternMisses(p, entries, limit) ==
  TopNearMisses([i \in DOMAIN entries |-> [id |-> i, score |-> Score(p, Described(entries[i]))]], limit)

-----------------------------------------------------------------------------
(* What they promise.                                                      *)

\* criteria.go:13: a verification counts exactly the requests that would have
\* matched a stub of the same pattern, up to the bodies the journal cuts (SPEC
\* deviation 16).
VerificationAgrees(p, r) == (p.body # {} => ~r.cut) => Verdicts(p, NewEntry(r)) = {FullMatch(p, r)}

\* The pattern is about what a verification reads.
Verifiable(p) == p.host \cup p.port \cup p.scheme \cup p.auth \cup p.pathParams \cup p.form = {}

\* The entry says of the request what the pattern asks: a body that was not cut,
\* nor read in another charset; bytes that JSON carries; a path net/url leaves as
\* it is, and no bare ?; query pairs that decode; and a cookie that came once and
\* that net/http keeps as the engine reads it.  Finding 4 is about the others.
Faithful(p, r) ==
  /\ p.body # {} => ~r.cut /\ r.body \notin DOMAIN Latin1 \cup DOMAIN Lossy
  /\ p.kind # "any" => RequestURIPath(r.path) = r.path
  /\ p.kind \in {"exactFull", "patternFull"} => r.query # "?"
  /\ \A c \in p.query : \A i \in DOMAIN r.params : r.params[i].name = c.name => r.params[i].decodes
  /\ \A c \in p.headers : Range(HeaderSubject(r, c.name).values) \cap DOMAIN Lossy = {}
  /\ \A c \in p.cookies :
       LET named == SelectSeq(r.cookies, LAMBDA pair : pair.name = c.name)
       IN Len(named) = 1 /\ named[1].read # <<>> /\ named[1].read = named[1].kept

\* What a verification can know of a request it answers as the engine did: names
\* in any case, repeated keys, absent ones, any kind of URL.
RecordedAgrees(p, r) ==
  (Verifiable(p) /\ Faithful(p, r)) => Verdicts(p, NewEntry(r)) = {FullMatch(p, r)}

\* What matches is at no distance, and an entry that a verification counts is at
\* none once read back, if it repeats no header: the diagnostic does not blame a
\* criterion that holds (admin/nearmiss.go:285).
MatchesAreNearest(p, r) ==
  LET e == NewEntry(r)
      counted == /\ Faithful(p, r) /\ Verdicts(p, e) = {TRUE}
                 /\ \A name \in DOMAIN e.headers : Len(e.headers[name]) = 1
  IN \A what \in {"arrived", "recorded"} :
       (IF what = "arrived" THEN FullMatch(p, r) ELSE counted) =>
         Score(p, IF what = "arrived" THEN r ELSE Described(e)).total = 0

\* The alignments of two texts: some letters of s over letters of t, in order.
Alignments(s, t) ==
  {f \in UNION {[S -> DOMAIN t] : S \in SUBSET DOMAIN s} : \A i, j \in DOMAIN f : i < j => f[i] < f[j]}

\* The distance is the least number of letters to insert, delete or replace.
DistanceIsLeast(s, t) ==
  EditDistance(s, t) =
    Min({(Len(s) + Len(t) - 2 * Cardinality(DOMAIN f)) + Cardinality({i \in DOMAIN f : s[i] # t[f[i]]})
           : f \in Alignments(s, t)})

\* What is reported is the nearest there is, by id where that is a tie, whatever
\* order the snapshot lists its stubs in (wmcompat/nearmiss.go:112).
RankingIsStable(stubs, r, limit) ==
  LET top == NearMisses(stubs, r, limit)
      Ahead(a, b) == Nearer(a, b) \/ (~Nearer(b, a) /\ a.id < b.id)
  IN /\ Len(top) = Min({limit, Len(stubs)})
     /\ \A i, j \in DOMAIN top : i < j => Ahead(top[i], top[j])
     /\ \A i \in DOMAIN stubs :
          LET this == [id |-> stubs[i].id, score |-> Score(stubs[i].pattern, r)]
          IN this \in Range(top) \/ \A n \in DOMAIN top : Ahead(top[n], this)
=============================================================================
