----------------------------- MODULE Selection -----------------------------
(***************************************************************************)
(* Which stub answers a request.                                           *)
(*                                                                         *)
(* BuildSnapshot sorts the stubs into selection order and files each under *)
(* the one index its URL criterion allows.  Match probes the exact-URL     *)
(* indexes under the request's method and under ANY, and merges the four   *)
(* lists it gets and the list of patterns lazily, evaluating a candidate   *)
(* as it comes and stopping at the first that matches in full.  What the   *)
(* criteria look at is parsed on first use into a ParsedRequest, which the *)
(* candidates share and a pool hands on to the next request.               *)
(*                                                                         *)
(* A path is a sequence of segments and a query is one value; a regular    *)
(* expression is the set of targets it matches.  A criterion beyond the    *)
(* URL is a pair of the kind it looks at and the value it wants there.     *)
(***************************************************************************)
EXTENDS Integers, Sequences, FiniteSets

CONSTANTS
  StubLists,  \* the lists of compiled stubs to build snapshots of
  Requests    \* the requests to match

VARIABLES
  stubs,     \* the input of BuildSnapshot
  ordered,   \* Snapshot.Ordered
  req,       \* the request
  pr,        \* the pooled ParsedRequest: the path variables, and by kind what
             \* has been parsed
  cursor,    \* per list, the last position Match took from it
  verdict    \* what is under way: "building", "pooled", "matching", or "done"
             \* with the answer

matchVars == <<stubs, ordered, req, pr, cursor, verdict>>

NoStub == 0

\* ParsedRequest.bind: a bare ? goes, any other query is kept whole.
Target(r) == [path |-> r.path, query |-> IF r.query = "?" THEN "" ELSE r.query]

Unused == [pathVars |-> {}, memo |-> <<>>]

Of(kind, pairs) == {c \in pairs : c[1] = kind}

\* What compiling a mapping has made sure of: its URL criterion is of one kind,
\* and a criterion on a path variable has a template to bind it.
Compiled(s) ==
  /\ s.kind \in {"any", "exactFull", "exactPath", "patternFull", "patternPath", "template"}
  /\ s.kind # "template" => Of("path", s.wants) = {}
  /\ s.priority \in Int /\ s.seq \in Int

CompiledLists ==
  \A list \in StubLists :
    /\ Len(list) \in Nat /\ DOMAIN list = 1..Len(list)
    /\ \A i \in DOMAIN list : Compiled(list[i])

-----------------------------------------------------------------------------
(* The order and the indexes.                                              *)

\* sortSelectionOrder: priority first, then the newest; the sort is stable.
Before(list, i, j) ==
  LET a == list[i]
      b == list[j]
  IN IF a.priority # b.priority THEN a.priority < b.priority
     ELSE IF a.seq # b.seq THEN a.seq > b.seq
     ELSE i < j

SelectionOrder(list) ==
  LET Rank(i) == Cardinality({j \in DOMAIN list : Before(list, j, i)})
  IN [k \in DOMAIN list |-> list[CHOOSE i \in DOMAIN list : Rank(i) = k - 1]]

\* The five lists of a lookup.  Each is appended to in selection order, so it is
\* the set of positions filed under its key, taken in ascending order.  "ANY" is
\* the key of a stub without a method.
Lists(list, r) ==
  LET Filed(kind, method, url) ==
        {k \in DOMAIN list : list[k].kind = kind /\ list[k].method = method
                               /\ list[k].url = url}
  IN << Filed("exactFull", r.method, Target(r)), Filed("exactFull", "ANY", Target(r)),
        Filed("exactPath", r.method, r.path),    Filed("exactPath", "ANY", r.path),
        {k \in DOMAIN list : list[k].kind \notin {"exactFull", "exactPath"}} >>

-----------------------------------------------------------------------------
(* fullMatch.                                                              *)

\* PathTemplate.Match consumes segment by segment and binds as it goes: the
\* longest prefix of the template that fits, and whether it is all of it.
Fits(part, seg) == IF seg.isVar THEN part # "" ELSE part = seg.literal

Fitting(template, path) ==
  CHOOSE n \in 0..Len(template) :
    /\ \A i \in 1..n : i <= Len(path) /\ Fits(path[i], template[i])
                        /\ (i = Len(template) => Len(path) = i)
                        /\ (i < Len(template) => Len(path) > i)
    /\ n < Len(template) =>
         LET i == n + 1 IN
         ~(i <= Len(path) /\ Fits(path[i], template[i])
             /\ (i = Len(template) => Len(path) = i) /\ (i < Len(template) => Len(path) > i))

\* The bindings a template leaves behind, a failed match's included.
Bindings(template, path) ==
  LET n == Fitting(template, path)
  IN {<<template[i].literal, path[i]>> : i \in {j \in 1..n : template[j].isVar}}

MatchesMethod(s, r) == s.method \in {"ANY", r.method}

\* The literal prefix tried before a pattern or a template turns away nothing that
\* would match or bind, so it is left out.
MatchURL(s, r) ==
  CASE s.kind = "any"         -> TRUE
    [] s.kind = "exactFull"   -> s.url = Target(r)
    [] s.kind = "exactPath"   -> s.url = r.path
    [] s.kind = "patternFull" -> Target(r) \in s.url
    [] s.kind = "patternPath" -> r.path \in s.url
    [] s.kind = "template"    -> Fitting(s.url, r.path) = Len(s.url)

\* What is bound once the candidate's URL was looked at: a template clears the
\* earlier bindings first, whatever the other kinds find there they leave.
BindsInto(s, r, bound) ==
  IF ~MatchesMethod(s, r) \/ s.kind # "template" THEN bound ELSE Bindings(s.url, r.path)

\* The order fullMatch takes the kinds in; the scenario's gate comes last.
Kinds == <<"header", "query", "cookie", "path", "form", "body", "scenario">>

\* Headers are read from the request and path variables from the bindings; the
\* rest is parsed once and looked up from then on.
Memoized == {"query", "cookie", "form", "body", "scenario"}

Sees(p, r, kind) ==
  CASE kind = "path"           -> p.pathVars
    [] kind \in DOMAIN p.memo -> p.memo[kind]
    [] OTHER                   -> Of(kind, r.has)

Holds(s, r, p, kind) == Of(kind, s.wants) \subseteq Sees(p, r, kind)

\* The kinds looked at: those with a criterion, up to the first that fails.
LooksAt(s, r, p) ==
  {Kinds[i] : i \in {n \in DOMAIN Kinds :
     Of(Kinds[n], s.wants) # {} /\ \A j \in 1..(n - 1) : Holds(s, r, p, Kinds[j])}}

AtURL(s, r, p) == [p EXCEPT !.pathVars = BindsInto(s, r, @)]

FullMatch(s, r, p) ==
  /\ MatchesMethod(s, r) /\ MatchURL(s, r)
  /\ \A i \in DOMAIN Kinds : Holds(s, r, AtURL(s, r, p), Kinds[i])

\* What the candidate leaves behind in the ParsedRequest.
Leaves(s, r, p) ==
  LET q == AtURL(s, r, p)
      parsed == IF MatchesMethod(s, r) /\ MatchURL(s, r) THEN LooksAt(s, r, q) \cap Memoized ELSE {}
  IN [q EXCEPT !.memo = [kind \in DOMAIN @ \cup parsed |-> Sees(q, r, kind)]]

-----------------------------------------------------------------------------
(* BuildSnapshot, AcquireRequest, Match, ReleaseRequest.                   *)

MatchInit ==
  /\ stubs \in StubLists
  /\ req = CHOOSE r \in Requests : TRUE
  /\ ordered = <<>>
  /\ cursor = [i \in 1..5 |-> 0]
  /\ pr = Unused
  /\ verdict = [state |-> "building", stub |-> NoStub]

BuildSnapshot ==
  /\ verdict.state = "building"
  /\ ordered' = SelectionOrder(stubs)
  /\ verdict' = [verdict EXCEPT !.state = "pooled"]
  /\ UNCHANGED <<stubs, req, cursor, pr>>

\* The request arrives, and gets the ParsedRequest as it comes out of the pool.
Acquire(r) ==
  /\ verdict.state = "pooled"
  /\ req' = r
  /\ cursor' = [i \in 1..5 |-> 0]
  /\ verdict' = [state |-> "matching", stub |-> NoStub]
  /\ UNCHANGED <<stubs, ordered, pr>>

\* What a list still has.
Left(i) == {k \in Lists(ordered, req)[i] : k > cursor[i]}

\* The list whose next candidate comes first in selection order, and that
\* candidate: the first such list, should two hold the same.
Leads(i, k) ==
  /\ k \in Left(i)
  /\ \A j \in 1..5 : \A l \in Left(j) : k < l \/ (k = l /\ i <= j)

\* One round of the merge: the next candidate answers, or the loop goes on.
Evaluate ==
  /\ verdict.state = "matching"
  /\ \E i \in 1..5, k \in DOMAIN ordered :
       /\ Leads(i, k)
       /\ cursor' = [cursor EXCEPT ![i] = k]
       /\ pr' = Leaves(ordered[k], req, pr)
       /\ verdict' = IF FullMatch(ordered[k], req, pr)
                       THEN [state |-> "done", stub |-> k] ELSE verdict
  /\ UNCHANGED <<stubs, req, ordered>>

Unmatched ==
  /\ verdict.state = "matching"
  /\ \A i \in 1..5 : Left(i) = {}
  /\ verdict' = [verdict EXCEPT !.state = "done"]
  /\ UNCHANGED <<stubs, req, ordered, cursor, pr>>

\* Mutant of Reset: the parsed form stays behind.
ResetKeepsForm(p) == [Unused EXCEPT !.memo = [kind \in DOMAIN p.memo \cap {"form"} |-> p.memo[kind]]]

\* ParsedRequest.Reset: a pooled value holds nothing of the request it served.
Reset(p) == Unused

Release ==
  /\ verdict.state = "done"
  /\ pr' = Reset(pr)
  /\ verdict' = [state |-> "pooled", stub |-> NoStub]
  /\ UNCHANGED <<stubs, ordered, req, cursor>>

MatchNext == BuildSnapshot \/ (\E r \in Requests : Acquire(r)) \/ Evaluate \/ Unmatched \/ Release

MatchSpec == MatchInit /\ [][MatchNext]_matchVars

-----------------------------------------------------------------------------
(* What selection promises, without indexes, cursors or a shared request.  *)

\* The stub matches the request, taken by itself.
Answers(s, r) == FullMatch(s, r, Unused)

\* SPEC 5.3, 6.3: the stub that answers is the first in selection order of all
\* that match - of the list as it was given, the lowest priority number and then
\* the highest sequence - and no stub answers only if none does.  Nothing is lost
\* to an index or to the merge, and nothing another candidate bound or parsed,
\* or an earlier request left in the pool, has a say in it.
FirstInOrder ==
  verdict.state = "done" =>
    LET all == {i \in DOMAIN stubs : Answers(stubs[i], req)}
    IN IF verdict.stub = NoStub THEN all = {}
       ELSE \E i \in all :
              /\ ordered[verdict.stub] = stubs[i]
              /\ \A j \in all : \/ stubs[i].priority < stubs[j].priority
                                \/ stubs[i].priority = stubs[j].priority /\ stubs[i].seq >= stubs[j].seq
=============================================================================
