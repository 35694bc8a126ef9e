-------------------------- MODULE SelectionProofs --------------------------
(***************************************************************************)
(* Proofs about Selection, for every list of compiled stubs, every request *)
(* and any number of requests one after another.                           *)
(*                                                                         *)
(* Three arguments meet in the theorem.  Ranks are a numbering of the      *)
(* stubs, so the snapshot holds each of them once, in order (Inverts,      *)
(* Sorted).  What a candidate sees in the shared ParsedRequest is what it  *)
(* would see in one of its own (SameAnswer).  And every stub that answers  *)
(* is filed in a list the lookup takes (Filed), where the merge has either *)
(* passed it over, having found that it does not answer, or has it still   *)
(* before it (SelectInv).                                                  *)
(***************************************************************************)
EXTENDS Selection, FiniteSetTheorems, TLAPS

-----------------------------------------------------------------------------
(* The order.                                                              *)

\* A list of stubs that came through compilation.
CompiledList(list) ==
  /\ Len(list) \in Nat /\ DOMAIN list = 1..Len(list)
  /\ \A i \in DOMAIN list : Compiled(list[i])

\* The stubs before a stub, and how many they are.
Ahead(list, i) == {j \in DOMAIN list : Before(list, j, i)}
RankOf(list, i) == Cardinality(Ahead(list, i))

(* sortSelectionOrder compares as a strict total order. *)
LEMMA BeforeIsOrder ==
  ASSUME NEW list, CompiledList(list)
  PROVE  \A i, j, k \in DOMAIN list :
           /\ ~Before(list, i, i)
           /\ i # j => Before(list, i, j) \/ Before(list, j, i)
           /\ Before(list, i, j) /\ Before(list, j, k) => Before(list, i, k)
BY DEF CompiledList, Compiled, Before

(* The stubs before a stub are finitely many, and fewer than there are. *)
LEMMA AheadFinite ==
  ASSUME NEW list, CompiledList(list), NEW i \in DOMAIN list
  PROVE  /\ IsFiniteSet(Ahead(list, i))
         /\ RankOf(list, i) \in 0..(Len(list) - 1)
<1>1. IsFiniteSet(DOMAIN list) /\ Cardinality(DOMAIN list) = Len(list)
  <2>1. DOMAIN list = 1..Len(list) /\ Len(list) \in Nat
    BY DEF CompiledList
  <2>2. ASSUME NEW n \in Nat PROVE IsFiniteSet(1..n) /\ Cardinality(1..n) = n
    <3>1. IsFiniteSet(1..n) /\ Cardinality(1..n) = IF 1 > n THEN 0 ELSE n - 1 + 1
      BY FS_Interval
    <3> QED BY <3>1
  <2> QED BY <2>1, <2>2
<1>2. Ahead(list, i) \in SUBSET DOMAIN list
  BY DEF Ahead
<1>3. i \notin Ahead(list, i)
  BY BeforeIsOrder DEF Ahead
<1>4. /\ IsFiniteSet(Ahead(list, i))
      /\ Cardinality(Ahead(list, i)) <= Cardinality(DOMAIN list)
      /\ Cardinality(DOMAIN list) = Cardinality(Ahead(list, i)) => DOMAIN list = Ahead(list, i)
  BY <1>1, <1>2, FS_Subset
<1>5. Cardinality(Ahead(list, i)) \in Nat
  BY <1>4, FS_CardinalityType
<1>6. Cardinality(Ahead(list, i)) # Len(list)
  BY <1>1, <1>3, <1>4
<1>7. Len(list) \in Nat
  BY DEF CompiledList
<1> QED BY <1>1, <1>4, <1>5, <1>6, <1>7 DEF RankOf

(* A stub before another has the lower rank. *)
LEMMA RankRises ==
  ASSUME NEW list, CompiledList(list), NEW i \in DOMAIN list, NEW j \in DOMAIN list,
         Before(list, i, j)
  PROVE  RankOf(list, i) < RankOf(list, j)
<1>1. Ahead(list, i) \in SUBSET Ahead(list, j)
  BY BeforeIsOrder DEF Ahead
<1>2. i \in Ahead(list, j) /\ i \notin Ahead(list, i)
  BY BeforeIsOrder DEF Ahead
<1>3. IsFiniteSet(Ahead(list, j))
  BY AheadFinite
<1>4. /\ Cardinality(Ahead(list, i)) <= Cardinality(Ahead(list, j))
      /\ Cardinality(Ahead(list, j)) = Cardinality(Ahead(list, i)) => Ahead(list, j) = Ahead(list, i)
  BY <1>1, <1>3, FS_Subset
<1>5. RankOf(list, i) \in Int /\ RankOf(list, j) \in Int
  BY AheadFinite DEF CompiledList
<1> QED BY <1>2, <1>4, <1>5 DEF RankOf

(* Every rank below the number of stubs is taken, once. *)
LEMMA RanksNumber ==
  ASSUME NEW list, CompiledList(list)
  PROVE  /\ \A i, j \in DOMAIN list : RankOf(list, i) = RankOf(list, j) => i = j
         /\ \A k \in DOMAIN list : \E i \in DOMAIN list : RankOf(list, i) = k - 1
<1> DEFINE n == Len(list)
           D == 1..n
           f == [i \in D |-> RankOf(list, i) + 1]
<1>1. n \in Nat /\ DOMAIN list = D
  BY DEF CompiledList
<1>2. ASSUME NEW i \in D, NEW j \in D, RankOf(list, i) = RankOf(list, j) PROVE i = j
  <2>1. RankOf(list, i) \in Int
    BY <1>1, AheadFinite
  <2>2. ~Before(list, i, j) /\ ~Before(list, j, i)
    BY <1>1, <1>2, <2>1, RankRises
  <2> QED BY <1>1, <2>2, BeforeIsOrder
<1>3. ASSUME NEW i \in D PROVE RankOf(list, i) \in 0..(n - 1)
  BY <1>1, AheadFinite
<1> HIDE DEF D
<1>4. f \in [D -> D]
  BY <1>1, <1>3 DEF D
<1>5. \A i, j \in D : f[i] = f[j] => i = j
  BY <1>1, <1>2, <1>3
<1>6. f \in Injection(D, D)
  BY <1>4, <1>5 DEF Injection, IsInjective
<1>7. IsFiniteSet(D)
  BY <1>1, FS_Interval DEF D
<1> HIDE DEF f
<1>8. f \in Surjection(D, D)
  BY <1>6, <1>7, FS_Injection
<1>9. ASSUME NEW k \in D PROVE \E i \in D : RankOf(list, i) = k - 1
  <2>1. PICK i \in D : f[i] = k
    BY <1>8 DEF Surjection
  <2>2. RankOf(list, i) + 1 = k /\ RankOf(list, i) \in Int
    BY <1>1, <1>3, <2>1 DEF f
  <2> QED BY <2>2
<1> QED BY <1>1, <1>2, <1>9

(* The snapshot's list and the list it was built from hold the same stubs: *)
(* position k holds the stub of rank k - 1.                                *)
LEMMA Inverts ==
  ASSUME NEW list, CompiledList(list)
  PROVE  /\ DOMAIN SelectionOrder(list) = DOMAIN list
         /\ \A k \in DOMAIN list : \E i \in DOMAIN list :
              RankOf(list, i) = k - 1 /\ SelectionOrder(list)[k] = list[i]
         /\ \A i \in DOMAIN list :
              /\ RankOf(list, i) + 1 \in DOMAIN list
              /\ SelectionOrder(list)[RankOf(list, i) + 1] = list[i]
<1>1. SelectionOrder(list) =
        [k \in DOMAIN list |-> list[CHOOSE i \in DOMAIN list : RankOf(list, i) = k - 1]]
  BY DEF SelectionOrder, RankOf, Ahead
<1>2. ASSUME NEW k \in DOMAIN list, NEW i \in DOMAIN list, RankOf(list, i) = k - 1
      PROVE  SelectionOrder(list)[k] = list[i]
  <2> DEFINE c == CHOOSE j \in DOMAIN list : RankOf(list, j) = k - 1
  <2>1. c \in DOMAIN list /\ RankOf(list, c) = k - 1
    BY <1>2
  <2>2. c = i
    BY <1>2, <2>1, RanksNumber
  <2> QED BY <1>1, <2>2
<1>3. ASSUME NEW i \in DOMAIN list
      PROVE  /\ RankOf(list, i) + 1 \in DOMAIN list
             /\ (RankOf(list, i) + 1) - 1 = RankOf(list, i)
  BY AheadFinite DEF CompiledList
<1>4. DOMAIN SelectionOrder(list) = DOMAIN list
  BY <1>1
<1>5. ASSUME NEW k \in DOMAIN list
      PROVE  \E i \in DOMAIN list : RankOf(list, i) = k - 1 /\ SelectionOrder(list)[k] = list[i]
  BY <1>2, RanksNumber
<1>6. ASSUME NEW i \in DOMAIN list
      PROVE  SelectionOrder(list)[RankOf(list, i) + 1] = list[i]
  <2>1. RankOf(list, i) = (RankOf(list, i) + 1) - 1
    BY <1>3
  <2> QED BY <1>2, <1>3, <2>1
<1> QED BY <1>3, <1>4, <1>5, <1>6

-----------------------------------------------------------------------------
(* The shared ParsedRequest.                                               *)

\* What p holds is about r, and none of it is looked up elsewhere.
MemoOf(p, r) ==
  /\ p = [pathVars |-> p.pathVars, memo |-> p.memo]
  /\ DOMAIN p.memo \subseteq Memoized
  /\ \A kind \in DOMAIN p.memo : p.memo[kind] = Of(kind, r.has)

(* A pooled value holds nothing. *)
LEMMA UnusedMemo ==
  ASSUME NEW r
  PROVE  MemoOf(Unused, r)
<1>1. Unused.pathVars = {} /\ Unused.memo = <<>> /\ DOMAIN <<>> = {}
  BY DEF Unused
<1>2. Unused = [pathVars |-> Unused.pathVars, memo |-> Unused.memo]
  BY <1>1 DEF Unused
<1> QED BY <1>1, <1>2 DEF MemoOf

(* Looking at a URL leaves what has been parsed. *)
LEMMA AtURLMemo ==
  ASSUME NEW s, NEW r, NEW p, MemoOf(p, r)
  PROVE  /\ AtURL(s, r, p).memo = p.memo
         /\ AtURL(s, r, p).pathVars = BindsInto(s, r, p.pathVars)
         /\ MemoOf(AtURL(s, r, p), r)
<1> DEFINE q == AtURL(s, r, p)
<1>1. PICK b, m : p = [pathVars |-> b, memo |-> m] /\ b = p.pathVars /\ m = p.memo
  BY DEF MemoOf
<1>2. q = [pathVars |-> BindsInto(s, r, b), memo |-> m]
  BY <1>1 DEF AtURL
<1>3. q.memo = p.memo /\ q.pathVars = BindsInto(s, r, p.pathVars)
  BY <1>1, <1>2
<1>4. q = [pathVars |-> q.pathVars, memo |-> q.memo]
  BY <1>2
<1> HIDE DEF q
<1>5. MemoOf(q, r)
  BY <1>3, <1>4 DEF MemoOf
<1> QED BY <1>3, <1>5 DEF q

(* A kind other than the path variables is seen as the request has it. *)
LEMMA SeesRequest ==
  ASSUME NEW r, NEW p, MemoOf(p, r), NEW kind, kind # "path"
  PROVE  Sees(p, r, kind) = Of(kind, r.has)
BY DEF Sees, MemoOf

(* A candidate leaves a ParsedRequest that is still about its request. *)
LEMMA LeavesMemo ==
  ASSUME NEW s, NEW r, NEW p, MemoOf(p, r)
  PROVE  MemoOf(Leaves(s, r, p), r)
<1> DEFINE q == AtURL(s, r, p)
           parsed == IF MatchesMethod(s, r) /\ MatchURL(s, r) THEN LooksAt(s, r, q) \cap Memoized ELSE {}
           kinds == DOMAIN q.memo \cup parsed
           m == [kind \in kinds |-> Sees(q, r, kind)]
           l == Leaves(s, r, p)
<1>1. MemoOf(q, r)
  BY AtURLMemo
<1>2. l = [q EXCEPT !.memo = m]
  BY DEF Leaves
<1>3. kinds \subseteq Memoized
  BY <1>1 DEF MemoOf
<1>4. "path" \notin Memoized
  BY DEF Memoized
<1> HIDE DEF q, kinds
<1>5. DOMAIN m = kinds /\ \A kind \in kinds : m[kind] = Of(kind, r.has)
  BY <1>1, <1>3, <1>4, SeesRequest
<1> HIDE DEF m, l
<1>6. l = [pathVars |-> q.pathVars, memo |-> m]
  BY <1>1, <1>2 DEF MemoOf
<1>7. l.memo = m /\ l = [pathVars |-> l.pathVars, memo |-> l.memo]
  BY <1>6
<1>8. MemoOf(l, r)
  BY <1>3, <1>5, <1>7 DEF MemoOf
<1> QED BY <1>8 DEF l

(* Nothing that other candidates left has a say in what a stub answers. *)
LEMMA SameAnswer ==
  ASSUME NEW s, Compiled(s), NEW r, NEW p, MemoOf(p, r)
  PROVE  FullMatch(s, r, p) <=> Answers(s, r)
<1>1. SUFFICES ASSUME MatchesMethod(s, r), NEW i \in DOMAIN Kinds
               PROVE  Holds(s, r, AtURL(s, r, p), Kinds[i])
                        <=> Holds(s, r, AtURL(s, r, Unused), Kinds[i])
  BY DEF FullMatch, Answers
<1>2. /\ MemoOf(AtURL(s, r, p), r) /\ AtURL(s, r, p).pathVars = BindsInto(s, r, p.pathVars)
      /\ MemoOf(AtURL(s, r, Unused), r)
      /\ AtURL(s, r, Unused).pathVars = BindsInto(s, r, Unused.pathVars)
  BY AtURLMemo, UnusedMemo
<1>3. CASE Kinds[i] # "path"
  BY <1>2, <1>3, SeesRequest DEF Holds
<1>4. CASE Kinds[i] = "path" /\ s.kind = "template"
  <2>1. AtURL(s, r, p).pathVars = AtURL(s, r, Unused).pathVars
    BY <1>1, <1>2, <1>4 DEF BindsInto
  <2> QED BY <1>4, <2>1 DEF Holds, Sees
<1>5. CASE Kinds[i] = "path" /\ s.kind # "template"
  BY <1>5 DEF Holds, Compiled
<1> QED BY <1>3, <1>4, <1>5

-----------------------------------------------------------------------------
(* The lists.                                                              *)

(* A lookup takes positions, and the position of every stub that answers. *)
LEMMA Filed ==
  ASSUME NEW list, NEW r
  PROVE  /\ \A i \in 1..5 : Lists(list, r)[i] \subseteq DOMAIN list
         /\ \A k \in DOMAIN list :
              Compiled(list[k]) /\ Answers(list[k], r) => \E i \in 1..5 : k \in Lists(list, r)[i]
<1>1. \A i \in 1..5 : Lists(list, r)[i] \subseteq DOMAIN list
  BY DEF Lists
<1>2. ASSUME NEW k \in DOMAIN list, Compiled(list[k]), Answers(list[k], r)
      PROVE  \E i \in 1..5 : k \in Lists(list, r)[i]
  <2>1. list[k].method = "ANY" \/ list[k].method = r.method
    BY <1>2 DEF Answers, FullMatch, MatchesMethod
  <2>2. MatchURL(list[k], r)
    BY <1>2 DEF Answers, FullMatch
  <2>3. CASE list[k].kind = "exactFull"
    <3>1. list[k].url = Target(r)
      BY <2>2, <2>3 DEF MatchURL
    <3>2. k \in Lists(list, r)[1] \/ k \in Lists(list, r)[2]
      BY <2>1, <2>3, <3>1 DEF Lists
    <3> QED BY <3>2
  <2>4. CASE list[k].kind = "exactPath"
    <3>1. list[k].url = r.path
      BY <2>2, <2>4 DEF MatchURL
    <3>2. k \in Lists(list, r)[3] \/ k \in Lists(list, r)[4]
      BY <2>1, <2>4, <3>1 DEF Lists
    <3> QED BY <3>2
  <2>5. CASE list[k].kind \notin {"exactFull", "exactPath"}
    <3>1. k \in Lists(list, r)[5]
      BY <2>5 DEF Lists
    <3> QED BY <3>1
  <2> QED BY <2>3, <2>4, <2>5
<1> QED BY <1>1, <1>2

-----------------------------------------------------------------------------
(* The inductive invariant.                                                *)

\* The stub at position k of the snapshot answers the request.
AnswersAt(k) == Answers(ordered[k], req)

BuiltInv ==
  /\ stubs \in StubLists
  /\ verdict.state # "building" => ordered = SelectionOrder(stubs)

SharedInv ==
  /\ verdict.state \in {"building", "pooled"} => pr = Unused
  /\ verdict.state = "matching" => MemoOf(pr, req)

\* What the merge has passed in a list did not answer.
PassedInv ==
  /\ cursor \in [1..5 -> Nat]
  /\ verdict.state = "matching" =>
       \A i \in 1..5 : \A k \in Lists(ordered, req)[i] : k <= cursor[i] => ~AnswersAt(k)

\* The answer is the first position that answers.
FirstInv ==
  verdict.state = "done" =>
    IF verdict.stub = NoStub THEN \A k \in DOMAIN ordered : ~AnswersAt(k)
    ELSE /\ verdict.stub \in DOMAIN ordered
         /\ AnswersAt(verdict.stub)
         /\ \A k \in DOMAIN ordered : AnswersAt(k) => verdict.stub <= k

SelectInv ==
  /\ verdict = [state |-> verdict.state, stub |-> verdict.stub]
  /\ verdict.state \in {"building", "pooled", "matching"} => verdict.stub = NoStub
  /\ BuiltInv /\ SharedInv /\ PassedInv /\ FirstInv

(* A snapshot's positions start at 1, and hold compiled stubs. *)
LEMMA PositionsCompiled ==
  ASSUME CompiledLists, BuiltInv, verdict.state # "building"
  PROVE  /\ DOMAIN ordered \subseteq Nat \ {0}
         /\ \A k \in DOMAIN ordered : Compiled(ordered[k])
<1>1. CompiledList(stubs)
  BY DEF CompiledLists, CompiledList, BuiltInv
<1>2. ordered = SelectionOrder(stubs)
  BY DEF BuiltInv
<1>3. DOMAIN ordered = 1..Len(stubs) /\ Len(stubs) \in Nat
  BY <1>1, <1>2, Inverts DEF CompiledList
<1>4. \A k \in DOMAIN ordered : \E i \in DOMAIN stubs : ordered[k] = stubs[i]
  BY <1>1, <1>2, Inverts
<1>5. \A k \in DOMAIN ordered : Compiled(ordered[k])
  BY <1>1, <1>4 DEF CompiledList
<1>6. 1..Len(stubs) \subseteq Nat \ {0}
  BY <1>3
<1> QED BY <1>3, <1>5, <1>6

(* Nothing is built or matched to begin with. *)
LEMMA SelectInit == MatchInit => SelectInv
<1> SUFFICES ASSUME MatchInit PROVE SelectInv
  OBVIOUS
<1>1. verdict.state = "building" /\ verdict.stub = NoStub
  BY DEF MatchInit
<1>2. cursor \in [1..5 -> Nat]
  BY DEF MatchInit
<1> QED BY <1>1, <1>2 DEF MatchInit, SelectInv, BuiltInv, SharedInv, PassedInv, FirstInv

(* BuildSnapshot sorts; the pool is still empty. *)
LEMMA BuildKeeps ==
  ASSUME SelectInv, BuildSnapshot
  PROVE  SelectInv'
<1>1. /\ verdict.state = "building"
      /\ verdict' = [state |-> "pooled", stub |-> NoStub]
      /\ verdict'.state = "pooled" /\ verdict'.stub = NoStub
  BY DEF BuildSnapshot, SelectInv
<1> QED BY <1>1 DEF BuildSnapshot, SelectInv, BuiltInv, SharedInv, PassedInv, FirstInv

(* A request begins at the head of every list, with an empty ParsedRequest. *)
LEMMA AcquireKeeps ==
  ASSUME CompiledLists, SelectInv, NEW r \in Requests, Acquire(r)
  PROVE  SelectInv'
<1>1. /\ verdict.state = "pooled"
      /\ verdict' = [state |-> "matching", stub |-> NoStub]
      /\ verdict'.state = "matching" /\ verdict'.stub = NoStub
  BY DEF Acquire
<1>2. BuiltInv'
  BY <1>1 DEF Acquire, SelectInv, BuiltInv
<1>3. MemoOf(pr', r) /\ req' = r
  BY <1>1, UnusedMemo DEF Acquire, SelectInv, SharedInv
<1>4. SharedInv'
  BY <1>1, <1>3 DEF SharedInv
<1>5. cursor' \in [1..5 -> Nat] /\ \A i \in 1..5 : cursor'[i] = 0
  BY DEF Acquire
<1>6. PassedInv'
  <2>1. DOMAIN ordered \subseteq Nat \ {0}
    BY <1>1, PositionsCompiled DEF SelectInv
  <2>2. \A i \in 1..5 : Lists(ordered, r)[i] \subseteq DOMAIN ordered
    BY Filed
  <2>3. ordered' = ordered
    BY DEF Acquire
  <2>4. ASSUME NEW i \in 1..5, NEW k \in Lists(ordered, r)[i] PROVE ~(k <= cursor'[i])
    BY <1>5, <2>1, <2>2
  <2> QED BY <1>3, <1>5, <2>3, <2>4 DEF PassedInv
<1>7. FirstInv'
  BY <1>1 DEF FirstInv
<1> QED BY <1>1, <1>2, <1>4, <1>6, <1>7 DEF SelectInv

(* The merge takes the first position left.  If its stub answers, every other *)
(* that does is in a list whose cursor has not passed it, and comes later.    *)
LEMMA EvaluateKeeps ==
  ASSUME CompiledLists, SelectInv, Evaluate
  PROVE  SelectInv'
<1>1. PICK i \in 1..5, k \in DOMAIN ordered :
        /\ Leads(i, k)
        /\ cursor' = [cursor EXCEPT ![i] = k]
        /\ pr' = Leaves(ordered[k], req, pr)
        /\ verdict' = IF FullMatch(ordered[k], req, pr)
                        THEN [state |-> "done", stub |-> k] ELSE verdict
  BY DEF Evaluate
<1>2. verdict.state = "matching" /\ UNCHANGED <<stubs, req, ordered>>
  BY DEF Evaluate
<1>3. /\ DOMAIN ordered \subseteq Nat \ {0}
      /\ \A l \in DOMAIN ordered : Compiled(ordered[l])
  BY <1>2, PositionsCompiled DEF SelectInv
<1>4. MemoOf(pr, req)
  BY <1>2 DEF SelectInv, SharedInv
<1>5. FullMatch(ordered[k], req, pr) <=> AnswersAt(k)
  BY <1>3, <1>4, SameAnswer DEF AnswersAt
<1>6. MemoOf(pr', req)
  BY <1>1, <1>4, LeavesMemo
<1>7. /\ k \in Lists(ordered, req)[i]
      /\ \A j \in 1..5 : \A l \in Lists(ordered, req)[j] : l > cursor[j] => k <= l
  <2>1. k \in Left(i) /\ \A j \in 1..5 : \A l \in Left(j) : k < l \/ k = l
    BY <1>1 DEF Leads
  <2>2. \A j \in 1..5 : Lists(ordered, req)[j] \subseteq DOMAIN ordered
    BY Filed
  <2>3. ASSUME NEW j \in 1..5, NEW l \in Lists(ordered, req)[j], l > cursor[j] PROVE k <= l
    <3>1. l \in Left(j)
      BY <2>3 DEF Left
    <3>2. k \in Nat /\ l \in Nat
      BY <1>3, <2>2
    <3> QED BY <2>1, <3>1, <3>2
  <2> QED BY <2>1, <2>3 DEF Left
<1>8. cursor \in [1..5 -> Nat]
      /\ \A j \in 1..5 : \A l \in Lists(ordered, req)[j] : l <= cursor[j] => ~AnswersAt(l)
  BY <1>2 DEF SelectInv, PassedInv
<1>9. k \in Nat \ {0}
  BY <1>3
<1>10. cursor' \in [1..5 -> Nat]
  BY <1>1, <1>8, <1>9
<1>11. \A l : AnswersAt(l)' <=> AnswersAt(l)
  BY <1>2 DEF AnswersAt
<1>12. BuiltInv'
  BY <1>1, <1>2 DEF SelectInv, BuiltInv
<1>13. CASE AnswersAt(k)
  <2>1. verdict' = [state |-> "done", stub |-> k] /\ verdict'.state = "done" /\ verdict'.stub = k
    BY <1>1, <1>5, <1>13
  <2>2. ASSUME NEW l \in DOMAIN ordered, AnswersAt(l) PROVE k <= l
    <3>1. PICK j \in 1..5 : l \in Lists(ordered, req)[j]
      BY <1>3, <2>2, Filed DEF AnswersAt
    <3>2. l \in Nat /\ cursor[j] \in Nat
      BY <1>3, <1>8
    <3>3. ~(l <= cursor[j])
      BY <1>8, <2>2, <3>1
    <3> QED BY <1>7, <3>1, <3>2, <3>3
  <2>3. FirstInv'
    BY <1>2, <1>9, <1>11, <1>13, <2>1, <2>2 DEF FirstInv, NoStub
  <2> QED BY <1>10, <1>12, <2>1, <2>3 DEF SelectInv, SharedInv, PassedInv
<1>14. CASE ~AnswersAt(k)
  <2>1. verdict' = verdict
    BY <1>1, <1>5, <1>14
  <2>2. SharedInv'
    BY <1>2, <1>6, <2>1 DEF SharedInv
  <2>3. ASSUME NEW j \in 1..5, NEW l \in Lists(ordered, req)[j], l <= cursor'[j]
        PROVE  ~AnswersAt(l)
    <3>1. l \in Nat /\ cursor[j] \in Nat
      BY <1>3, <1>8, Filed
    <3>2. CASE j # i
      <4>1. cursor'[j] = cursor[j]
        BY <1>1, <1>8, <3>2
      <4> QED BY <1>8, <2>3, <4>1
    <3>3. CASE j = i
      <4>1. cursor'[j] = k
        BY <1>1, <1>8, <3>3
      <4>2. l <= cursor[j] \/ l = k
        BY <1>7, <1>9, <2>3, <3>1, <4>1
      <4> QED BY <1>8, <1>14, <4>2
    <3> QED BY <3>2, <3>3
  <2>4. PassedInv'
    BY <1>2, <1>10, <1>11, <2>1, <2>3 DEF PassedInv
  <2>5. FirstInv'
    BY <1>2, <2>1 DEF FirstInv
  <2> QED BY <1>2, <1>12, <2>1, <2>2, <2>4, <2>5 DEF SelectInv
<1> QED BY <1>13, <1>14

(* With nothing left in any list, every stub that could answer was passed. *)
LEMMA UnmatchedKeeps ==
  ASSUME CompiledLists, SelectInv, Unmatched
  PROVE  SelectInv'
<1>1. /\ verdict.state = "matching" /\ verdict.stub = NoStub
      /\ verdict' = [state |-> "done", stub |-> NoStub]
      /\ verdict'.state = "done" /\ verdict'.stub = NoStub
      /\ UNCHANGED <<stubs, req, ordered, cursor, pr>>
  BY DEF Unmatched, SelectInv
<1>2. ASSUME NEW k \in DOMAIN ordered, AnswersAt(k) PROVE FALSE
  <2>1. DOMAIN ordered \subseteq Nat /\ Compiled(ordered[k])
    BY <1>1, PositionsCompiled DEF SelectInv
  <2>2. PICK i \in 1..5 : k \in Lists(ordered, req)[i]
    BY <1>2, <2>1, Filed DEF AnswersAt
  <2>3. k \in Nat /\ cursor[i] \in Nat
    BY <2>1 DEF SelectInv, PassedInv
  <2>4. ~(k <= cursor[i])
    BY <1>1, <1>2, <2>2 DEF SelectInv, PassedInv
  <2>5. k \in Left(i)
    BY <2>2, <2>3, <2>4 DEF Left
  <2> QED BY <2>5 DEF Unmatched
<1>3. FirstInv'
  BY <1>1, <1>2 DEF FirstInv, AnswersAt
<1> QED BY <1>1, <1>3 DEF SelectInv, BuiltInv, SharedInv, PassedInv

(* Reset empties what goes back to the pool. *)
LEMMA ReleaseKeeps ==
  ASSUME SelectInv, Release
  PROVE  SelectInv'
<1>1. /\ verdict.state = "done"
      /\ verdict' = [state |-> "pooled", stub |-> NoStub]
      /\ verdict'.state = "pooled" /\ verdict'.stub = NoStub
      /\ pr' = Unused
      /\ UNCHANGED <<stubs, ordered, req, cursor>>
  BY DEF Release, Reset
<1> QED BY <1>1 DEF SelectInv, BuiltInv, SharedInv, PassedInv, FirstInv

(* Every step keeps the invariant. *)
LEMMA SelectStep ==
  ASSUME CompiledLists, SelectInv, [MatchNext]_matchVars
  PROVE  SelectInv'
<1>1. CASE UNCHANGED matchVars
  BY <1>1 DEF matchVars, SelectInv, BuiltInv, SharedInv, PassedInv, FirstInv, AnswersAt
<1> QED BY <1>1, BuildKeeps, AcquireKeeps, EvaluateKeeps, UnmatchedKeeps, ReleaseKeeps DEF MatchNext

(* The first position that answers is the first in selection order of the *)
(* stubs as they were given.                                              *)
LEMMA SelectImplies ==
  ASSUME CompiledLists, SelectInv
  PROVE  FirstInOrder
<1> DEFINE all == {i \in DOMAIN stubs : Answers(stubs[i], req)}
           n == verdict.stub
<1> SUFFICES ASSUME verdict.state = "done"
             PROVE  IF n = NoStub THEN all = {}
                    ELSE \E i \in all :
                           /\ ordered[n] = stubs[i]
                           /\ \A j \in all :
                                \/ stubs[i].priority < stubs[j].priority
                                \/ stubs[i].priority = stubs[j].priority /\ stubs[i].seq >= stubs[j].seq
  BY DEF FirstInOrder
<1>1. CompiledList(stubs) /\ ordered = SelectionOrder(stubs)
  BY DEF CompiledLists, CompiledList, SelectInv, BuiltInv
<1>2. DOMAIN ordered = DOMAIN stubs
  BY <1>1, Inverts
<1>3. ASSUME NEW j \in all
      PROVE  RankOf(stubs, j) + 1 \in DOMAIN ordered /\ AnswersAt(RankOf(stubs, j) + 1)
  BY <1>1, <1>2, Inverts DEF AnswersAt
<1>4. CASE n = NoStub
  <2>1. \A k \in DOMAIN ordered : ~AnswersAt(k)
    BY <1>4 DEF SelectInv, FirstInv
  <2>2. all = {}
    BY <1>3, <2>1
  <2> QED BY <1>4, <2>2
<1>5. CASE n # NoStub
  <2>1. /\ n \in DOMAIN ordered /\ AnswersAt(n)
        /\ \A k \in DOMAIN ordered : AnswersAt(k) => n <= k
    BY <1>5 DEF SelectInv, FirstInv
  <2>2. PICK i \in DOMAIN stubs : RankOf(stubs, i) = n - 1 /\ ordered[n] = stubs[i]
    BY <1>1, <1>2, <2>1, Inverts
  <2>3. i \in all
    BY <2>1, <2>2 DEF AnswersAt
  <2>4. ASSUME NEW j \in all
        PROVE  \/ stubs[i].priority < stubs[j].priority
               \/ stubs[i].priority = stubs[j].priority /\ stubs[i].seq >= stubs[j].seq
    <3>1. n <= RankOf(stubs, j) + 1
      BY <1>3, <2>1
    <3>2. RankOf(stubs, i) \in Int /\ RankOf(stubs, j) \in Int /\ n \in Int
      <4>1. DOMAIN stubs = 1..Len(stubs) /\ Len(stubs) \in Nat
        BY <1>1 DEF CompiledList
      <4>2. RankOf(stubs, i) \in 0..(Len(stubs) - 1) /\ RankOf(stubs, j) \in 0..(Len(stubs) - 1)
        BY <1>1, AheadFinite
      <4> QED BY <1>2, <2>1, <4>1, <4>2
    <3>3. ~Before(stubs, j, i)
      <4>1. Before(stubs, j, i) => RankOf(stubs, j) < RankOf(stubs, i)
        BY <1>1, RankRises
      <4> QED BY <2>2, <3>1, <3>2, <4>1
    <3>4. i = j \/ Before(stubs, i, j)
      BY <1>1, <3>3, BeforeIsOrder
    <3>5. Compiled(stubs[i]) /\ Compiled(stubs[j])
      BY <1>1 DEF CompiledList
    <3> QED BY <3>4, <3>5 DEF Before, Compiled
  <2> QED BY <1>5, <2>3, <2>2, <2>4
<1> QED BY <1>4, <1>5

(* Match, sortSelectionOrder, BuildSnapshot and ParsedRequest.Reset: for any   *)
(* stubs that compiled, any requests and in whatever order they come, the stub *)
(* that answers is the first in selection order of all that match the request  *)
(* taken by itself, and none answers only if none does.                        *)
THEOREM FirstMatchAnswers ==
  ASSUME CompiledLists
  PROVE  MatchSpec => []FirstInOrder
<1>1. MatchInit => SelectInv
  BY SelectInit
<1>2. SelectInv /\ [MatchNext]_matchVars => SelectInv'
  BY SelectStep
<1>3. SelectInv => FirstInOrder
  BY SelectImplies
<1> QED BY <1>1, <1>2, <1>3, PTL DEF MatchSpec
=============================================================================
