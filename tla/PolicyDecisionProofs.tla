----------------------- MODULE PolicyDecisionProofs -----------------------
(***************************************************************************)
(* Proofs about what Evaluate decides, for every list of rules, however    *)
(* long, and every host, port and sandbox: the loop over the rules finds   *)
(* exactly the matching ones, and the decision follows from which these    *)
(* are.                                                                    *)
(***************************************************************************)
EXTENDS PolicyEngineProofs, SequenceTheorems

-----------------------------------------------------------------------------
(* Loops.                                                                  *)

\* A set of indices that has 0 and, with each index, the next, has them all.
LEMMA Induction ==
  ASSUME NEW N \in Nat, NEW Good, 0 \in Good, \A n \in 1..N : n - 1 \in Good => n \in Good
  PROVE  0..N \subseteq Good
<1> DEFINE Bad == {n \in 0..N : n \notin Good}
<1> SUFFICES ASSUME Bad # {} PROVE FALSE
  OBVIOUS
<1>1. PICK n \in Bad : \A m \in Bad : n <= m
  <2>1. Bad \subseteq Nat
    OBVIOUS
  <2> QED BY <2>1, LeastNatural
<1>2. n \in 1..N /\ n - 1 \in 0..N /\ n - 1 \notin Bad
  BY <1>1
<1> QED BY <1>1, <1>2

\* The loop that starts at base, and whose k-th step is F[k], has a run in S.
HasRun(N, S, base, F) ==
  \E g \in [0..N -> S] : g[0] = base /\ \A k \in 1..N : g[k] = F[k][g[k - 1]]

\* A loop of N steps, each of which leads from S to S, has a run.
LEMMA LoopRuns ==
  ASSUME NEW N \in Nat, NEW S, NEW base \in S, NEW F \in [1..N -> [S -> S]]
  PROVE  HasRun(N, S, base, F)
<1> DEFINE Run(n, g) == g[0] = base /\ \A k \in 1..n : g[k] = F[k][g[k - 1]]
           Good == {n \in 0..N : \E g \in [0..n -> S] : Run(n, g)}
<1>1. 0 \in Good
  <2> DEFINE g == [k \in 0..0 |-> base]
  <2>1. g \in [0..0 -> S] /\ g[0] = base
    OBVIOUS
  <2>2. Run(0, g)
    BY <2>1
  <2>3. \E f \in [0..0 -> S] : Run(0, f)
    <3> HIDE DEF g, Run
    <3> QED BY <2>1, <2>2
  <2> QED BY <2>3
<1>2. ASSUME NEW n \in 1..N, n - 1 \in Good PROVE n \in Good
  <2>1. PICK g \in [0..(n - 1) -> S] : Run(n - 1, g)
    BY <1>2
  <2> DEFINE h == [k \in 0..n |-> IF k = n THEN F[n][g[n - 1]] ELSE g[k]]
  <2>2. g[n - 1] \in S /\ F[n][g[n - 1]] \in S
    <3>1. n - 1 \in 0..(n - 1)
      OBVIOUS
    <3> QED BY <3>1
  <2>3. h \in [0..n -> S]
    BY <2>2
  <2>4. Run(n, h)
    <3>1. h[0] = base /\ h[n] = F[n][h[n - 1]]
      BY <2>1
    <3>2. \A k \in 1..(n - 1) : h[k] = g[k] /\ h[k - 1] = g[k - 1]
      OBVIOUS
    <3> QED BY <2>1, <3>1, <3>2
  <2>5. \E f \in [0..n -> S] : Run(n, f)
    <3> HIDE DEF h, Run
    <3> QED BY <2>3, <2>4
  <2> QED BY <2>5
<1> HIDE DEF Good
<1>3. N \in Good
  <2>1. 0..N \subseteq Good
    BY <1>1, <1>2, Induction
  <2> QED BY <2>1
<1> QED BY <1>3 DEF Good, HasRun

-----------------------------------------------------------------------------
(* The loop of Evaluate.                                                   *)

Seen == [exactAllow : BOOLEAN, exactDeny : BOOLEAN,
         wildcardAllow : BOOLEAN, wildcardDeny : BOOLEAN,
         allowRuleID : Int, denyRuleID : Int]

\* The rule matches the request.
hits(rule, host, port, sandbox) ==
  isVisible(rule, sandbox) /\ matchesResource(host, port, rule.resources)

\* The flags and identifiers after one more rule.
LEMMA ScanRule ==
  ASSUME NEW x \in Seen, NEW r \in Rule, NEW host, NEW port, NEW sandbox
  PROVE  LET y == scanRule(x, r, host, port, sandbox)
             new(d) == hits(r, host, port, sandbox) /\ r.decision = d
         IN /\ y \in Seen
            /\ y.exactAllow <=> x.exactAllow \/ (new("allow") /\ isExact(r))
            /\ y.exactDeny <=> x.exactDeny \/ (new("deny") /\ isExact(r))
            /\ y.wildcardAllow <=> x.wildcardAllow \/ (new("allow") /\ ~isExact(r))
            /\ y.wildcardDeny <=> x.wildcardDeny \/ (new("deny") /\ ~isExact(r))
            /\ y.allowRuleID = IF new("allow") THEN r.id ELSE x.allowRuleID
            /\ y.denyRuleID = IF new("deny") THEN r.id ELSE x.denyRuleID
<1> DEFINE y == scanRule(x, r, host, port, sandbox)
<1>0. r.decision \in {"allow", "deny"} /\ r.id \in Int
  BY DEF Rule
<1>1. CASE ~hits(r, host, port, sandbox)
  <2>1. y = x
    BY <1>1 DEF hits, scanRule
  <2> QED BY <1>1, <2>1
<1>2. CASE hits(r, host, port, sandbox) /\ r.decision = "allow" /\ isExact(r)
  <2>1. y = [x EXCEPT !["exactAllow"] = TRUE, !["allowRuleID"] = r.id]
    BY <1>2 DEF hits, scanRule
  <2>2. /\ y \in Seen /\ y.exactAllow = TRUE /\ y.allowRuleID = r.id
        /\ y.exactDeny = x.exactDeny /\ y.wildcardAllow = x.wildcardAllow
        /\ y.wildcardDeny = x.wildcardDeny /\ y.denyRuleID = x.denyRuleID
    BY <1>0, <2>1 DEF Seen
  <2> QED BY <1>2, <2>2
<1>3. CASE hits(r, host, port, sandbox) /\ r.decision = "allow" /\ ~isExact(r)
  <2>1. y = [x EXCEPT !["wildcardAllow"] = TRUE, !["allowRuleID"] = r.id]
    BY <1>3 DEF hits, scanRule
  <2>2. /\ y \in Seen /\ y.wildcardAllow = TRUE /\ y.allowRuleID = r.id
        /\ y.exactAllow = x.exactAllow /\ y.exactDeny = x.exactDeny
        /\ y.wildcardDeny = x.wildcardDeny /\ y.denyRuleID = x.denyRuleID
    BY <1>0, <2>1 DEF Seen
  <2> QED BY <1>3, <2>2
<1>4. CASE hits(r, host, port, sandbox) /\ r.decision = "deny" /\ isExact(r)
  <2>1. y = [x EXCEPT !["exactDeny"] = TRUE, !["denyRuleID"] = r.id]
    BY <1>4 DEF hits, scanRule
  <2>2. /\ y \in Seen /\ y.exactDeny = TRUE /\ y.denyRuleID = r.id
        /\ y.exactAllow = x.exactAllow /\ y.wildcardAllow = x.wildcardAllow
        /\ y.wildcardDeny = x.wildcardDeny /\ y.allowRuleID = x.allowRuleID
    BY <1>0, <2>1 DEF Seen
  <2> QED BY <1>4, <2>2
<1>5. CASE hits(r, host, port, sandbox) /\ r.decision = "deny" /\ ~isExact(r)
  <2>1. y = [x EXCEPT !["wildcardDeny"] = TRUE, !["denyRuleID"] = r.id]
    BY <1>5 DEF hits, scanRule
  <2>2. /\ y \in Seen /\ y.wildcardDeny = TRUE /\ y.denyRuleID = r.id
        /\ y.exactAllow = x.exactAllow /\ y.exactDeny = x.exactDeny
        /\ y.wildcardAllow = x.wildcardAllow /\ y.allowRuleID = x.allowRuleID
    BY <1>0, <2>1 DEF Seen
  <2> QED BY <1>5, <2>2
<1> QED BY <1>0, <1>1, <1>2, <1>3, <1>4, <1>5

\* g[k] is what the loop has seen after k rules.
IsScan(g, list, host, port, sandbox) ==
  /\ \A k \in 0..Len(list) : g[k] \in Seen
  /\ g[0] = NothingSeen
  /\ \A k \in 1..Len(list) : g[k] = scanRule(g[k - 1], list[k], host, port, sandbox)

\* The loop starts with nothing seen and takes one rule after the other.
LEMMA LoopOfEvaluate ==
  ASSUME NEW list \in Seq(Rule), NEW host, NEW port, NEW sandbox
  PROVE  \E g : /\ IsScan(g, list, host, port, sandbox)
                /\ scanRules(list, host, port, sandbox) = g[Len(list)]
<1> DEFINE N == Len(list)
           step(x, k) == scanRule(x, list[k], host, port, sandbox)
           G == CHOOSE g : g = [n \in 0..N |-> IF n = 0 THEN NothingSeen ELSE step(g[n - 1], n)]
           F == [k \in 1..N |-> [x \in Seen |-> step(x, k)]]
<1>1. N \in Nat /\ \A k \in 1..N : list[k] \in Rule
  OBVIOUS
<1>2. NothingSeen \in Seen
  BY DEF NothingSeen, Seen, NoRule
<1>3. \A k \in 1..N, x \in Seen : step(x, k) \in Seen
  BY <1>1, ScanRule
<1> HIDE DEF N, step
<1>4. F \in [1..N -> [Seen -> Seen]]
  BY <1>3
<1>5. PICK f \in [0..N -> Seen] : f[0] = NothingSeen /\ \A k \in 1..N : f[k] = F[k][f[k - 1]]
  <2> HIDE DEF F
  <2>1. HasRun(N, Seen, NothingSeen, F)
    BY <1>1, <1>2, <1>4, LoopRuns
  <2> QED BY <2>1 DEF HasRun
<1>6. \A k \in 1..N : f[k] = step(f[k - 1], k)
  <2>1. \A k \in 1..N : f[k - 1] \in Seen
    BY <1>1
  <2> QED BY <1>5, <2>1
<1>7. f = [n \in 0..N |-> IF n = 0 THEN NothingSeen ELSE step(f[n - 1], n)]
  BY <1>1, <1>5, <1>6
<1>8. G = [n \in 0..N |-> IF n = 0 THEN NothingSeen ELSE step(G[n - 1], n)]
  BY <1>7, Zenon
<1> HIDE DEF G
<1>9. G[0] = NothingSeen /\ \A k \in 1..N : G[k] = step(G[k - 1], k)
  BY <1>1, <1>8
<1>10. \A k \in 0..N : G[k] \in Seen
  <2> DEFINE Good == {k \in 0..N : G[k] \in Seen}
  <2>1. 0 \in Good
    BY <1>1, <1>2, <1>9
  <2>2. ASSUME NEW k \in 1..N, k - 1 \in Good PROVE k \in Good
    BY <1>1, <1>3, <1>9, <2>2
  <2> HIDE DEF Good
  <2>3. 0..N \subseteq Good
    BY <1>1, <2>1, <2>2, Induction
  <2> QED BY <2>3 DEF Good
<1>11. scanRules(list, host, port, sandbox) = G[N]
  BY DEF scanRules, G, N, step
<1>12. IsScan(G, list, host, port, sandbox)
  BY <1>9, <1>10 DEF IsScan, N, step
<1> QED BY <1>11, <1>12 DEF N

\* Of the first n rules, those that match and have the decision.
Picked(list, n, d, host, port, sandbox) ==
  {i \in 1..n : hits(list[i], host, port, sandbox) /\ list[i].decision = d}

\* The rules without a wildcard in at least one resource.
Exact(list) == {i \in 1..Len(list) : isExact(list[i])}
Wild(list) == {i \in 1..Len(list) : ~isExact(list[i])}

\* The identifier is that of one of the rules, or there is none.
NamesOne(id, list, P) ==
  (P = {} /\ id = NoRule) \/ \E i \in P : id = list[i].id

\* What the loop has seen when the matching rules are A (allow) and D (deny).
Summary(x, list, A, D) ==
  /\ x.exactAllow <=> A \cap Exact(list) # {}
  /\ x.exactDeny <=> D \cap Exact(list) # {}
  /\ x.wildcardAllow <=> A \cap Wild(list) # {}
  /\ x.wildcardDeny <=> D \cap Wild(list) # {}
  /\ NamesOne(x.allowRuleID, list, A)
  /\ NamesOne(x.denyRuleID, list, D)

\* After the loop these facts hold of all matching rules of the list.
LEMMA LoopSummary ==
  ASSUME NEW list \in Seq(Rule), NEW host, NEW port, NEW sandbox
  PROVE  Summary(scanRules(list, host, port, sandbox), list,
                 Picked(list, Len(list), "allow", host, port, sandbox),
                 Picked(list, Len(list), "deny", host, port, sandbox))
<1>1. PICK g : /\ IsScan(g, list, host, port, sandbox)
               /\ scanRules(list, host, port, sandbox) = g[Len(list)]
  BY LoopOfEvaluate
<1> DEFINE N == Len(list)
           P(n, d) == Picked(list, n, d, host, port, sandbox)
           Good == {n \in 0..N : Summary(g[n], list, P(n, "allow"), P(n, "deny"))}
<1>2. N \in Nat /\ \A k \in 1..N : list[k] \in Rule
  OBVIOUS
<1>3. 0 \in Good
  <2>1. \A d : P(0, d) = {}
    BY DEF Picked
  <2>2. g[0] = NothingSeen
    BY <1>1 DEF IsScan
  <2> QED BY <1>2, <2>1, <2>2 DEF Summary, NothingSeen, NamesOne
<1>4. ASSUME NEW n \in 1..N, n - 1 \in Good PROVE n \in Good
  <2> DEFINE x == g[n - 1]
             y == g[n]
             r == list[n]
             new(d) == hits(r, host, port, sandbox) /\ r.decision = d
  <2>1. x \in Seen /\ r \in Rule /\ y = scanRule(x, r, host, port, sandbox)
    BY <1>1, <1>2 DEF IsScan
  <2>2. Summary(x, list, P(n - 1, "allow"), P(n - 1, "deny"))
    BY <1>4
  <2>3. \A d : /\ new(d) => P(n, d) = P(n - 1, d) \cup {n}
               /\ ~new(d) => P(n, d) = P(n - 1, d)
    BY DEF Picked
  <2>4. (n \in Exact(list) <=> isExact(r)) /\ (n \in Wild(list) <=> ~isExact(r))
    BY DEF Exact, Wild
  <2> HIDE DEF x, y
  <2>5. /\ y.exactAllow <=> x.exactAllow \/ (new("allow") /\ isExact(r))
        /\ y.exactDeny <=> x.exactDeny \/ (new("deny") /\ isExact(r))
        /\ y.wildcardAllow <=> x.wildcardAllow \/ (new("allow") /\ ~isExact(r))
        /\ y.wildcardDeny <=> x.wildcardDeny \/ (new("deny") /\ ~isExact(r))
        /\ y.allowRuleID = IF new("allow") THEN r.id ELSE x.allowRuleID
        /\ y.denyRuleID = IF new("deny") THEN r.id ELSE x.denyRuleID
    BY <2>1, ScanRule
  <2> HIDE DEF P, new, r
  <2>6. ASSUME NEW d, NEW E
        PROVE  P(n, d) \cap E # {} <=> P(n - 1, d) \cap E # {} \/ (new(d) /\ n \in E)
    <3>1. CASE new(d)
      <4>1. P(n, d) = P(n - 1, d) \cup {n}
        BY <2>3, <3>1
      <4> QED BY <3>1, <4>1
    <3>2. CASE ~new(d)
      <4>1. P(n, d) = P(n - 1, d)
        BY <2>3, <3>2
      <4> QED BY <3>2, <4>1
    <3> QED BY <3>1, <3>2
  <2>7. ASSUME NEW d, NEW old, NEW id, id = IF new(d) THEN r.id ELSE old,
               NamesOne(old, list, P(n - 1, d))
        PROVE  NamesOne(id, list, P(n, d))
    <3>1. CASE new(d)
      <4>1. n \in P(n, d) /\ id = list[n].id
        BY <2>3, <2>7, <3>1 DEF r
      <4> QED BY <4>1 DEF NamesOne
    <3>2. CASE ~new(d)
      <4>1. P(n, d) = P(n - 1, d) /\ id = old
        BY <2>3, <2>7, <3>2
      <4> QED BY <2>7, <4>1
    <3> QED BY <3>1, <3>2
  <2>8. /\ y.exactAllow <=> P(n, "allow") \cap Exact(list) # {}
        /\ y.exactDeny <=> P(n, "deny") \cap Exact(list) # {}
        /\ y.wildcardAllow <=> P(n, "allow") \cap Wild(list) # {}
        /\ y.wildcardDeny <=> P(n, "deny") \cap Wild(list) # {}
    BY <2>2, <2>4, <2>5, <2>6 DEF Summary
  <2>9. Summary(y, list, P(n, "allow"), P(n, "deny"))
    BY <2>2, <2>5, <2>7, <2>8 DEF Summary
  <2> QED BY <2>9 DEF y
<1> HIDE DEF Good
<1>5. 0..N \subseteq Good
  BY <1>2, <1>3, <1>4, Induction
<1>6. N \in Good
  BY <1>2, <1>5
<1> QED BY <1>1, <1>6 DEF Good

-----------------------------------------------------------------------------
(* The decision.                                                           *)

\* A matching rule with the decision d, in terms of indices.
LEMMA MatchingIndices ==
  ASSUME NEW list \in Seq(Rule), NEW host, NEW port, NEW sandbox, NEW d
  PROVE  LET M == matchingRules(list, host, port, sandbox)
             P == Picked(list, Len(list), d, host, port, sandbox)
         IN /\ \A i \in P : list[i] \in M /\ list[i].decision = d
            /\ \A r \in M : r.decision = d => \E i \in P : r = list[i]
            /\ P \cap Exact(list) # {} <=> \E r \in M : r.decision = d /\ isExact(r)
            /\ P \cap Wild(list) # {} <=> \E r \in M : r.decision = d /\ ~isExact(r)
<1> DEFINE M == matchingRules(list, host, port, sandbox)
           P == Picked(list, Len(list), d, host, port, sandbox)
<1>1. DOMAIN list = 1..Len(list)
  OBVIOUS
<1>2. \A i \in P : i \in 1..Len(list) /\ list[i] \in M /\ list[i].decision = d
  BY <1>1 DEF Picked, matchingRules, hits, ToSet
<1>3. \A r \in M : r.decision = d => \E i \in P : r = list[i]
  BY <1>1 DEF Picked, matchingRules, hits, ToSet
<1> HIDE DEF M, P
<1>4. P \cap Exact(list) # {} <=> \E r \in M : r.decision = d /\ isExact(r)
  BY <1>2, <1>3 DEF Exact
<1>5. P \cap Wild(list) # {} <=> \E r \in M : r.decision = d /\ ~isExact(r)
  BY <1>2, <1>3 DEF Wild
<1> QED BY <1>2, <1>3, <1>4, <1>5 DEF M, P

\* The flags after the loop, in terms of the set of matching rules.
LEMMA Flags ==
  ASSUME NEW list \in Seq(Rule), NEW host, NEW port, NEW sandbox
  PROVE  LET M == matchingRules(list, host, port, sandbox)
             x == scanRules(list, host, port, sandbox)
         IN /\ x.exactAllow <=> \E r \in M : r.decision = "allow" /\ isExact(r)
            /\ x.exactDeny <=> \E r \in M : r.decision = "deny" /\ isExact(r)
            /\ x.wildcardAllow <=> \E r \in M : r.decision = "allow" /\ ~isExact(r)
            /\ x.wildcardDeny <=> \E r \in M : r.decision = "deny" /\ ~isExact(r)
  BY LoopSummary, MatchingIndices DEF Summary

\* The decision is a function of the set of matching rules.
LEMMA DecisionIsPriority ==
  ASSUME NEW list \in Seq(Rule), NEW host, NEW port, NEW sandbox
  PROVE  LET M == matchingRules(list, host, port, sandbox)
         IN isAllowed(list, host, port, sandbox) <=>
              \/ \E r \in M : r.decision = "allow" /\ isExact(r)
              \/ /\ \E r \in M : r.decision = "allow"
                 /\ ~\E r \in M : r.decision = "deny" /\ isExact(r)
<1> DEFINE x == scanRules(list, host, port, sandbox)
<1>1. isAllowed(list, host, port, sandbox) <=> x.exactAllow \/ (~x.exactDeny /\ x.wildcardAllow)
  <2> HIDE DEF x
  <2>1. decide(x).decision = "allow" <=> x.exactAllow \/ (~x.exactDeny /\ x.wildcardAllow)
    BY DEF decide
  <2> QED BY <2>1 DEF isAllowed, Evaluate, x
<1> QED BY <1>1, Flags

\* The rule that is reported is one that matched.
LEMMA ReportedRule ==
  ASSUME NEW list \in Seq(Rule), NEW host, NEW port, NEW sandbox
  PROVE  LET M == matchingRules(list, host, port, sandbox)
             e == Evaluate(list, host, port, sandbox)
         IN  IF e.id = NoRule THEN M = {}
             ELSE \E r \in M : r.id = e.id /\ r.decision = e.decision
<1> DEFINE M == matchingRules(list, host, port, sandbox)
           x == scanRules(list, host, port, sandbox)
           e == Evaluate(list, host, port, sandbox)
           P(d) == Picked(list, Len(list), d, host, port, sandbox)
<1>1. \A r \in M : r.id # NoRule /\ r.decision \in {"allow", "deny"}
  <2>1. \A r \in Rule : r.id # NoRule /\ r.decision \in {"allow", "deny"}
    BY DEF Rule
  <2>2. \A r \in M : r \in Rule
    BY DEF matchingRules, ToSet
  <2> QED BY <2>1, <2>2
<1>2. /\ x.exactAllow <=> \E r \in M : r.decision = "allow" /\ isExact(r)
      /\ x.exactDeny <=> \E r \in M : r.decision = "deny" /\ isExact(r)
      /\ x.wildcardAllow <=> \E r \in M : r.decision = "allow" /\ ~isExact(r)
  BY Flags
<1>3. /\ NamesOne(x.allowRuleID, list, P("allow"))
      /\ NamesOne(x.denyRuleID, list, P("deny"))
  BY LoopSummary DEF Summary
<1>4. \A d : /\ \A i \in P(d) : list[i] \in M /\ list[i].decision = d
             /\ \A r \in M : r.decision = d => P(d) # {}
  BY MatchingIndices
<1>5. e = decide(x)
  BY DEF Evaluate
<1> HIDE DEF M, x, e, P
<1>6. ASSUME NEW d, NEW id, NamesOne(id, list, P(d))
      PROVE  \/ id = NoRule /\ \A r \in M : r.decision # d
             \/ id # NoRule /\ \E r \in M : r.id = id /\ r.decision = d
  BY <1>1, <1>4, <1>6 DEF NamesOne
<1>7. /\ \/ x.allowRuleID = NoRule /\ \A r \in M : r.decision # "allow"
         \/ x.allowRuleID # NoRule /\ \E r \in M : r.id = x.allowRuleID /\ r.decision = "allow"
      /\ \/ x.denyRuleID = NoRule /\ \A r \in M : r.decision # "deny"
         \/ x.denyRuleID # NoRule /\ \E r \in M : r.id = x.denyRuleID /\ r.decision = "deny"
  BY <1>3, <1>6
<1>8. \/ /\ x.exactAllow \/ (~x.exactDeny /\ x.wildcardAllow)
         /\ e = [decision |-> "allow", id |-> x.allowRuleID]
      \/ /\ x.exactDeny \/ ~x.wildcardAllow
         /\ ~x.exactAllow
         /\ e = [decision |-> "deny", id |-> x.denyRuleID]
  BY <1>5 DEF decide
<1>9. IF e.id = NoRule THEN M = {} ELSE \E r \in M : r.id = e.id /\ r.decision = e.decision
  BY <1>1, <1>2, <1>7, <1>8
<1> QED BY <1>9 DEF M, e

-----------------------------------------------------------------------------

\* For every list of rules that calls of the engine can produce, a request is allowed
\* exactly when an exact rule allows it, or a wildcard rule does and no exact rule
\* denies it: the loop and the priority chain of Evaluate (policy.go:124-173).
THEOREM EngineDecisionFollowsPriority == Spec => []DecisionFollowsPriority
<1>1. TypeOK => DecisionFollowsPriority
  BY DecisionIsPriority DEF TypeOK, DecisionFollowsPriority
<1> QED BY <1>1, EngineTypeCorrect, PTL

\* The rule that Evaluate reports matched and has the decision taken, and
\* "default-deny" is reported only when no rule matched (policy.go:121-122, 161-179).
THEOREM EngineReportedRuleDecided == Spec => []ReportedRuleDecided
<1>1. TypeOK => ReportedRuleDecided
  BY ReportedRule DEF TypeOK, ReportedRuleDecided
<1> QED BY <1>1, EngineTypeCorrect, PTL

\* A step that adds no allow rule and removes no deny rule allows no request that was
\* refused, whatever the rules are (policy.go:111-180, 254-286).
THEOREM EngineTighteningNeverOpens == Spec => TighteningNeverOpens
<1> DEFINE A == /\ withDecision(rules', "allow") \subseteq withDecision(rules, "allow")
                /\ withDecision(rules, "deny") \subseteq withDecision(rules', "deny")
                => \A host \in Host, port \in Port, sandbox \in Sandbox :
                     isAllowed(rules', host, port, sandbox)
                       => isAllowed(rules, host, port, sandbox)
<1>1. TypeOK /\ TypeOK' => A
  <2> SUFFICES ASSUME rules \in Seq(Rule), rules' \in Seq(Rule),
                      withDecision(rules', "allow") \subseteq withDecision(rules, "allow"),
                      withDecision(rules, "deny") \subseteq withDecision(rules', "deny"),
                      NEW host \in Host, NEW port \in Port, NEW sandbox \in Sandbox,
                      isAllowed(rules', host, port, sandbox)
               PROVE  isAllowed(rules, host, port, sandbox)
    BY DEF TypeOK
  <2> DEFINE M == matchingRules(rules, host, port, sandbox)
             N == matchingRules(rules', host, port, sandbox)
  <2>1. \A r \in N : r.decision = "allow" => r \in M
    BY DEF matchingRules, withDecision
  <2>2. \A r \in M : r.decision = "deny" => r \in N
    BY DEF matchingRules, withDecision
  <2>3. \/ \E r \in N : r.decision = "allow" /\ isExact(r)
        \/ /\ \E r \in N : r.decision = "allow"
           /\ ~\E r \in N : r.decision = "deny" /\ isExact(r)
    BY DecisionIsPriority
  <2>4. \/ \E r \in M : r.decision = "allow" /\ isExact(r)
        \/ /\ \E r \in M : r.decision = "allow"
           /\ ~\E r \in M : r.decision = "deny" /\ isExact(r)
    <3> HIDE DEF M, N
    <3> QED BY <2>1, <2>2, <2>3
  <2> QED BY <2>4, DecisionIsPriority
<1>2. TypeOK /\ TypeOK' => [A]_vars
  BY <1>1
<1> HIDE DEF A
<1>3. []TypeOK => [][A]_vars
  BY <1>2, PTL
<1> QED BY <1>3, EngineTypeCorrect, PTL DEF TighteningNeverOpens, A

\* A step that changes no rule a sandbox can see changes no decision about its
\* requests (policy.go:125).
THEOREM EngineScopeIsolation == Spec => ScopeIsolation
<1> DEFINE visible(list, sandbox) == {r \in ToSet(list) : r.scope \in {Global, sandbox}}
           A == \A sandbox \in Sandbox :
                  visible(rules, sandbox) = visible(rules', sandbox)
                  => \A host \in Host, port \in Port :
                       isAllowed(rules, host, port, sandbox) =
                       isAllowed(rules', host, port, sandbox)
<1>1. TypeOK /\ TypeOK' => A
  <2> SUFFICES ASSUME rules \in Seq(Rule), rules' \in Seq(Rule),
                      NEW host \in Host, NEW port \in Port, NEW sandbox \in Sandbox,
                      visible(rules, sandbox) = visible(rules', sandbox)
               PROVE  isAllowed(rules, host, port, sandbox) = isAllowed(rules', host, port, sandbox)
    BY DEF TypeOK
  <2>1. matchingRules(rules, host, port, sandbox) = matchingRules(rules', host, port, sandbox)
    BY DEF matchingRules, isVisible
  <2>2. isAllowed(rules, host, port, sandbox) <=> isAllowed(rules', host, port, sandbox)
    BY <2>1, DecisionIsPriority
  <2> QED BY <2>2 DEF isAllowed
<1>2. TypeOK /\ TypeOK' => [A]_vars
  BY <1>1
<1> HIDE DEF A
<1>3. []TypeOK => [][A]_vars
  BY <1>2, PTL
<1> QED BY <1>3, EngineTypeCorrect, PTL DEF ScopeIsolation, A

-----------------------------------------------------------------------------
(* Host names.                                                             *)

\* A host name that has another one as a strict suffix has more labels.
LEMMA SuffixShorter ==
  ASSUME NEW s \in Seq(Label), NEW t \in Seq(Label), IsStrictSuffix(s, t)
  PROVE  Len(s) # Len(t)
<1> SUFFICES ASSUME Len(s) = Len(t) PROVE FALSE
  OBVIOUS
<1>1. PICK n \in Nat : n = Len(s) /\ n = Len(t)
  BY LenProperties
<1>2. \A i \in 1 .. n : n - i + 1 \in 1 .. n /\ n - (n - i + 1) + 1 = i
  OBVIOUS
<1>3. \A i \in 1 .. n : s[i] \in Label /\ t[i] \in Label
  BY <1>1, ElementOfSeq
<1>4. PICK a : a = [i \in 1 .. n |-> s[n - i + 1]]
  OBVIOUS
<1>5. PICK b : b = [i \in 1 .. n |-> t[n - i + 1]]
  OBVIOUS
<1>6. a \in Seq(Label) /\ Len(a) = n /\ b \in Seq(Label) /\ Len(b) = n
  BY <1>2, <1>3, <1>4, <1>5
<1>7. Reverse(s) = a /\ Reverse(t) = b
  BY <1>1, <1>4, <1>5 DEF Reverse
<1>8. SubSeq(a, 1, n) = SubSeq(b, 1, n)
  BY <1>6, <1>7 DEF IsStrictSuffix, IsSuffix, IsPrefix
<1>9. SubSeq(a, 1, n) = a /\ SubSeq(b, 1, n) = b
  BY <1>6, SubSeqFull
<1>10. ASSUME NEW i \in 1 .. n PROVE s[i] = t[i]
  <2>1. PICK j \in 1 .. n : j = n - i + 1 /\ n - j + 1 = i
    BY <1>2
  <2>2. a[j] = s[i] /\ b[j] = t[i]
    BY <1>4, <1>5, <2>1
  <2> QED BY <1>8, <1>9, <2>2
<1>11. s = t
  BY <1>1, <1>10, SeqEqual
<1> QED BY <1>11 DEF IsStrictSuffix

\* For every host name and port: "**.h:p" matches exactly what "*.h:p" matches, so
\* neither matches h itself.  The suffix that is compared starts with the dot in
\* both branches, and the second one's EqualFold never decides (policy.go:227-237).
THEOREM DoubleStarIsStar ==
  ASSUME NEW host \in Seq(Label), NEW port, NEW p \in Pattern, NEW q \in Pattern,
         p.form = "sub", q.form = "deepsub", p.host = q.host, p.port = q.port
  PROVE  /\ matchHostPort(host, port, p) <=> matchHostPort(host, port, q)
         /\ EqualFold(host, p.host) => ~matchHostPort(host, port, q)
<1>1. p.host \in Seq(Label)
  BY DEF Pattern
<1>2. HasDotSuffix(host, p) => ~EqualFold(host, p.host)
  BY <1>1, SuffixShorter DEF HasDotSuffix, EqualFold
<1>3. HasDotSuffix(host, p) <=> HasDotSuffix(host, q)
  BY DEF HasDotSuffix
<1>4. /\ hostMatches(host, p) <=> HasDotSuffix(host, p)
      /\ hostMatches(host, q) <=> HasDotSuffix(host, q)
  BY <1>2 DEF hostMatches
<1>5. HasPort(p) /\ HasPort(q)
  BY DEF HasPort
<1> QED BY <1>2, <1>3, <1>4, <1>5 DEF matchHostPort
=============================================================================
