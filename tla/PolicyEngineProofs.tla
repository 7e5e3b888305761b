------------------------ MODULE PolicyEngineProofs ------------------------
(***************************************************************************)
(* Proofs about PolicyEngine, for every set of hosts, ports, sandboxes,    *)
(* resource lists and bounds: the engine keeps its type, no two rules ever *)
(* share an identifier, and RemoveRule removes exactly the rule it names.  *)
(***************************************************************************)
EXTENDS PolicyEngine, WellFoundedInduction, TLAPS

-----------------------------------------------------------------------------
(* Facts about natural numbers and lists.                                  *)

\* Every nonempty set of natural numbers has a least element.
LEMMA LeastNatural ==
  ASSUME NEW T, T \subseteq Nat, T # {}
  PROVE  \E x \in T : \A y \in T : x <= y
<1> DEFINE R == {ss \in Nat \X Nat : ss[1] < ss[2]}
<1>1. IsWellFoundedOn(R, Nat)
  BY NatLessThanWellFounded, Zenon DEF OpToRel
<1> HIDE DEF R
<1>2. PICK x \in T : \A y \in T : ~ (<<y, x>> \in R)
  BY <1>1, WFMin, Zenon
<1>3. \A y \in T : ~ (y < x)
  BY <1>2 DEF R
<1> QED
  BY <1>3

\* Of finitely many integers and 0, one is the greatest.  Otherwise there would
\* be a shortest prefix without a greatest element, and the greatest of the
\* prefix before it, or the number that follows, would be its greatest.
LEMMA PrefixHasGreatest ==
  ASSUME NEW N \in Nat, NEW f, \A i \in 1..N : f[i] \in Int
  PROVE  \E x \in {0} \cup {f[i] : i \in 1..N} :
           \A y \in {0} \cup {f[i] : i \in 1..N} : x >= y
<1> DEFINE P(n) == {0} \cup {f[i] : i \in 1..n}
           HasMax(n) == \E x \in P(n) : \A y \in P(n) : x >= y
           Bad == {n \in 0..N : ~HasMax(n)}
<1>1. HasMax(0)
  <2>1. P(0) = {0}
    OBVIOUS
  <2> QED BY <2>1
<1>2. ASSUME NEW n \in 1..N, HasMax(n - 1) PROVE HasMax(n)
  <2>1. PICK x \in P(n - 1) : \A y \in P(n - 1) : x >= y
    BY <1>2
  <2>2. P(n) = P(n - 1) \cup {f[n]}
    <3>1. 1..n = 1..(n - 1) \cup {n}
      OBVIOUS
    <3> QED BY <3>1
  <2>3. /\ f[n] \in Int
        /\ \A y \in P(n - 1) : y \in Int
    OBVIOUS
  <2> HIDE DEF P
  <2>4. CASE f[n] >= x
    <3>1. \A y \in P(n) : f[n] >= y
      BY <2>1, <2>2, <2>3, <2>4
    <3> QED BY <3>1, <2>2
  <2>5. CASE ~(f[n] >= x)
    <3>1. \A y \in P(n) : x >= y
      BY <2>1, <2>2, <2>3, <2>5
    <3> QED BY <3>1, <2>2
  <2> QED BY <2>4, <2>5
<1> HIDE DEF HasMax
<1>3. Bad = {}
  <2> SUFFICES ASSUME Bad # {} PROVE FALSE
    OBVIOUS
  <2>1. Bad \subseteq Nat
    OBVIOUS
  <2>2. PICK n \in Bad : \A m \in Bad : n <= m
    BY <2>1, LeastNatural
  <2>3. n \in 0..N /\ ~HasMax(n)
    OBVIOUS
  <2>4. n \in 1..N /\ n - 1 \in 0..N
    BY <2>3, <1>1
  <2>5. n - 1 \notin Bad
    BY <2>2, <2>4
  <2>6. HasMax(n - 1)
    BY <2>4, <2>5
  <2> QED BY <1>2, <2>3, <2>4, <2>6
<1>4. HasMax(N)
  BY <1>3
<1> QED
  BY <1>4 DEF HasMax

\* The identifiers of a list are integers other than NoRule.
LEMMA RuleIDs ==
  ASSUME NEW list \in Seq(Rule)
  PROVE  /\ DOMAIN list = 1..Len(list)
         /\ Len(list) \in Nat
         /\ \A i \in DOMAIN list : list[i] \in Rule /\ list[i].id \in Int
<1>1. \A i \in DOMAIN list : list[i] \in Rule
  OBVIOUS
<1>2. \A r \in Rule : r.id \in Int
  BY DEF Rule
<1> QED
  BY <1>1, <1>2

\* nextID after LoadRules is a positive number above every identifier loaded.
LEMMA NextAfterAbove ==
  ASSUME NEW list \in Seq(Rule)
  PROVE  /\ nextAfter(list) \in Nat \ {0}
         /\ \A i \in DOMAIN list : list[i].id < nextAfter(list)
<1> DEFINE f == [i \in DOMAIN list |-> list[i].id]
           S == {0} \cup {list[i].id : i \in DOMAIN list}
<1>1. /\ Len(list) \in Nat
      /\ \A i \in 1..Len(list) : f[i] \in Int
      /\ S = {0} \cup {f[i] : i \in 1..Len(list)}
  BY RuleIDs
<1>2. \A y \in S : y \in Int
  BY RuleIDs
<1>3. \A i \in DOMAIN list : list[i].id \in S
  OBVIOUS
<1>4. 0 \in S
  OBVIOUS
<1>5. highestID(list) = Max(S)
  BY DEF highestID
<1> HIDE DEF f, S
<1>6. \E x \in S : \A y \in S : x >= y
  BY <1>1, PrefixHasGreatest
<1>7. /\ highestID(list) \in S
      /\ \A y \in S : highestID(list) >= y
  BY <1>5, <1>6 DEF Max
<1>8. /\ highestID(list) \in Nat
      /\ \A i \in DOMAIN list : list[i].id \in Int /\ highestID(list) >= list[i].id
  BY <1>2, <1>3, <1>4, <1>7
<1> QED
  BY <1>8 DEF nextAfter

\* Taking one element out of a list leaves a list of the others, in order.
LEMMA WithoutProperties ==
  ASSUME NEW list \in Seq(Rule), NEW i \in DOMAIN list
  PROVE  /\ without(list, i) \in Seq(Rule)
         /\ DOMAIN without(list, i) = 1..(Len(list) - 1)
         /\ \A j \in 1..(Len(list) - 1) :
              without(list, i)[j] = IF j < i THEN list[j] ELSE list[j + 1]
<1>1. Len(list) \in Nat /\ i \in 1..Len(list) /\ Len(list) - 1 \in Nat
  BY RuleIDs
<1>2. \A j \in 1..(Len(list) - 1) :
        (IF j < i THEN list[j] ELSE list[j + 1]) \in Rule
  BY <1>1, RuleIDs
<1>3. without(list, i) \in [1..(Len(list) - 1) -> Rule]
  BY <1>2 DEF without
<1>4. without(list, i) \in Seq(Rule)
  BY <1>1, <1>3
<1> QED
  BY <1>4 DEF without

\* The engine a process starts with satisfies the invariant.
LEMMA DefaultRulesInv ==
  /\ defaultRules \in Seq(Rule)
  /\ Len(defaultRules) = 2
  /\ HasUniqueIDs(defaultRules)
  /\ \A i \in DOMAIN defaultRules : defaultRules[i].id < Len(defaultRules) + 1
<1>1. NoHost \in Seq(Label)
  BY DEF NoHost
<1>2. \A n \in {-1, -2}, p \in {"443", "80"} : defaultRule(n, p) \in Rule
  BY <1>1, PortAssumption DEF defaultRule, Rule, Pattern, NoRule, Global
<1>3. \A n \in {-1, -2}, p \in {"443", "80"} : defaultRule(n, p).id = n
  BY DEF defaultRule
<1>4. /\ DOMAIN defaultRules = 1..2
      /\ Len(defaultRules) = 2
      /\ defaultRules[1].id = -1
      /\ defaultRules[2].id = -2
  BY <1>3 DEF defaultRules
<1>5. defaultRules \in Seq(Rule)
  BY <1>2 DEF defaultRules
<1> QED
  BY <1>4, <1>5 DEF HasUniqueIDs

-----------------------------------------------------------------------------
(* The inductive invariant.                                                *)

\* A new engine (policy.go:42-65) satisfies the invariant.
LEMMA EngineInit == Init => EngineInv
  BY DefaultRulesInv DEF Init, EngineInv, TypeOK, UniqueIDs, IDsBelowNext

\* So does the engine of a restarted process, whatever it replaces.
LEMMA NewEngineKeepsInv ==
  ASSUME NewEngine PROVE EngineInv'
  BY DefaultRulesInv DEF NewEngine, save, EngineInv, TypeOK, UniqueIDs, IDsBelowNext

\* LoadRules (policy.go:85-100) recomputes the counter from the list it is given.
LEMMA LoadRulesKeepsInv ==
  ASSUME NEW list \in RuleLists, LoadRules(list) PROVE EngineInv'
<1>1. list \in Seq(Rule) /\ HasUniqueIDs(list)
  BY RuleListAssumption
<1>2. /\ nextAfter(list) \in Nat \ {0}
      /\ \A i \in DOMAIN list : list[i].id < nextAfter(list)
  BY <1>1, NextAfterAbove
<1> QED
  BY <1>1, <1>2 DEF LoadRules, save, EngineInv, TypeOK, UniqueIDs, IDsBelowNext

\* AddRule (policy.go:254-271) hands out the counter and raises it.
LEMMA AddRuleKeepsInv ==
  ASSUME EngineInv,
         NEW d \in {"allow", "deny"}, NEW res \in ResourceSets,
         NEW sc \in Sandbox \cup {Global}, AddRule(d, res, sc)
  PROVE  EngineInv'
<1> DEFINE r == newRule(d, res, sc)
<1>1. r \in Rule /\ r.id = nextID
  BY ResourceAssumption DEF EngineInv, TypeOK, newRule, Rule, NoRule
<1>2. rules \in Seq(Rule) /\ nextID \in Nat \ {0} /\ rules' = Append(rules, r)
  BY DEF EngineInv, TypeOK, AddRule
<1> HIDE DEF r
<1>3. /\ rules' \in Seq(Rule)
      /\ DOMAIN rules' = 1..(Len(rules) + 1)
      /\ \A i \in 1..Len(rules) : rules'[i] = rules[i]
      /\ rules'[Len(rules) + 1] = r
  BY <1>1, <1>2
<1>4. \A i \in 1..Len(rules) : rules[i].id \in Int /\ rules[i].id < nextID
  BY <1>2, RuleIDs DEF EngineInv, IDsBelowNext
<1>5. TypeOK'
  BY <1>2, <1>3 DEF AddRule, save, TypeOK
<1>6. UniqueIDs'
  <2>1. \A i, j \in 1..Len(rules) : rules[i].id = rules[j].id => i = j
    BY <1>2, RuleIDs DEF EngineInv, UniqueIDs, HasUniqueIDs
  <2>2. Len(rules) \in Nat
    BY <1>2
  <2>3. \A i \in 1..Len(rules) : rules'[i].id # rules'[Len(rules) + 1].id
    BY <1>1, <1>2, <1>3, <1>4
  <2>4. ASSUME NEW i \in 1..(Len(rules) + 1), NEW j \in 1..(Len(rules) + 1),
               rules'[i].id = rules'[j].id
        PROVE  i = j
    <3>1. CASE i \in 1..Len(rules) /\ j \in 1..Len(rules)
      BY <1>3, <2>1, <2>4, <3>1
    <3>2. CASE i = Len(rules) + 1 \/ j = Len(rules) + 1
      BY <2>2, <2>3, <2>4, <3>2
    <3> QED BY <2>2, <3>1, <3>2
  <2> QED
    BY <1>3, <2>4 DEF UniqueIDs, HasUniqueIDs
<1>7. IDsBelowNext'
  <2>1. nextID' = nextID + 1 /\ Len(rules) \in Nat
    BY <1>2 DEF AddRule
  <2>2. \A i \in 1..(Len(rules) + 1) : rules'[i].id < nextID + 1
    BY <1>1, <1>2, <1>3, <1>4, <2>1
  <2> QED
    BY <1>3, <2>1, <2>2 DEF IDsBelowNext
<1> QED
  BY <1>5, <1>6, <1>7 DEF EngineInv

\* What RemoveRule does to the list: the rule it names is the one that goes.
LEMMA RemoveRuleStep ==
  ASSUME EngineInv, NEW id, RemoveRule(id)
  PROVE  \E i \in DOMAIN rules : rules[i].id = id /\ rules' = without(rules, i)
  BY DEF RemoveRule

\* RemoveRule (policy.go:274-286) only drops a rule and keeps the counter.
LEMMA RemoveRuleKeepsInv ==
  ASSUME EngineInv, NEW id, RemoveRule(id) PROVE EngineInv'
<1>1. PICK i \in DOMAIN rules : rules[i].id = id /\ rules' = without(rules, i)
  BY RemoveRuleStep
<1>2. rules \in Seq(Rule) /\ Len(rules) \in Nat /\ DOMAIN rules = 1..Len(rules)
  BY RuleIDs DEF EngineInv, TypeOK
<1>3. /\ rules' \in Seq(Rule)
      /\ DOMAIN rules' = 1..(Len(rules) - 1)
      /\ \A j \in 1..(Len(rules) - 1) :
           rules'[j] = IF j < i THEN rules[j] ELSE rules[j + 1]
  BY <1>1, <1>2, WithoutProperties
<1>4. TypeOK'
  BY <1>3 DEF EngineInv, TypeOK, RemoveRule, save
<1>5. UniqueIDs'
  <2> SUFFICES ASSUME NEW j \in 1..(Len(rules) - 1), NEW k \in 1..(Len(rules) - 1),
                      rules'[j].id = rules'[k].id
               PROVE  j = k
    BY <1>3 DEF UniqueIDs, HasUniqueIDs
  <2>1. \A a, b \in 1..Len(rules) : rules[a].id = rules[b].id => a = b
    BY <1>2 DEF EngineInv, UniqueIDs, HasUniqueIDs
  <2>2. PICK a \in 1..Len(rules) :
          rules'[j] = rules[a] /\ a = IF j < i THEN j ELSE j + 1
    BY <1>2, <1>3
  <2>3. PICK b \in 1..Len(rules) :
          rules'[k] = rules[b] /\ b = IF k < i THEN k ELSE k + 1
    BY <1>2, <1>3
  <2>4. a = b
    BY <2>1, <2>2, <2>3
  <2> QED BY <1>2, <2>2, <2>3, <2>4
<1>6. IDsBelowNext'
  <2>1. nextID' = nextID
    BY DEF RemoveRule
  <2>2. \A a \in 1..Len(rules) : rules[a].id < nextID
    BY <1>2 DEF EngineInv, IDsBelowNext
  <2>3. \A j \in 1..(Len(rules) - 1) : rules'[j].id < nextID
    BY <1>2, <1>3, <2>2
  <2> QED
    BY <1>3, <2>1, <2>3 DEF IDsBelowNext
<1> QED
  BY <1>4, <1>5, <1>6 DEF EngineInv

\* Every call of the engine keeps the invariant.
LEMMA NextKeepsInv == EngineInv /\ [Next]_vars => EngineInv'
<1> SUFFICES ASSUME EngineInv, [Next]_vars PROVE EngineInv'
  OBVIOUS
<1>1. CASE NewEngine
  BY <1>1, NewEngineKeepsInv
<1>2. CASE \E list \in RuleLists : LoadRules(list)
  BY <1>2, LoadRulesKeepsInv
<1>3. CASE \E d \in {"allow", "deny"}, res \in ResourceSets,
              sc \in Sandbox \cup {Global} : AddRule(d, res, sc)
  BY <1>3, AddRuleKeepsInv
<1>4. CASE \E i \in DOMAIN rules : RemoveRule(rules[i].id)
  BY <1>4, RemoveRuleKeepsInv
<1>5. CASE UNCHANGED vars
  BY <1>5 DEF vars, EngineInv, TypeOK, UniqueIDs, IDsBelowNext
<1> QED
  BY <1>1, <1>2, <1>3, <1>4, <1>5 DEF Next

\* Identifiers are unique and lie below the counter after every sequence of calls
\* of the engine (policy.go:42-100, 254-286): the inductive invariant.
THEOREM EngineInvariant == Spec => []EngineInv
  BY EngineInit, NextKeepsInv, PTL DEF Spec

\* The rule list and its counter keep their type through every sequence of
\* calls, for every set of patterns, hosts and sandboxes (policy.go:33-39).
THEOREM EngineTypeCorrect == Spec => []TypeOK
<1>1. EngineInv => TypeOK
  BY DEF EngineInv
<1> QED
  BY <1>1, EngineInvariant, PTL

\* No two rules of an engine ever share an identifier, however AddRule,
\* RemoveRule and LoadRules alternate (policy.go:85-100, 254-286).
THEOREM EngineUniqueIDs == Spec => []UniqueIDs
<1>1. EngineInv => UniqueIDs
  BY DEF EngineInv
<1> QED
  BY <1>1, EngineInvariant, PTL

\* The counter is always past every identifier in use, also after LoadRules has
\* taken it from a list this engine did not issue (policy.go:85-100, 254-272).
THEOREM EngineIDsBelowNext == Spec => []IDsBelowNext
<1>1. EngineInv => IDsBelowNext
  BY DEF EngineInv
<1> QED
  BY <1>1, EngineInvariant, PTL

\* RemoveRule(id) takes away exactly the rules with that identifier
\* (policy.go:274-286): the early return after the first match is enough.
THEOREM RemoveRuleExact == Spec => RemoveIsExact
<1> DEFINE A == \A i \in DOMAIN rules :
                  RemoveRule(rules[i].id) =>
                    ToSet(rules') = {r \in ToSet(rules) : r.id # rules[i].id}
<1>1. EngineInv => A
  <2> SUFFICES ASSUME EngineInv, NEW n \in DOMAIN rules, RemoveRule(rules[n].id)
               PROVE  ToSet(rules') = {r \in ToSet(rules) : r.id # rules[n].id}
    OBVIOUS
  <2>1. PICK i \in DOMAIN rules :
          rules[i].id = rules[n].id /\ rules' = without(rules, i)
    BY RemoveRuleStep
  <2>2. rules \in Seq(Rule) /\ Len(rules) \in Nat /\ DOMAIN rules = 1..Len(rules)
    BY RuleIDs DEF EngineInv, TypeOK
  <2>3. /\ DOMAIN rules' = 1..(Len(rules) - 1)
        /\ \A j \in 1..(Len(rules) - 1) :
             rules'[j] = IF j < i THEN rules[j] ELSE rules[j + 1]
    BY <2>1, <2>2, WithoutProperties
  <2>4. \A a \in 1..Len(rules) : rules[a].id = rules[n].id => a = i
    BY <2>1, <2>2 DEF EngineInv, UniqueIDs, HasUniqueIDs
  <2>5. ASSUME NEW r \in ToSet(rules')
        PROVE  r \in ToSet(rules) /\ r.id # rules[n].id
    <3>1. PICK j \in 1..(Len(rules) - 1) : r = rules'[j]
      BY <2>3 DEF ToSet
    <3>2. PICK a \in 1..Len(rules) : r = rules[a] /\ a # i
      BY <2>2, <2>3, <3>1
    <3> QED BY <2>2, <2>4, <3>2 DEF ToSet
  <2>6. ASSUME NEW r \in ToSet(rules), r.id # rules[n].id
        PROVE  r \in ToSet(rules')
    <3>1. PICK a \in 1..Len(rules) : r = rules[a]
      BY <2>2 DEF ToSet
    <3>2. a # i
      BY <2>1, <2>6, <3>1
    <3>3. \E j \in 1..(Len(rules) - 1) : rules'[j] = rules[a]
      <4>1. CASE a < i
        <5>1. a \in 1..(Len(rules) - 1) /\ rules'[a] = rules[a]
          BY <2>2, <2>3, <4>1
        <5> QED BY <5>1
      <4>2. CASE a > i
        <5>1. a - 1 \in 1..(Len(rules) - 1) /\ rules'[a - 1] = rules[a]
          BY <2>2, <2>3, <4>2
        <5> QED BY <5>1
      <4> QED BY <2>2, <3>2, <4>1, <4>2
    <3> QED BY <2>3, <3>1, <3>3 DEF ToSet
  <2> QED
    BY <2>5, <2>6
<1>2. EngineInv => [A]_vars
  BY <1>1
<1> HIDE DEF A
<1>3. []EngineInv => [][A]_vars
  BY <1>2, PTL
<1> QED
  BY <1>3, EngineInvariant, PTL DEF RemoveIsExact, A
=============================================================================
