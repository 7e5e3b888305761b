--------------------------- MODULE PolicyEngine ---------------------------
(***************************************************************************)
(* internal/policy.Engine: the ordered rule list and the counter its       *)
(* identifiers come from.                                                  *)
(*                                                                         *)
(* Every operation holds pe.mu for its whole body, so one action is one    *)
(* call.  Evaluate and ListRules read the list and change nothing: what    *)
(* they return is what the properties are about.  The daemon owns one      *)
(* engine and adds and removes rules; each proxy sidecar owns another,     *)
(* whose list is replaced through LoadRules by what the daemon's engine    *)
(* listed.  The model lets one engine do both.                             *)
(***************************************************************************)
EXTENDS PolicyMatch

CONSTANTS ResourceSets,   \* the resource lists an API client can send
          Host,           \* the host names requests carry
          RuleLists,      \* the lists LoadRules can be given
          MaxRules,       \* bound: rules in an engine
          MaxID           \* bound: the last identifier handed out

HasUniqueIDs(list) ==
  \A i, j \in DOMAIN list : list[i].id = list[j].id => i = j

ASSUME HostAssumption == Host \subseteq Seq(Label)

ASSUME ResourceAssumption == ResourceSets \subseteq SUBSET Pattern

\* LoadRules is fed with what another engine's ListRules returned.
ASSUME RuleListAssumption ==
  \A list \in RuleLists : list \in Seq(Rule) /\ HasUniqueIDs(list)

\* The two ports of the built-in rules are ports a request can name.
ASSUME PortAssumption == {"443", "80"} \subseteq Port

ASSUME BoundAssumption == MaxRules \in Nat /\ MaxID \in Nat

VARIABLES rules,    \* pe.rules
          nextID,   \* pe.nextID
          saved     \* rules.json holds pe.rules

vars == <<rules, nextID, saved>>

TypeOK ==
  /\ rules \in Seq(Rule)
  /\ nextID \in Nat \ {0}
  /\ saved \in BOOLEAN

-----------------------------------------------------------------------------

defaultRule(n, port) ==
  [id |-> n, decision |-> "deny", scope |-> Global,
   resources |-> {[form |-> "anyhost", host |-> NoHost, port |-> port]}]

defaultRules == << defaultRule(-1, "443"), defaultRule(-2, "80") >>

\* The write can fail, and every caller drops the error.  No code path reads
\* rules.json back, so only its agreement with the list is kept.
save == saved' \in BOOLEAN

\* NewEngine starts from the default rules whatever rules.json holds.  As a
\* step it is a restart of the process that owns the engine.
NewEngine ==
  /\ rules' = defaultRules
  /\ nextID' = Len(defaultRules) + 1
  /\ save

Init ==
  /\ rules = defaultRules
  /\ nextID = Len(defaultRules) + 1
  /\ saved \in BOOLEAN

\* maxID after the loop of LoadRules: 0, or the highest "rule-n" of the list.
highestID(list) == Max({0} \cup {list[i].id : i \in DOMAIN list})

\* Mutant: the highest identifier in use instead of one past it.
nextAfter_Highest(list) == highestID(list)

nextAfter(list) == highestID(list) + 1

LoadRules(list) ==
  /\ rules' = list
  /\ nextID' = nextAfter(list)
  /\ save

newRule(decision, resources, scope) ==
  [id |-> nextID, decision |-> decision, resources |-> resources, scope |-> scope]

AddRule(decision, resources, scope) ==
  /\ Len(rules) < MaxRules /\ nextID <= MaxID
  /\ rules' = Append(rules, newRule(decision, resources, scope))
  /\ nextID' = nextID + 1
  /\ save

\* Mutant: the element after the one found is dropped (pe.rules[:i+1] kept).
without_OffByOne(list, i) ==
  [j \in 1..(Len(list) - 1) |-> IF j <= i THEN list[j] ELSE list[j + 1]]

\* pe.rules[:i] with pe.rules[i+1:] appended.
without(list, i) == [j \in 1..(Len(list) - 1) |-> IF j < i THEN list[j] ELSE list[j + 1]]

\* The first rule with the identifier is removed; an unknown identifier is
\* reported to the caller and changes nothing.
RemoveRule(id) ==
  /\ \E i \in DOMAIN rules :
        /\ rules[i].id = id
        /\ \A j \in 1..(i - 1) : rules[j].id # id
        /\ rules' = without(rules, i)
  /\ nextID' = nextID
  /\ save

Next ==
  \/ NewEngine
  \/ \E list \in RuleLists : LoadRules(list)
  \/ \E decision \in {"allow", "deny"}, resources \in ResourceSets,
        scope \in Sandbox \cup {Global} : AddRule(decision, resources, scope)
  \/ \E i \in DOMAIN rules : RemoveRule(rules[i].id)

Spec == Init /\ [][Next]_vars

-----------------------------------------------------------------------------
(* Identifiers.                                                            *)

\* No two rules of an engine carry the same identifier, across any sequence of
\* AddRule, RemoveRule and LoadRules: RemoveRule (policy.go:274) stops at the
\* first match, so a duplicate would survive its own deletion.
UniqueIDs == HasUniqueIDs(rules)

\* Every identifier in use lies below the counter, also after LoadRules
\* recomputed it from a list it did not issue (policy.go:91): the next AddRule
\* cannot reuse one.
IDsBelowNext == \A i \in DOMAIN rules : rules[i].id < nextID

\* The inductive invariant of the engine.
EngineInv == TypeOK /\ UniqueIDs /\ IDsBelowNext

\* A deleted rule stops deciding: once RemoveRule(id) has returned, no rule with
\* that identifier is left and every other rule is still there (policy.go:278).
RemoveIsExact ==
  [][\A i \in DOMAIN rules :
       RemoveRule(rules[i].id) =>
         ToSet(rules') = {r \in ToSet(rules) : r.id # rules[i].id}]_vars

-----------------------------------------------------------------------------
(* Decisions.                                                              *)

matchingRules(list, host, port, sandbox) ==
  {r \in ToSet(list) : /\ isVisible(r, sandbox)
                       /\ matchesResource(host, port, r.resources)}

isAllowed(list, host, port, sandbox) ==
  Evaluate(list, host, port, sandbox).decision = "allow"

\* The decision depends on which rules match and not on their order, in which
\* clients happened to add and remove them: a request is allowed exactly when
\* an exact rule allows it, or a wildcard rule does and no exact rule denies it
\* (the loop and the priority chain of Evaluate, policy.go:124-173).
DecisionFollowsPriority ==
  \A host \in Host, port \in Port, sandbox \in Sandbox :
    LET M == matchingRules(rules, host, port, sandbox) IN
    isAllowed(rules, host, port, sandbox) <=>
      \/ \E r \in M : r.decision = "allow" /\ isExact(r)
      \/ /\ \E r \in M : r.decision = "allow"
         /\ ~\E r \in M : r.decision = "deny" /\ isExact(r)

\* The rule named in the "Blocked by policy" answer and in the log is one that
\* matched and that has the decision taken; "default-deny" is reported only
\* when no rule matched at all (policy.go:121-122, 161-179).
ReportedRuleDecided ==
  \A host \in Host, port \in Port, sandbox \in Sandbox :
    LET M == matchingRules(rules, host, port, sandbox)
        e == Evaluate(rules, host, port, sandbox)
    IN  IF e.id = NoRule THEN M = {}
        ELSE \E r \in M : r.id = e.id /\ r.decision = e.decision

withDecision(list, d) == {r \in ToSet(list) : r.decision = d}

\* Tightening a policy never opens it: a step that adds no allow rule and
\* removes no deny rule turns no refused request into an allowed one, whatever
\* exact and wildcard rules are involved.
TighteningNeverOpens ==
  [][ /\ withDecision(rules', "allow") \subseteq withDecision(rules, "allow")
      /\ withDecision(rules, "deny") \subseteq withDecision(rules', "deny")
      => \A host \in Host, port \in Port, sandbox \in Sandbox :
           isAllowed(rules', host, port, sandbox)
             => isAllowed(rules, host, port, sandbox) ]_vars

\* A rule scoped to one sandbox is invisible to every other: a step that keeps
\* the rules a sandbox sees, in whatever order, changes no decision about its
\* requests (policy.go:125).  Which of several matching rules is reported depends
\* on their order and is not compared.
ScopeIsolation ==
  [][\A sandbox \in Sandbox :
       {r \in ToSet(rules) : r.scope \in {Global, sandbox}} =
       {r \in ToSet(rules') : r.scope \in {Global, sandbox}}
       => \A host \in Host, port \in Port :
            isAllowed(rules, host, port, sandbox) =
            isAllowed(rules', host, port, sandbox)]_vars

(***************************************************************************)
(* A statement of a comment that the code does not meet.                   *)
(***************************************************************************)

exactlyMatched(d, host, port, sandbox) ==
  \E r \in matchingRules(rules, host, port, sandbox) :
    /\ r.decision = d
    /\ \E p \in r.resources : ~isWildcardPattern(p) /\ matchHostPort(host, port, p)

\* policy.go:105-107, "more specific beats less specific": a request that an
\* exact pattern denies, and that no exact pattern allows, is refused.
SpecificBeatsGeneral ==
  \A host \in Host, port \in Port, sandbox \in Sandbox :
    exactlyMatched("deny", host, port, sandbox)
      /\ ~exactlyMatched("allow", host, port, sandbox)
      => ~isAllowed(rules, host, port, sandbox)
=============================================================================
