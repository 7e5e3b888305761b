---------------------------- MODULE PolicyMatch ----------------------------
(***************************************************************************)
(* The pure part of internal/policy: how a resource pattern is matched     *)
(* against a request, and how Engine.Evaluate turns the list of rules into *)
(* a decision.                                                             *)
(*                                                                         *)
(* A host name is a sequence of labels ("api.example.com" is               *)
(* <<"api", "example", "com">>).  Case is kept: Fold maps a label to its   *)
(* lower-case form, because the code compares exact host names with        *)
(* strings.EqualFold but suffixes with strings.HasSuffix.                  *)
(***************************************************************************)
EXTENDS Integers, Sequences, SequencesExt

CONSTANTS Label,    \* the labels host names are made of
          Fold,     \* case folding of labels, as in strings.EqualFold
          Port,     \* the port strings a request can carry
          Sandbox   \* sandbox names

ASSUME FoldAssumption == Fold \in [Label -> Label]

(***************************************************************************)
(* A resource string, by the way matchHostPort reads it.                   *)
(*   "all"        the two literals "*:*" and "**"                          *)
(*   "anyhost"    "*:p" and "**:p"                                         *)
(*   "sub"        "*.h:p"                                                  *)
(*   "deepsub"    "**.h:p"                                                 *)
(*   "exact"      "h:p"                                                    *)
(*   "noport"     "h", no colon: never matches, but is not a wildcard      *)
(*   "noportstar" "*.h", no colon: never matches and is a wildcard         *)
(* The port p is a port, "" ("h:", any port) or the literal "*".           *)
(***************************************************************************)
AnyPort == ""
StarPort == "*"
NoHost == <<>>

Pattern ==
  [form : {"all", "anyhost", "sub", "deepsub", "exact", "noport", "noportstar"},
   host : Seq(Label),
   port : Port \cup {AnyPort, StarPort}]

\* A rule's scope: one sandbox, or every sandbox.
Global == ""

(***************************************************************************)
(* Rule identifiers.  "rule-n" is the positive number n; the identifiers   *)
(* of the two built-in rules, and any other string that does not scan as   *)
(* "rule-%d", are negative numbers.                                        *)
(***************************************************************************)
NoRule == 0     \* the "default-deny" that Evaluate reports when nothing matches

Rule == [id : Int \ {NoRule},
         decision : {"allow", "deny"},
         resources : SUBSET Pattern,
         scope : Sandbox \cup {Global}]

-----------------------------------------------------------------------------
(* Matching.                                                               *)

EqualFold(g, h) ==
  /\ Len(g) = Len(h)
  /\ \A i \in DOMAIN g : Fold[g[i]] = Fold[h[i]]

isWildcardPattern(p) ==
  \/ p.form \in {"all", "anyhost", "sub", "deepsub", "noportstar"}
  \/ p.port = StarPort

\* netSplitHostPort fails on a pattern without a colon, and the match with it.
HasPort(p) == p.form \notin {"noport", "noportstar"}

\* strings.HasSuffix(host, "." + p.host): the suffix starts at a dot, so it is
\* a strict suffix in labels, and it is compared without folding case.
HasDotSuffix(host, p) == IsStrictSuffix(p.host, host)

hostMatches(host, p) ==
  \/ p.form = "anyhost"
  \/ p.form = "deepsub" /\ HasDotSuffix(host, p)
  \/ p.form = "sub" /\ HasDotSuffix(host, p) /\ ~EqualFold(host, p.host)
  \/ p.form = "exact" /\ EqualFold(host, p.host)

matchHostPort(host, port, p) ==
  \/ p.form = "all"
  \/ /\ HasPort(p)
     /\ p.port \in {AnyPort, port}
     /\ hostMatches(host, p)

matchesResource(host, port, resources) ==
  \E p \in resources : matchHostPort(host, port, p)

-----------------------------------------------------------------------------
(* Evaluate.                                                               *)

\* Mutant: the scope of a rule is ignored.
isVisible_NoScope(rule, sandbox) == TRUE

isVisible(rule, sandbox) == rule.scope \in {Global, sandbox}

\* A rule is exact when ANY of its resources has no wildcard, whichever of
\* them it is that matches.
isExact(rule) == \E p \in rule.resources : ~isWildcardPattern(p)

NothingSeen == [exactAllow |-> FALSE, exactDeny |-> FALSE,
                wildcardAllow |-> FALSE, wildcardDeny |-> FALSE,
                allowRuleID |-> NoRule, denyRuleID |-> NoRule]

\* Mutant: the loop keeps one rule identifier for both decisions.
scanRule_OneRuleID(seen, rule, host, port, sandbox) ==
  LET flag == IF rule.decision = "allow"
              THEN IF isExact(rule) THEN "exactAllow" ELSE "wildcardAllow"
              ELSE IF isExact(rule) THEN "exactDeny" ELSE "wildcardDeny"
  IN  IF isVisible(rule, sandbox) /\ matchesResource(host, port, rule.resources)
      THEN [seen EXCEPT ![flag] = TRUE,
                        !.allowRuleID = rule.id, !.denyRuleID = rule.id]
      ELSE seen

\* Mutant: the exact branch of "deny" sets the flag of "allow".
scanRule_WrongFlag(seen, rule, host, port, sandbox) ==
  LET flag == IF isExact(rule) THEN "exactAllow"
              ELSE IF rule.decision = "allow" THEN "wildcardAllow" ELSE "wildcardDeny"
      ref  == IF rule.decision = "allow" THEN "allowRuleID" ELSE "denyRuleID"
  IN  IF isVisible(rule, sandbox) /\ matchesResource(host, port, rule.resources)
      THEN [seen EXCEPT ![flag] = TRUE, ![ref] = rule.id]
      ELSE seen

\* The body of the loop over pe.rules; the last matching rule of a decision is
\* the one reported.
scanRule(seen, rule, host, port, sandbox) ==
  LET flag == IF rule.decision = "allow"
              THEN IF isExact(rule) THEN "exactAllow" ELSE "wildcardAllow"
              ELSE IF isExact(rule) THEN "exactDeny" ELSE "wildcardDeny"
      ref  == IF rule.decision = "allow" THEN "allowRuleID" ELSE "denyRuleID"
  IN  IF isVisible(rule, sandbox) /\ matchesResource(host, port, rule.resources)
      THEN [seen EXCEPT ![flag] = TRUE, ![ref] = rule.id]
      ELSE seen

\* The loop: what has been seen after the first n rules, up to the last.
scanRules(rules, host, port, sandbox) ==
  LET scanned[n \in 0..Len(rules)] ==
        IF n = 0 THEN NothingSeen
        ELSE scanRule(scanned[n - 1], rules[n], host, port, sandbox)
  IN  scanned[Len(rules)]

\* Mutant: a wildcard deny is tested before a wildcard allow.
decide_WildcardDenyFirst(seen) ==
  IF seen.exactAllow THEN [decision |-> "allow", id |-> seen.allowRuleID]
  ELSE IF seen.exactDeny \/ seen.wildcardDeny
       THEN [decision |-> "deny", id |-> seen.denyRuleID]
  ELSE IF seen.wildcardAllow THEN [decision |-> "allow", id |-> seen.allowRuleID]
  ELSE [decision |-> "deny", id |-> seen.denyRuleID]

\* exact allow > exact deny > wildcard allow > wildcard deny > deny
\* (defaultMode is "balanced" in every engine the code creates).  denyRuleID is
\* NoRule when no deny rule matched, which stands for "default-deny".
decide(seen) ==
  IF seen.exactAllow THEN [decision |-> "allow", id |-> seen.allowRuleID]
  ELSE IF seen.exactDeny THEN [decision |-> "deny", id |-> seen.denyRuleID]
  ELSE IF seen.wildcardAllow THEN [decision |-> "allow", id |-> seen.allowRuleID]
  ELSE [decision |-> "deny", id |-> seen.denyRuleID]

Evaluate(rules, host, port, sandbox) ==
  decide(scanRules(rules, host, port, sandbox))
=============================================================================
