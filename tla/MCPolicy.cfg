SPECIFICATION Spec
CONSTANTS
  Label <- MCLabel
  Fold <- MCFold
  Port <- MCPort
  Host <- MCHost
  Sandbox = {"a", "b"}
  ResourceSets <- MCResourceSets
  RuleLists <- MCRuleLists
  MaxRules = 3
  MaxID = 3
INVARIANTS TypeOK UniqueIDs IDsBelowNext DecisionFollowsPriority ReportedRuleDecided
PROPERTIES RemoveIsExact TighteningNeverOpens ScopeIsolation
