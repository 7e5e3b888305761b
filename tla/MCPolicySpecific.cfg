SPECIFICATION Spec
CONSTANTS
  Label <- MCLabel
  Fold <- MCFold
  Port <- MCPort
  Host <- MCHost
  Sandbox = {"a", "b"}
  ResourceSets <- MCResourceSets
  RuleLists <- MCRuleLists
  MaxRules = 2
  MaxID = 3
INVARIANT SpecificBeatsGeneral
