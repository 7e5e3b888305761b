\* Two connections, with and without a limit.
SPECIFICATION FairSpec
CONSTANTS
  c1 = c1
  c2 = c2
  Conn = {c1, c2}
  Dest = {"d"}
  Limits = {0, 1}
INVARIANTS TypeOK ActiveCountExact AdmittedWithinLimit UpstreamOnlyIfAllowed OnlyHTTPLeavesSocketOpen
PROPERTIES DispatchSettles SlotReturned
CHECK_DEADLOCK FALSE
