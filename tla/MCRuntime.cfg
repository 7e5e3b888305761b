\* One request at a time, two sandboxes; Docker calls fail, the daemon
\* crashes and restarts.
SPECIFICATION Spec
CONSTANTS
  a = a
  b = b
  t1 = t1
  t2 = t2
  g1 = g1
  g2 = g2
  c1 = c1
  c2 = c2
  c3 = c3
  Name = {a, b}
  Thread = {t1}
  Gen = {g1}
  CID = {c1, c2, c3}
  proxyName <- Proxied
  Faults = {"create", "start", "stop", "inspect", "delete", "crash"}
SYMMETRY Containers
CHECK_DEADLOCK FALSE
INVARIANTS TypeOK AnswersHold SavedNames NoOrphans
PROPERTY RemovedByName
