\* Two requests at a time on one sandbox; every request ends.
SPECIFICATION FairSpec
CONSTANTS
  a = a
  b = b
  t1 = t1
  t2 = t2
  g1 = g1
  g2 = g2
  c1 = c1
  c2 = c2
  c3 = c3
  Name = {a}
  Thread = {t1, t2}
  Gen = {g1, g2}
  CID = {}
  proxyName <- Unrelated
  Faults = {"create", "save"}

CHECK_DEADLOCK FALSE
PROPERTY RequestsAnswered
