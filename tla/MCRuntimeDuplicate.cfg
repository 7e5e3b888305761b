\* Two creates of one name.
SPECIFICATION Spec
CONSTANTS
  a = a
  b = b
  t1 = t1
  t2 = t2
  g1 = g1
  g2 = g2
  c1 = c1
  c2 = c2
  c3 = c3
  Name = {a}
  Thread = {t1, t2}
  Gen = {g1, g2}
  CID = {c1}
  proxyName <- Unrelated
  Faults = {}

CHECK_DEADLOCK FALSE
INVARIANT DuplicateRefused
