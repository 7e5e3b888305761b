\* The daemon and two sidecars, started one after the other.
SPECIFICATION Spec
CONSTANTS
  d = d
  s1 = s1
  s2 = s2
  h1 = h1
  Process = {d, s1, s2}
  Daemon = d
  Host = {h1}
  MaxCA = 4
  Overlap = FALSE
SYMMETRY Sidecars
CHECK_DEADLOCK FALSE
INVARIANTS TypeOK PairFits LeafTrusted
PROPERTY KeyIsFinal
