------------------------------- MODULE MCProxy -------------------------------
(* The instance of Proxy for TLC: without symmetry, since the run also checks *)
(* liveness.                                                                  *)
EXTENDS Proxy

CONSTANTS c1, c2
=============================================================================
