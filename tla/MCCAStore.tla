------------------------------ MODULE MCCAStore ------------------------------
(***************************************************************************)
(* The instance of CAStore that TLC checks: the daemon and two sidecars.   *)
(***************************************************************************)
EXTENDS CAStore, TLC

CONSTANTS d, s1, s2, h1

\* The sidecars are interchangeable.
Sidecars == Permutations(Process \ {Daemon})
=============================================================================
