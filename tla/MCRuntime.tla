------------------------------ MODULE MCRuntime ------------------------------
EXTENDS Runtime, TLC

CONSTANTS a, b, t1, t2, g1, g2, c1, c2, c3

\* Two sandboxes with unrelated names, and one that is called like the other's
\* sidecar.
Unrelated == [n \in Name |-> Nil]
Proxied == [n \in Name |-> IF n = a THEN b ELSE Nil]

\* Containers are interchangeable until Docker hands them out.
Containers == Permutations(CID)

\* So are the goroutines that serve requests, and the sandbox names.
Threads == Permutations(Thread) \cup Containers
Names == Permutations(Name) \cup Containers
=============================================================================
