------------------------------- MODULE Replica -------------------------------
(***************************************************************************)
(* What the daemon's propagation promises for one kind of data (the policy *)
(* rules, or the secrets).  The daemon goes through a sequence of values;  *)
(* each sidecar holds the value it booted with or, whole, one of those the *)
(* daemon has had.  If deliveries are ordered, a sidecar never goes back   *)
(* to an older value except by starting again.                             *)
(***************************************************************************)
EXTENDS Naturals, Sequences

CONSTANTS Node,      \* the sidecars
          Value,     \* what is replicated
          Boot,      \* the value a sidecar starts with
          Ordered    \* whether deliveries keep the order of the changes

VARIABLES log,       \* the values the daemon has had, oldest first
          copy,      \* the value each sidecar holds
          pos        \* which of them it is; 0 is Boot

vars == <<log, copy, pos>>

Init == /\ \E v \in Value : log = <<v>>
        /\ copy = [n \in Node |-> Boot]
        /\ pos = [n \in Node |-> 0]

\* One request may change the value several times.
Change == /\ \E v \in Value : log' = Append(log, v)
          /\ UNCHANGED <<copy, pos>>

Deliver(n) == \E i \in 1 .. Len(log) :
                /\ Ordered => i >= pos[n]
                /\ copy' = [copy EXCEPT ![n] = log[i]]
                /\ pos' = [pos EXCEPT ![n] = i]
                /\ UNCHANGED log

Reset(n) == /\ copy' = [copy EXCEPT ![n] = Boot]
            /\ pos' = [pos EXCEPT ![n] = 0]
            /\ UNCHANGED log

Next == Change \/ \E n \in Node : Deliver(n) \/ Reset(n)

Spec == Init /\ [][Next]_vars
=============================================================================
