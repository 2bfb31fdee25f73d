----------------------------- MODULE MCNodeLease -----------------------------
(* TLC instances of NodeLease.                                             *)
EXTENDS NodeLease, TLC

\* All sessions are runs of one node, one after the other or side by side.
SameNode == [s \in Session |-> CHOOSE n \in Node : TRUE]

Symmetry == Permutations(Session)

\* No action reads the last event.
View == <<now, node, members, lease, invalid, processVars>>
=============================================================================
