-------------------------- MODULE MCMemoryDirectory --------------------------
(* TLC instances of MemoryDirectory.                                       *)
EXTENDS MemoryDirectory, TLC

OneGroup == [n \in Node |-> "world"]

Symmetry == Permutations(Node) \cup Permutations(Session)
              \cup Permutations(PlacementID) \cup Permutations(Thread)

\* What a handler can tell of an event on its way: states whose events differ
\* beyond this are one.  No action reads the event of the last step.
Seen(e) == CASE e.type \in PlacementEventTypes -> <<"grain", e.grain>>
             [] e.type \in NodeEvictingTypes   -> <<"node", e.node, e.type = "NodeLeaseExpired">>
             [] e.type = "NodeRestored"        -> <<"group", GroupOf[e.node]>>
             [] OTHER                          -> <<"other">>

InFlight(c) == IF c.pc = "publish" THEN <<"publish", {Seen(e) : e \in c.events}>> ELSE c

View == <<memoryVars, [t \in Thread |-> InFlight(call[t])], busVars>>
=============================================================================
