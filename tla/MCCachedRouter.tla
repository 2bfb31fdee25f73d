--------------------------- MODULE MCCachedRouter ---------------------------
(* TLC instances of CachedRouter.                                          *)
EXTENDS CachedRouter, TLC

OneGroup == [n \in Node |-> "world"]

Symmetry == Permutations(Node) \cup Permutations(Session)
              \cup Permutations(PlacementID) \cup Permutations(Thread)

\* What HandleEvent and matchesSynchronousCreated can tell of an event: nothing
\* reads more of the stream, of lastEvent or of the directory's last event, so
\* states that differ only beyond this are one.
Seen(e) == CASE e.type = "PlacementCreated"   -> <<"created", e.grain, e.id, e.version>>
             [] e.type \in PlacementEventTypes \ {"PlacementCreated"} -> <<"grain", e.grain>>
             [] e.type \in NodeEvictingTypes  -> <<"node", e.node>>
             [] e.type = "NodeRestored"       -> <<"group", GroupOf[e.node]>>
             [] OTHER                         -> <<"other">>

View == <<now, serving, owner, spent, entries, byNode, degraded, epoch,
          IF lastEvent.type = "PlacementCreated" THEN Seen(lastEvent) ELSE <<"other">>,
          request, [i \in DOMAIN stream |-> Seen(stream[i])]>>
=============================================================================
