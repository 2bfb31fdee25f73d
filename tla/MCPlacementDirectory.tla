------------------------ MODULE MCPlacementDirectory ------------------------
(* TLC instances of PlacementDirectory.                                    *)
EXTENDS PlacementDirectory, TLC

\* All nodes in one group.
OneGroup == [n \in Node |-> "world"]

\* Names are interchangeable in every safety property; GroupOf must not tell
\* the nodes apart.
Symmetry == Permutations(Node) \cup Permutations(Session)
              \cup Permutations(PlacementID) \cup Permutations(Grain)

\* No action reads the last event and no property reads it unprimed.
View == <<now, node, members, lease, invalid, placementVars>>
=============================================================================
