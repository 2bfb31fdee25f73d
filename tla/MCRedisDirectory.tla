-------------------------- MODULE MCRedisDirectory --------------------------
(* TLC instances of RedisDirectory.                                        *)
EXTENDS RedisDirectory, TLC

OneGroup == [n \in Node |-> "world"]

CONSTANTS router, owner

\* A router that resolves beside a process that allocates, gives up, moves and
\* recovers.
RouterAndOwner == (router :> {"resolve"})
                    @@ (owner :> {"allocate", "release", "transfer", "recover"})

\* A process that resolves, beside one that looks up and recovers.
RoutesAndRecovery == (router :> {"resolve"}) @@ (owner :> {"lookup", "recover"})

\* All names are interchangeable; the processes have roles.
Symmetry == Permutations(Node) \cup Permutations(Session)
              \cup Permutations(PlacementID)

\* No action reads the last event, so states that differ only in it are one.
View == <<now, node, members, lease, invalid, placementVars, reused, clientVars>>
=============================================================================
