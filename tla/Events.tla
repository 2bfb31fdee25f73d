------------------------------- MODULE Events -------------------------------
(***************************************************************************)
(* The records the directory stores and announces, shared by every module: *)
(* placements (src/model.go) and domain events (src/event.go, appended by  *)
(* src/redis/lua/shared/event.lua).                                        *)
(***************************************************************************)
EXTENDS Integers

CONSTANTS Node,         \* node identities: NodeType/NodeGroup/NodeName
          Session,      \* NodeSessionIDs
          Grain,        \* GrainKeys
          PlacementID,  \* identifiers NewPlacementID may draw
          NoNode, NoSession, NoID  \* empty fields

ASSUME EventsAssumption == /\ NoNode \notin Node
                           /\ NoSession \notin Session
                           /\ NoID \notin PlacementID

\* The fields a decision depends on; timestamps are left out, because
\* identifier and version already tell two records of a grain apart, unless a
\* creation ran twice (RedisDirectory's Conflict says what then follows).
PlacementRecord == [id : PlacementID, node : Node, session : Session, version : Nat]

NoPlacement == [id |-> NoID, node |-> NoNode, session |-> NoSession, version |-> 0]

\* The lifetime of p under its next owner, session s of node n.
Succession(p, n, s) == [id |-> p.id, node |-> n, session |-> s, version |-> p.version + 1]

NodeEventTypes == {"NodeRegistered", "NodeReplaced", "NodeDraining",
                   "NodeMarkedInvalid", "NodeRestored", "NodeUnregistered",
                   "NodeLeaseExpired"}

PlacementEventTypes == {"PlacementCreated", "PlacementReleased",
                        "PlacementTransferred", "PlacementRecovered"}

NoEvent == [type |-> "none"]

NodeEvent(type, n) == [type |-> type, node |-> n]

PlacementEvent(type, g, p) ==
    [type |-> type, grain |-> g, id |-> p.id, node |-> p.node,
     session |-> p.session, version |-> p.version]

\* The node events on which a router drops its routes to that node ...
NodeEvictingTypes == {"NodeReplaced", "NodeLeaseExpired", "NodeDraining",
                      "NodeMarkedInvalid", "NodeUnregistered"}

\* ... and all events on which it drops a route of g to n.
Evicts(e, g, n) == \/ e.type \in PlacementEventTypes /\ e.grain = g
                   \/ e.type \in NodeEvictingTypes /\ e.node = n
=============================================================================
