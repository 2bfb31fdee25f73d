------------------------ MODULE MemoryDirectory_proofs ------------------------
(***************************************************************************)
(* What the in-memory directory keeps for any nodes, sessions, grains and  *)
(* goroutines.  The inductive invariant joins the types to the coherence   *)
(* of byNode: CompleteDrain asks the index, so that it leaves no placement *)
(* behind rests on the index, while most other promises rest on guards     *)
(* that hold in the critical section of the write.                         *)
(***************************************************************************)
EXTENDS MemoryDirectory, TLAPS

NodeRecord == [session : Session, status : {"active", "draining", "offline"}, expire : Nat]

\* A goroutine between the two halves of Allocate has chosen a node for a grain.
ChoiceOK(c) == c.pc = "chosen" => c.grain \in Grain /\ c.node \in Node

NodesOK == now \in Nat /\ node \in [Node -> NodeRecord \cup {Absent}]

CallsOK == /\ call = [t \in Thread |-> call[t]]
           /\ \A t \in Thread : ChoiceOK(call[t])

PlacementsOK == /\ placement \in [Grain -> PlacementRecord \cup {NoPlacement}]
                /\ byNode \in [Node -> SUBSET Grain]
                /\ ByNodeCoherent

MemoryInv == NodesOK /\ CallsOK /\ PlacementsOK

-----------------------------------------------------------------------------
(* What the steps amount to.                                               *)

LEMMA RecordOfExisting ==
    ASSUME MemoryInv, NEW n \in Node, Exists(n)
    PROVE  node[n] \in NodeRecord
  BY DEF MemoryInv, NodesOK, Exists, Absent

\* The owner of a placement is a node, and no placement is none.
LEMMA StoredPlacement ==
    ASSUME MemoryInv, NEW g \in Grain
    PROVE  /\ placement[g] # NoPlacement <=> placement[g] \in PlacementRecord
           /\ placement[g] # NoPlacement <=> placement[g].node \in Node
  <1>1. NoPlacement.node \notin Node
    BY EventsAssumption DEF NoPlacement
  <1>2. \A p \in PlacementRecord : p.node \in Node
    BY DEF PlacementRecord
  <1> QED BY <1>1, <1>2 DEF MemoryInv, PlacementsOK

\* A grain nobody owns is given to an available node ...
Claims(t, g) ==
    \E n \in Node, id \in PlacementID :
      placement[g] = NoPlacement /\ Available(n) /\ Create(t, g, id, n)

\* ... or changes its owner: to an available node, or to the session that has
\* come to the owner's node; without being asked to only when nobody may be
\* routed to the owner.
Moves(t, g) ==
    \E n \in Node, event \in {"PlacementTransferred", "PlacementRecovered"} :
      /\ placement[g] # NoPlacement
      /\ Serves(n) /\ ~leaseExpired(n, now)
      /\ n = placement[g].node \/ Available(n)
      /\ event = "PlacementRecovered" => ~Routeable(placement[g])
      /\ movePlacementLocked(t, g, n, event)

Gives(t, g) == \E cmd \in Command : Release(t, g, cmd)

\* No other step touches a placement.
LEMMA PlacementSteps ==
    ASSUME MemoryInv, NEW t \in Thread, PlacementStep(t)
    PROVE  \/ \E g \in Grain : Claims(t, g) \/ Moves(t, g) \/ Gives(t, g)
           \/ /\ UNCHANGED <<memoryVars, busVars>>
              /\ \E c : Becomes(t, c) /\ ChoiceOK(c)
  <1>1. ASSUME NEW id \in PlacementID, Allocate(t, id)
        PROVE  \E g \in Grain : Claims(t, g)
    <2>1. call[t].grain \in Grain /\ call[t].node \in Node
      BY <1>1 DEF Allocate, MemoryInv, CallsOK, ChoiceOK
    <2> QED BY <1>1, <2>1 DEF Allocate, StillChosen, Claims
  <1>2. ASSUME NEW g \in Grain, NEW group \in Group, NEW id \in PlacementID,
               ResolveRoute(t, g, group, id)
        PROVE  Claims(t, g) \/ Moves(t, g)
    <2>1. CASE placement[g] = NoPlacement
      BY <1>2, <2>1 DEF ResolveRoute, EffectiveNodes, Claims
    <2>2. CASE placement[g] # NoPlacement
      <3>1. placement[g].node \in Node
        BY <2>2, StoredPlacement
      <3>2. ASSUME NEW n \in EffectiveNodes(group)
            PROVE  n \in Node /\ Available(n) /\ Serves(n) /\ ~leaseExpired(n, now)
        BY DEF EffectiveNodes, Available, Serves
      <3> QED BY <1>2, <2>2, <3>1, <3>2 DEF ResolveRoute, Moves, Routeable
    <2> QED BY <2>1, <2>2
  <1>3. ASSUME NEW g \in Grain, NEW cmd \in Command, NEW target \in Node,
               \/ \E from \in Node \cup {NoNode} : Transfer(t, g, cmd, from, target)
               \/ Recover(t, g, cmd, target)
        PROVE  Moves(t, g)
    BY <1>3 DEF Transfer, Recover, Moves, Addressed, Available, Serves
  <1>4. ASSUME NEW g \in Grain, NEW cmd \in Command, Renew(t, g, cmd)
        PROVE  /\ UNCHANGED <<memoryVars, busVars>>
               /\ \E c : Becomes(t, c) /\ ChoiceOK(c)
    BY <1>4 DEF Renew, Publishes, ChoiceOK
  <1>5. ASSUME NEW g \in Grain, NEW n \in Node, Choose(t, g, n)
        PROVE  /\ UNCHANGED <<memoryVars, busVars>>
               /\ \E c : Becomes(t, c) /\ ChoiceOK(c)
    BY <1>5 DEF Choose, ChoiceOK
  <1> QED BY <1>1, <1>2, <1>3, <1>4, <1>5 DEF PlacementStep, Gives

\* A step of the registry changes node records and what its goroutine carries.
LEMMA NodeSteps ==
    ASSUME MemoryInv, NEW t \in Thread, NodeStep(t)
    PROVE  /\ UNCHANGED <<now, placement, byNode, spent, busVars>>
           /\ UNCHANGED call \/ \E events : Publishes(t, events)
           /\ node' \in [Node -> NodeRecord \cup {Absent}]
  <1> USE DEF MemoryInv, NodesOK
  <1>1. ASSUME NEW n \in Node, NEW s \in Session, NEW at \in 0 .. now, NEW event,
               Install(t, n, s, at, event)
        PROVE  node' \in [Node -> NodeRecord \cup {Absent}]
    <2>1. Fresh(s, at) \in NodeRecord
      BY MemoryAssumption DEF Fresh, NodeRecord
    <2> QED BY <1>1, <2>1 DEF Install
  <1>2. ASSUME NEW n \in Node, NEW s \in Session, NEW at \in 0 .. now, RenewNode(t, n, s, at)
        PROVE  node' \in [Node -> NodeRecord \cup {Absent}]
    <2>1. node[n] \in NodeRecord
      BY <1>2, RecordOfExisting DEF RenewNode, Serves, Exists
    <2>2. RenewedExpiry(n, at) \in Nat
      BY <2>1, MemoryAssumption DEF RenewedExpiry, NodeRecord
    <2>3. [node[n] EXCEPT !.expire = RenewedExpiry(n, at)] \in NodeRecord
      BY <2>1, <2>2 DEF NodeRecord
    <2>4. node' = [node EXCEPT ![n] = [node[n] EXCEPT !.expire = RenewedExpiry(n, at)]]
      BY <1>2 DEF RenewNode
    <2> QED BY <2>3, <2>4
  <1>3. ASSUME NEW at \in 0 .. now, ExpireNodeLeases(t, at)
        PROVE  node' \in [Node -> NodeRecord \cup {Absent}]
    <2>1. PICK due \in SUBSET Due(at) :
            node' = [n \in Node |-> IF n \in due THEN [node[n] EXCEPT !.status = "offline"]
                                    ELSE node[n]]
      BY <1>3 DEF ExpireNodeLeases
    <2>2. ASSUME NEW n \in due
          PROVE  [node[n] EXCEPT !.status = "offline"] \in NodeRecord
      <3>1. n \in Node /\ node[n] \in NodeRecord
        BY RecordOfExisting DEF Due, Serves, Exists
      <3> QED BY <3>1 DEF NodeRecord
    <2> QED BY <2>1, <2>2
  <1>4. ASSUME NEW n \in Node, NEW s \in Session, Remove(t, n, s)
        PROVE  node' \in [Node -> NodeRecord \cup {Absent}]
    BY <1>4 DEF Remove
  <1>5. ASSUME NEW n \in Node, DrainNode(t, n)
        PROVE  node' \in [Node -> NodeRecord \cup {Absent}]
    <2>1. node[n] \in NodeRecord
      BY <1>5, RecordOfExisting DEF DrainNode, Serves, Exists
    <2>2. [node[n] EXCEPT !.status = "draining"] \in NodeRecord
      BY <2>1 DEF NodeRecord
    <2>3. node' = [node EXCEPT ![n] = [node[n] EXCEPT !.status = "draining"]]
      BY <1>5 DEF DrainNode
    <2> QED BY <2>2, <2>3
  <1>6. /\ UNCHANGED <<now, placement, byNode, spent, busVars>>
        /\ UNCHANGED call \/ \E events : Publishes(t, events)
    BY DEF NodeStep, RegistryOnly, RegisterNode, ReplaceNodeSession, Install, RenewNode,
           ExpireNodeLeases, UnregisterNode, CompleteDrain, Remove, DrainNode,
           MarkNodeInvalid, RestoreNode
  <1>7. node' \in [Node -> NodeRecord \cup {Absent}]
    BY <1>1, <1>2, <1>3, <1>4, <1>5
    DEF NodeStep, RegisterNode, ReplaceNodeSession, UnregisterNode, CompleteDrain,
        MarkNodeInvalid, RestoreNode
  <1> QED BY <1>6, <1>7

-----------------------------------------------------------------------------
(* The invariant.                                                          *)

LEMMA BecomesKeepsCalls ==
    ASSUME CallsOK, NEW t \in Thread, NEW c, ChoiceOK(c), Becomes(t, c)
    PROVE  CallsOK'
  BY DEF CallsOK, ChoiceOK, Becomes

LEMMA PublishesKeepsCalls ==
    ASSUME CallsOK, NEW t \in Thread, NEW events, Publishes(t, events)
    PROVE  CallsOK'
  <1>1. ChoiceOK([pc |-> "publish", events |-> events])
    BY DEF ChoiceOK
  <1> QED BY <1>1, BecomesKeepsCalls DEF Publishes

\* A placement stored in both maps.
LEMMA StoreKeepsPlacements ==
    ASSUME PlacementsOK, NEW t \in Thread, NEW g \in Grain, NEW p \in PlacementRecord,
           NEW event, Store(t, g, p, event)
    PROVE  PlacementsOK'
  <1>1. p.node \in Node
    BY DEF PlacementRecord
  <1>2. /\ placement' = [placement EXCEPT ![g] = p]
        /\ byNode' = [n \in Node |-> IF n = p.node THEN byNode[n] \cup {g}
                                     ELSE byNode[n] \ {g}]
    BY DEF Store
  <1>3. ByNodeCoherent'
    BY <1>1, <1>2 DEF PlacementsOK, ByNodeCoherent
  <1> QED BY <1>2, <1>3 DEF PlacementsOK

LEMMA ClaimKeepsInv ==
    ASSUME MemoryInv, NEW t \in Thread, NEW g \in Grain, Claims(t, g)
    PROVE  MemoryInv'
  <1>1. PICK n \in Node, id \in PlacementID : Available(n) /\ Create(t, g, id, n)
    BY DEF Claims
  <1> DEFINE p == [id |-> id, node |-> n, session |-> node[n].session, version |-> 1]
  <1>2. node[n] \in NodeRecord
    BY <1>1, RecordOfExisting DEF Available, Exists
  <1>3. p \in PlacementRecord
    BY <1>2 DEF NodeRecord, PlacementRecord
  <1>4. Store(t, g, p, "PlacementCreated")
    BY <1>1 DEF Create
  <1>5. PlacementsOK'
    BY <1>3, <1>4, StoreKeepsPlacements DEF MemoryInv
  <1>6. CallsOK'
    BY <1>4, PublishesKeepsCalls DEF Store, MemoryInv
  <1>7. NodesOK'
    BY <1>4 DEF Store, DirectoryOnly, MemoryInv, NodesOK
  <1> QED BY <1>5, <1>6, <1>7 DEF MemoryInv

LEMMA MoveKeepsInv ==
    ASSUME MemoryInv, NEW t \in Thread, NEW g \in Grain, Moves(t, g)
    PROVE  MemoryInv'
  <1>1. PICK n \in Node, event \in {"PlacementTransferred", "PlacementRecovered"} :
          /\ placement[g] # NoPlacement /\ Serves(n)
          /\ movePlacementLocked(t, g, n, event)
    BY DEF Moves
  <1> DEFINE p == Succession(placement[g], n, node[n].session)
  <1>2. node[n] \in NodeRecord
    BY <1>1, RecordOfExisting DEF Serves, Exists
  <1>3. p \in PlacementRecord
    BY <1>1, <1>2, StoredPlacement DEF NodeRecord, PlacementRecord, Succession
  <1>4. Store(t, g, p, event)
    BY <1>1 DEF movePlacementLocked
  <1>5. PlacementsOK'
    BY <1>3, <1>4, StoreKeepsPlacements DEF MemoryInv
  <1>6. CallsOK'
    BY <1>4, PublishesKeepsCalls DEF Store, MemoryInv
  <1>7. NodesOK'
    BY <1>4 DEF Store, DirectoryOnly, MemoryInv, NodesOK
  <1> QED BY <1>5, <1>6, <1>7 DEF MemoryInv

LEMMA GiveKeepsInv ==
    ASSUME MemoryInv, NEW t \in Thread, NEW g \in Grain, Gives(t, g)
    PROVE  MemoryInv'
  <1>1. PICK cmd \in Command : Release(t, g, cmd)
    BY DEF Gives
  <1>2. cmd.node \in Node /\ placement[g].node = cmd.node
    BY <1>1 DEF Command, Release, ByOwner
  <1>3. /\ placement' = [placement EXCEPT ![g] = NoPlacement]
        /\ byNode' = [byNode EXCEPT ![cmd.node] = @ \ {g}]
    BY <1>1 DEF Release
  <1>4. ByNodeCoherent'
    <2>1. NoPlacement.node \notin Node
      BY EventsAssumption DEF NoPlacement
    <2> QED BY <1>2, <1>3, <2>1 DEF MemoryInv, PlacementsOK, ByNodeCoherent
  <1>5. PlacementsOK'
    BY <1>3, <1>4 DEF MemoryInv, PlacementsOK
  <1>6. CallsOK'
    BY <1>1, PublishesKeepsCalls DEF Release, MemoryInv
  <1>7. NodesOK'
    BY <1>1 DEF Release, DirectoryOnly, MemoryInv, NodesOK
  <1> QED BY <1>5, <1>6, <1>7 DEF MemoryInv

LEMMA MemoryInvInit == MemoryInit => MemoryInv
  <1> SUFFICES ASSUME MemoryInit PROVE MemoryInv
    OBVIOUS
  <1>1. NodesOK
    BY DEF MemoryInit, NodesOK
  <1>2. CallsOK
    BY DEF MemoryInit, CallsOK, ChoiceOK, Idle
  <1>3. PlacementsOK
    <2>1. NoPlacement.node \notin Node
      BY EventsAssumption DEF NoPlacement
    <2> QED BY <2>1 DEF MemoryInit, PlacementsOK, ByNodeCoherent
  <1> QED BY <1>1, <1>2, <1>3 DEF MemoryInv

\* What is neither the registry's nor a placement's: the clock, the bus and the
\* router.
OtherStep ==
    \/ Tick
    \/ \E g \in Grain : CacheRoute(g)
    \/ \E t \in Thread : Return(t) \/ Publish(t) \/ PublishFails(t)

LEMMA OtherSteps ==
    ASSUME MemoryInv, OtherStep
    PROVE  MemoryInv' /\ UNCHANGED <<node, invalid, placement, byNode, spent>>
  <1>1. UNCHANGED <<node, invalid, placement, byNode, spent>> /\ now' \in Nat
    BY DEF OtherStep, Tick, CacheRoute, Return, Publish, PublishFails, memoryVars,
           MemoryInv, NodesOK
  <1>2. CallsOK'
    <2>1. CASE UNCHANGED call
      BY <2>1 DEF MemoryInv, CallsOK, ChoiceOK
    <2>2. ASSUME NEW t \in Thread, Return(t) \/ Publish(t) \/ PublishFails(t)
          PROVE  CallsOK'
      <3>1. ChoiceOK(Idle)
        BY DEF ChoiceOK, Idle
      <3> QED BY <2>2, <3>1, BecomesKeepsCalls, PublishesKeepsCalls
              DEF Return, Publish, PublishFails, MemoryInv
    <2> QED BY <2>1, <2>2 DEF OtherStep, Tick, CacheRoute
  <1>3. NodesOK' /\ PlacementsOK'
    BY <1>1 DEF MemoryInv, NodesOK, PlacementsOK, ByNodeCoherent
  <1> QED BY <1>1, <1>2, <1>3 DEF MemoryInv

LEMMA MemoryInvNext == MemoryInv /\ [MemoryNext]_allVars => MemoryInv'
  <1> SUFFICES ASSUME MemoryInv, [MemoryNext]_allVars PROVE MemoryInv'
    OBVIOUS
  <1>1. ASSUME NEW t \in Thread, NodeStep(t)
        PROVE  MemoryInv'
    <2>1. NodesOK' /\ PlacementsOK'
      BY <1>1, NodeSteps DEF MemoryInv, NodesOK, PlacementsOK, ByNodeCoherent
    <2>2. CallsOK'
      <3>1. CASE UNCHANGED call
        BY <3>1 DEF MemoryInv, CallsOK, ChoiceOK
      <3> QED BY <1>1, <3>1, NodeSteps, PublishesKeepsCalls DEF MemoryInv
    <2> QED BY <2>1, <2>2 DEF MemoryInv
  <1>2. ASSUME NEW t \in Thread, PlacementStep(t)
        PROVE  MemoryInv'
    <2>1. CASE /\ UNCHANGED <<memoryVars, busVars>>
               /\ \E c : Becomes(t, c) /\ ChoiceOK(c)
      <3>1. CallsOK'
        BY <2>1, BecomesKeepsCalls DEF MemoryInv
      <3>2. NodesOK' /\ PlacementsOK'
        BY <2>1 DEF memoryVars, MemoryInv, NodesOK, PlacementsOK, ByNodeCoherent
      <3> QED BY <3>1, <3>2 DEF MemoryInv
    <2> QED BY <1>2, <2>1, PlacementSteps, ClaimKeepsInv, MoveKeepsInv, GiveKeepsInv
  <1>3. CASE OtherStep
    BY <1>3, OtherSteps
  <1>4. CASE UNCHANGED allVars
    BY <1>4 DEF allVars, memoryVars, MemoryInv, NodesOK, CallsOK, ChoiceOK, PlacementsOK,
                ByNodeCoherent
  <1> QED BY <1>1, <1>2, <1>3, <1>4 DEF MemoryNext, OtherStep

THEOREM MemoryInvariance == MemorySpec => []MemoryInv
  BY MemoryInvInit, MemoryInvNext, PTL DEF MemorySpec

-----------------------------------------------------------------------------
\* byNode, the only place CompleteDrain and FindByNode look at (directory.go),
\* lists exactly the placements of each node.
THEOREM MemoryIndexCoherence == MemorySpec => []ByNodeCoherent
  <1>1. MemoryInv => ByNodeCoherent
    BY DEF MemoryInv, PlacementsOK
  <1> QED BY <1>1, MemoryInvariance, PTL

-----------------------------------------------------------------------------
(* Steps.                                                                  *)

\* A change of owner seen from a grain: it gets an owner, another one or none.
LEMMA OwnerChanges ==
    ASSUME MemoryInv, [MemoryNext]_allVars
    PROVE  \/ UNCHANGED placement
           \/ \E t \in Thread, g \in Grain : Claims(t, g) \/ Moves(t, g) \/ Gives(t, g)
  <1>1. ASSUME NEW t \in Thread, PlacementStep(t)
        PROVE  \/ UNCHANGED placement
               \/ \E g \in Grain : Claims(t, g) \/ Moves(t, g) \/ Gives(t, g)
    BY <1>1, PlacementSteps DEF memoryVars
  <1> QED BY <1>1, NodeSteps, OtherSteps DEF MemoryNext, OtherStep, allVars, memoryVars

\* The guards of the write keep a grain off a node that is on its way out.
LEMMA MoverIsFit ==
    ASSUME MemoryInv, NEW t \in Thread, NEW h \in Grain,
           Claims(t, h) \/ Moves(t, h) \/ Gives(t, h),
           NEW n \in Node, n \in invalid \/ node[n].status = "draining",
           NEW g \in Grain, placement'[g].node = n
    PROVE  placement[g].node = n
  <1>1. ~Available(n)
    BY DEF Available
  <1>2. ASSUME NEW p, placement' = [placement EXCEPT ![h] = p],
               p.node # n \/ placement[h].node = n
        PROVE  placement[g].node = n
    BY <1>2 DEF MemoryInv, PlacementsOK
  <1>3. CASE Claims(t, h)
    BY <1>1, <1>2, <1>3 DEF Claims, Create, Store
  <1>4. CASE Moves(t, h)
    <2>1. PICK m \in Node :
            /\ m = placement[h].node \/ Available(m)
            /\ placement' = [placement EXCEPT ![h] =
                               Succession(placement[h], m, node[m].session)]
      BY <1>4 DEF Moves, movePlacementLocked, Store
    <2>2. Succession(placement[h], m, node[m].session).node = m
      BY DEF Succession
    <2> QED BY <1>1, <1>2, <2>1, <2>2
  <1>5. CASE Gives(t, h)
    <2>1. placement' = [placement EXCEPT ![h] = NoPlacement]
      BY <1>5 DEF Gives, Release
    <2>2. NoPlacement.node # n
      BY EventsAssumption DEF NoPlacement
    <2> QED BY <1>2, <2>1, <2>2
  <1> QED BY <1>3, <1>4, <1>5

\* A node that is draining or marked invalid gains no grain, by any operation
\* (the second half of Allocate asks again what the first half saw).
THEOREM UnfitNodesOnlyShrinkInMemory == MemorySpec => UnfitNodeOnlyShrinks
  <1>1. MemoryInv /\ [MemoryNext]_allVars
          => [\A n \in Node :
                (n \in invalid \/ node[n].status = "draining")
                  => \A g \in Grain : placement'[g].node = n => placement[g].node = n]_allVars
    BY OwnerChanges, MoverIsFit
  <1> QED BY <1>1, MemoryInvariance, PTL DEF MemorySpec, UnfitNodeOnlyShrinks

\* A drain that completes finds no placement on its node, although it asks only
\* the index (CompleteDrain).
THEOREM MemoryDrainsAreComplete == MemorySpec => DrainLeavesNothing
  <1>1. MemoryInv /\ [MemoryNext]_allVars
          => [\A t \in Thread, n \in Node, s \in Session :
                CompleteDrain(t, n, s) => \A g \in Grain : placement[g].node # n]_allVars
    BY DEF MemoryInv, PlacementsOK, ByNodeCoherent, CompleteDrain
  <1> QED BY <1>1, MemoryInvariance, PTL DEF MemorySpec, DrainLeavesNothing

-----------------------------------------------------------------------------
(* Leases.                                                                 *)

Kept(n) ==
    (Serves(n) /\ node'[n].session = node[n].session)
      => IF node'[n].status = "offline" THEN node[n].expire <= now
         ELSE node'[n].expire >= node[n].expire

LEMMA NodeStepKeepsLease ==
    ASSUME MemoryInv, NEW t \in Thread, NodeStep(t), NEW n \in Node
    PROVE  Kept(n)
  <1> USE DEF MemoryInv, NodesOK
  <1>1. ASSUME node'[n] = node[n]
        PROVE  Kept(n)
    <2>1. Serves(n) => node[n].expire \in Nat
      BY RecordOfExisting DEF Serves, Exists, NodeRecord
    <2> QED BY <1>1, <2>1 DEF Kept, Serves
  <1>2. ASSUME NEW m \in Node, NEW r, node' = [node EXCEPT ![m] = r], m # n
        PROVE  Kept(n)
    BY <1>1, <1>2
  <1>3. ASSUME NEW s \in Session, NEW at \in 0 .. now, NEW event,
               Install(t, n, s, at, event), ~Exists(n) \/ node[n].session # s
        PROVE  Kept(n)
    <2>1. node'[n].session = s
      BY <1>3 DEF Install, Fresh
    <2> QED BY <1>3, <2>1 DEF Kept, Serves, Exists
  <1>4. ASSUME NEW s \in Session, NEW at \in 0 .. now, RenewNode(t, n, s, at)
        PROVE  Kept(n)
    <2>1. node[n] \in NodeRecord /\ node[n].status # "offline"
      BY <1>4, RecordOfExisting DEF RenewNode, Serves, Exists
    <2>2. RenewedExpiry(n, at) >= node[n].expire
      BY <2>1, MemoryAssumption DEF RenewedExpiry, NodeRecord
    <2>3. node'[n] = [node[n] EXCEPT !.expire = RenewedExpiry(n, at)]
      BY <1>4 DEF RenewNode
    <2>4. node'[n].status = node[n].status /\ node'[n].expire = RenewedExpiry(n, at)
      BY <2>1, <2>3 DEF NodeRecord
    <2> QED BY <2>1, <2>2, <2>4 DEF Kept
  <1>5. ASSUME NEW at \in 0 .. now, ExpireNodeLeases(t, at)
        PROVE  Kept(n)
    <2>1. PICK due \in SUBSET Due(at) :
            node' = [m \in Node |-> IF m \in due THEN [node[m] EXCEPT !.status = "offline"]
                                    ELSE node[m]]
      BY <1>5 DEF ExpireNodeLeases
    <2>2. CASE n \in due
      <3>1. node[n] \in NodeRecord /\ at >= node[n].expire
        BY <2>2, RecordOfExisting DEF Due, leaseExpired, Serves, Exists
      <3>2. node'[n].status = "offline"
        BY <2>1, <2>2, <3>1 DEF NodeRecord
      <3> QED BY <3>1, <3>2 DEF Kept, NodeRecord
    <2> QED BY <1>1, <2>1, <2>2
  <1>6. ASSUME NEW s \in Session, Remove(t, n, s)
        PROVE  Kept(n)
    <2>1. node'[n].session = NoSession /\ node[n].session = s
      BY <1>6 DEF Remove, Absent
    <2> QED BY <2>1, EventsAssumption DEF Kept
  <1>7. ASSUME DrainNode(t, n)
        PROVE  Kept(n)
    <2>1. node[n] \in NodeRecord
      BY <1>7, RecordOfExisting DEF DrainNode, Serves, Exists
    <2>2. node'[n].status = "draining" /\ node'[n].expire = node[n].expire
      BY <1>7, <2>1 DEF DrainNode, NodeRecord
    <2> QED BY <2>1, <2>2 DEF Kept, NodeRecord
  <1>8. ASSUME node' = node
        PROVE  Kept(n)
    BY <1>1, <1>8
  <1> QED
    BY <1>2, <1>3, <1>4, <1>5, <1>6, <1>7, <1>8
    DEF NodeStep, RegisterNode, ReplaceNodeSession, Install, RenewNode, UnregisterNode,
        CompleteDrain, Remove, DrainNode, MarkNodeInvalid, RestoreNode

\* Clock readings of any age neither shorten the lease of a session nor end it
\* early (RenewNode and ExpireNodeLeases of node_registry.go).
THEOREM SessionsKeepTheirLease == MemorySpec => SessionKeepsItsLease
  <1>1. ASSUME MemoryInv, [MemoryNext]_allVars, NEW n \in Node
        PROVE  Kept(n)
    <2>1. CASE node' = node
      <3>1. Serves(n) => node[n].expire \in Nat
        BY <1>1, RecordOfExisting DEF Serves, Exists, NodeRecord
      <3> QED BY <2>1, <3>1 DEF Kept, Serves
    <2>2. ASSUME NEW t \in Thread, PlacementStep(t)
          PROVE  node' = node
      <3>1. ASSUME NEW g \in Grain, Claims(t, g) \/ Moves(t, g)
            PROVE  node' = node
        BY <3>1 DEF Claims, Moves, Create, movePlacementLocked, Store, DirectoryOnly
      <3>2. ASSUME NEW g \in Grain, Gives(t, g)
            PROVE  node' = node
        BY <3>2 DEF Gives, Release, DirectoryOnly
      <3> QED BY <1>1, <2>2, <3>1, <3>2, PlacementSteps DEF memoryVars
    <2>3. CASE OtherStep \/ UNCHANGED allVars
      BY <1>1, <2>1, <2>3, OtherSteps DEF allVars, memoryVars
    <2>4. ASSUME NEW t \in Thread, NodeStep(t)
          PROVE  Kept(n)
      BY <1>1, <2>4, NodeStepKeepsLease
    <2> QED BY <1>1, <2>1, <2>2, <2>3, <2>4 DEF MemoryNext, OtherStep
  <1>2. MemoryInv /\ [MemoryNext]_allVars
          => [\A n \in Node :
                (Serves(n) /\ node'[n].session = node[n].session)
                  => IF node'[n].status = "offline" THEN node[n].expire <= now
                     ELSE node'[n].expire >= node[n].expire]_allVars
    BY <1>1 DEF Kept
  <1> QED BY <1>2, MemoryInvariance, PTL DEF MemorySpec, SessionKeepsItsLease

-----------------------------------------------------------------------------
(* The contract.                                                           *)

\* The events and records of the contract are those of the directory.
LEMMA SameVocabulary ==
    /\ \A type, g, p : Contract!PlacementEvent(type, g, p) = PlacementEvent(type, g, p)
    /\ \A p, n, s : Contract!Succession(p, n, s) = Succession(p, n, s)
    /\ Contract!NoPlacement = NoPlacement
  BY DEF Contract!PlacementEvent, PlacementEvent, Contract!Succession, Succession,
         Contract!NoPlacement, NoPlacement

\* What the mapping makes of one node.
LEMMA ServingOf ==
    ASSUME NEW n \in Node
    PROVE  Serving[n] = IF Serves(n)
                        THEN [session |-> node[n].session, deadline |-> node[n].expire]
                        ELSE [session |-> NoSession, deadline |-> 0]
  BY DEF Serving, Serves

\* A node whose lease has not run out is alive, and served by its session.
LEMMA ServingIsAlive ==
    ASSUME MemoryInv, NEW n \in Node, Serves(n), ~leaseExpired(n, now)
    PROVE  Contract!Alive(n) /\ Serving[n].session = node[n].session
  <1>1. node[n] \in NodeRecord
    BY RecordOfExisting DEF Serves, Exists
  <1>2. Serving[n] = [session |-> node[n].session, deadline |-> node[n].expire]
    BY ServingOf
  <1>3. Serving[n] # Contract!Vacant
    <2>1. Contract!Vacant.session = NoSession /\ node[n].session \in Session
      BY <1>1 DEF Contract!Vacant, NodeRecord
    <2> QED BY <1>2, <2>1, EventsAssumption
  <1>4. node[n].expire > now
    BY <1>1 DEF leaseExpired, MemoryInv, NodesOK, NodeRecord
  <1> QED BY <1>2, <1>3, <1>4 DEF Contract!Alive

\* Whom the contract trusts may be routed to.
LEMMA TrustedIsRouteable ==
    ASSUME MemoryInv, NEW g \in Grain, Contract!Trusted(placement[g])
    PROVE  Routeable(placement[g])
  <1> DEFINE n == placement[g].node
  <1>1. placement[g] # NoPlacement /\ n \in Node
    BY StoredPlacement, SameVocabulary DEF Contract!Trusted
  <1>2. Serves(n)
    <2>1. ~Serves(n) => Serving[n] = [session |-> NoSession, deadline |-> 0]
      BY <1>1, ServingOf
    <2> QED BY <2>1 DEF Contract!Trusted, Contract!Alive, Contract!Vacant
  <1>3. Serving[n] = [session |-> node[n].session, deadline |-> node[n].expire]
    BY <1>1, <1>2, ServingOf
  <1>4. node[n].session = placement[g].session /\ node[n].expire > now
    BY <1>3 DEF Contract!Trusted, Contract!Alive
  <1>5. node[n].expire \in Nat /\ now \in Nat
    BY <1>1, <1>2, RecordOfExisting DEF Serves, Exists, NodeRecord, MemoryInv, NodesOK
  <1> QED BY <1>1, <1>2, <1>4, <1>5 DEF Routeable, leaseExpired

LEMMA ServingKept ==
    ASSUME node' = node
    PROVE  Serving' = Serving
  BY DEF Serving, Serves

LEMMA ClaimKeepsContract ==
    ASSUME MemoryInv, NEW t \in Thread, NEW g \in Grain, Claims(t, g)
    PROVE  Contract!OwnerNext
  <1>1. PICK n \in Node, id \in PlacementID :
          placement[g] = NoPlacement /\ Available(n) /\ Create(t, g, id, n)
    BY DEF Claims
  <1> DEFINE p == [id |-> id, node |-> n, session |-> node[n].session, version |-> 1]
  <1>2. /\ placement' = [placement EXCEPT ![g] = p]
        /\ emitted' = PlacementEvent("PlacementCreated", g, p)
        /\ node' = node /\ now' = now
        /\ id \in PlacementID \ spent /\ spent' = spent \cup {id}
    BY <1>1 DEF Create, Store, DirectoryOnly
  <1>3. Contract!Alive(n) /\ Serving[n].session = node[n].session
    BY <1>1, ServingIsAlive DEF Available, Serves
  <1>4. Contract!Claim(g, id, n)
    BY <1>1, <1>2, <1>3, ServingKept, SameVocabulary DEF Contract!Claim, Contract!Becomes
  <1> QED BY <1>4 DEF Contract!OwnerNext

LEMMA MoveKeepsContract ==
    ASSUME MemoryInv, NEW t \in Thread, NEW g \in Grain, Moves(t, g)
    PROVE  Contract!OwnerNext
  <1>1. PICK n \in Node, event \in {"PlacementTransferred", "PlacementRecovered"} :
          /\ placement[g] # NoPlacement
          /\ Serves(n) /\ ~leaseExpired(n, now)
          /\ event = "PlacementRecovered" => ~Routeable(placement[g])
          /\ movePlacementLocked(t, g, n, event)
    BY DEF Moves
  <1> DEFINE p == Succession(placement[g], n, node[n].session)
  <1>2. /\ placement' = [placement EXCEPT ![g] = p]
        /\ emitted' = PlacementEvent(event, g, p)
        /\ UNCHANGED <<node, now, spent>>
    BY <1>1 DEF movePlacementLocked, Store, DirectoryOnly
  <1>3. Contract!Alive(n) /\ Serving[n].session = node[n].session
    BY <1>1, ServingIsAlive
  <1>4. Contract!Succeed(g, n, event)
    BY <1>1, <1>2, <1>3, ServingKept, SameVocabulary DEF Contract!Succeed, Contract!Becomes
  <1>5. CASE event = "PlacementTransferred"
    BY <1>4, <1>5 DEF Contract!HandOver, Contract!OwnerNext
  <1>6. CASE event = "PlacementRecovered"
    <2>1. Contract!TakeOver(g, n)
      BY <1>1, <1>4, <1>6, TrustedIsRouteable DEF Contract!TakeOver
    <2> QED BY <2>1 DEF Contract!OwnerNext
  <1> QED BY <1>5, <1>6

LEMMA GiveKeepsContract ==
    ASSUME MemoryInv, NEW t \in Thread, NEW g \in Grain, Gives(t, g)
    PROVE  Contract!OwnerNext
  <1>1. /\ placement[g] # NoPlacement
        /\ placement' = [placement EXCEPT ![g] = NoPlacement]
        /\ emitted' = PlacementEvent("PlacementReleased", g,
                                     [placement[g] EXCEPT !.version = @ + 1])
        /\ UNCHANGED <<node, now, spent>>
    BY DEF Gives, Release, Addressed, DirectoryOnly
  <1>2. Contract!GiveBack(g)
    BY <1>1, ServingKept, SameVocabulary DEF Contract!GiveBack
  <1> QED BY <1>2 DEF Contract!OwnerNext

\* Whatever goroutines do, owners change only as rules 1, 3, 4 and 8 of
\* docs/ontology.md allow - the contract that the Redis scripts implement too.
THEOREM MemoryKeepsOwnersPromise == MemorySpec => OwnersPromise
  <1>1. MemoryInv /\ [MemoryNext]_allVars
          => [placement' # placement => Contract!OwnerNext]_allVars
    BY OwnerChanges, ClaimKeepsContract, MoveKeepsContract, GiveKeepsContract
  <1> QED BY <1>1, MemoryInvariance, PTL DEF MemorySpec, OwnersPromise

-----------------------------------------------------------------------------
(* Cached routes.                                                          *)

\* The route agrees with the directory and ends no later than the lease ...
Current(g) ==
    LET p == routes[g].p IN
    /\ placement[g] = p
    /\ node[p.node].session = p.session /\ Serves(p.node)
    /\ routes[g].until <= node[p.node].expire

\* ... or an event that drops it is under way, and not one of an expired lease:
\* such an event is late anyway, since the route has ended with the lease.
Pending(g) ==
    \E t \in Thread :
      /\ call[t].pc = "publish"
      /\ \E e \in call[t].events : e.type # "NodeLeaseExpired" /\ Drops(e, g)

Accounted(g) == Usable(routes[g]) => Current(g) \/ Pending(g) \/ g \in missed

Routes == {NoRoute} \cup [p : PlacementRecord, until : Nat]

RoutesInv == /\ routes \in [Grain -> Routes]
             /\ \A g \in Grain : Accounted(g)

\* The owner of a route in the cache is a node.
LEMMA RouteOwner ==
    ASSUME RoutesInv, NEW g \in Grain, routes[g] # NoRoute
    PROVE  routes[g].p \in PlacementRecord /\ routes[g].p.node \in Node /\ routes[g].until \in Nat
  BY DEF RoutesInv, Routes, PlacementRecord

\* Only a goroutine that has nothing to publish begins an operation.
LEMMA StarterIsFree ==
    ASSUME NEW t \in Thread, NodeStep(t) \/ PlacementStep(t)
    PROVE  call[t].pc # "publish"
  <1>1. Idle.pc # "publish"
    BY DEF Idle
  <1> QED
    BY <1>1
    DEF NodeStep, PlacementStep, RegisterNode, ReplaceNodeSession, Install, RenewNode,
        ExpireNodeLeases, UnregisterNode, CompleteDrain, Remove, DrainNode,
        MarkNodeInvalid, RestoreNode, Allocate, Choose, ResolveRoute, Create,
        movePlacementLocked, Release, Renew, Transfer, Recover

\* What was under way stays so while other goroutines go on.
LEMMA PendingStays ==
    ASSUME CallsOK, NEW t \in Thread, call[t].pc # "publish",
           UNCHANGED call \/ \E c : Becomes(t, c), UNCHANGED routes,
           NEW g \in Grain, Pending(g)
    PROVE  Pending(g)'
  <1>1. PICK u \in Thread :
          /\ call[u].pc = "publish"
          /\ \E e \in call[u].events : e.type # "NodeLeaseExpired" /\ Drops(e, g)
    BY DEF Pending
  <1>2. call'[u] = call[u]
    BY <1>1 DEF CallsOK, Becomes
  <1>3. \A e : Drops(e, g)' <=> Drops(e, g)
    BY DEF Drops
  <1> QED BY <1>1, <1>2, <1>3 DEF Pending

\* An event that is about to be published is under way.
LEMMA PublishedIsPending ==
    ASSUME CallsOK, NEW t \in Thread, NEW events, Publishes(t, events), NEW e \in events,
           UNCHANGED routes, NEW g \in Grain, Drops(e, g), e.type # "NodeLeaseExpired"
    PROVE  Pending(g)'
  <1>1. call'[t] = [pc |-> "publish", events |-> events]
    BY DEF Publishes, Becomes, CallsOK
  <1>2. Drops(e, g)'
    BY DEF Drops
  <1> QED BY <1>1, <1>2 DEF Pending

\* A step of the registry that ends a session ends the routes to it.
LEMMA NodeStepAccounts ==
    ASSUME MemoryInv, RoutesInv, NEW t \in Thread, NodeStep(t), NEW g \in Grain
    PROVE  Accounted(g)'
  <1> SUFFICES ASSUME Usable(routes[g]), Current(g)
               PROVE  Current(g)' \/ Pending(g)'
    <2>1. UNCHANGED <<now, routes, missed>>
      BY NodeSteps DEF busVars
    <2>2. Pending(g) => Pending(g)'
      BY <2>1, NodeSteps, StarterIsFree, PendingStays DEF MemoryInv, Publishes
    <2> QED BY <2>1, <2>2 DEF RoutesInv, Accounted, Usable
  <1> DEFINE n == routes[g].p.node
  <1>1. n \in Node /\ routes[g].until \in Nat /\ routes[g] # NoRoute
    BY RouteOwner DEF Usable
  <1>2. Serves(n) /\ node[n] \in NodeRecord
    BY <1>1, RecordOfExisting DEF Current, Serves, Exists
  <1>3. UNCHANGED <<now, placement, routes>>
    BY NodeSteps DEF busVars
  <1>4. ASSUME node'[n] = node[n]
        PROVE  Current(g)'
    BY <1>3, <1>4 DEF Current, Serves
  <1>5. ASSUME NEW m \in Node, NEW r, node' = [node EXCEPT ![m] = r], m # n
        PROVE  Current(g)'
    BY <1>1, <1>4, <1>5 DEF MemoryInv, NodesOK
  <1>6. ASSUME NEW type \in NodeEvictingTypes, type # "NodeLeaseExpired",
               Publishes(t, {NodeEvent(type, n)})
        PROVE  Pending(g)'
    <2>1. NodeEvent(type, n).type = type /\ NodeEvent(type, n).node = n
      BY DEF NodeEvent
    <2>2. Drops(NodeEvent(type, n), g)
      BY <1>1, <1>6, <2>1 DEF Drops, Evicts
    <2> QED BY <1>3, <1>6, <2>1, <2>2, PublishedIsPending DEF MemoryInv
  <1>7. ASSUME NEW s \in Session, NEW at \in 0 .. now, RegisterNode(t, n, s, at)
        PROVE  FALSE
    BY <1>2, <1>7 DEF RegisterNode, Exists, Serves
  <1>8. ASSUME NEW s \in Session, NEW at \in 0 .. now, ReplaceNodeSession(t, n, s, at)
        PROVE  Pending(g)'
    BY <1>6, <1>8 DEF ReplaceNodeSession, Install, NodeEvictingTypes
  <1>9. ASSUME NEW s \in Session, NEW at \in 0 .. now, RenewNode(t, n, s, at)
        PROVE  Current(g)'
    <2>1. node'[n] = [node[n] EXCEPT !.expire = RenewedExpiry(n, at)]
      BY <1>1, <1>9 DEF RenewNode, MemoryInv, NodesOK
    <2>2. /\ node'[n].session = node[n].session /\ node'[n].status = node[n].status
          /\ node'[n].expire = RenewedExpiry(n, at)
      BY <1>2, <2>1 DEF NodeRecord
    <2>3. routes[g].until <= RenewedExpiry(n, at)
      <3>1. node[n].expire \in Nat /\ routes[g].until <= node[n].expire
        BY <1>2 DEF Current, NodeRecord
      <3> QED BY <1>1, <3>1, MemoryAssumption DEF RenewedExpiry, MemoryInv, NodesOK
    <2> QED BY <1>3, <2>2, <2>3 DEF Current, Serves
  <1>10. ASSUME NEW at \in 0 .. now, ExpireNodeLeases(t, at)
         PROVE  Current(g)'
    <2>1. PICK due \in SUBSET Due(at) :
            node' = [m \in Node |-> IF m \in due THEN [node[m] EXCEPT !.status = "offline"]
                                    ELSE node[m]]
      BY <1>10 DEF ExpireNodeLeases
    <2>2. n \notin due
      <3>1. SUFFICES ASSUME n \in due PROVE FALSE
        OBVIOUS
      <3>2. node[n].expire <= now /\ routes[g].until <= node[n].expire
        BY <1>2, <3>1 DEF Due, leaseExpired, Current, NodeRecord, MemoryInv, NodesOK
      <3>3. node[n].expire \in Nat /\ now \in Nat /\ now < routes[g].until
        BY <1>2 DEF NodeRecord, MemoryInv, NodesOK, Usable
      <3> QED BY <1>1, <3>2, <3>3
    <2> QED BY <1>1, <1>4, <2>1, <2>2
  <1>11. ASSUME NEW s \in Session, Remove(t, n, s)
         PROVE  Pending(g)'
    BY <1>6, <1>11 DEF Remove, NodeEvictingTypes
  <1>12. ASSUME DrainNode(t, n)
         PROVE  Current(g)'
    <2>1. node'[n] = [node[n] EXCEPT !.status = "draining"]
      BY <1>1, <1>12 DEF DrainNode, MemoryInv, NodesOK
    <2>2. /\ node'[n].session = node[n].session /\ node'[n].status = "draining"
          /\ node'[n].expire = node[n].expire
      BY <1>2, <2>1 DEF NodeRecord
    <2> QED BY <1>3, <2>2 DEF Current, Serves
  <1>13. ASSUME node' = node
         PROVE  Current(g)'
    BY <1>4, <1>13
  <1> QED
    BY <1>5, <1>7, <1>8, <1>9, <1>10, <1>11, <1>12, <1>13
    DEF NodeStep, RegisterNode, ReplaceNodeSession, Install, RenewNode, UnregisterNode,
        CompleteDrain, Remove, DrainNode, MarkNodeInvalid, RestoreNode

\* A change of owner announces itself to the routes of its grain.
LEMMA PlacementStepAccounts ==
    ASSUME MemoryInv, RoutesInv, NEW t \in Thread, PlacementStep(t), NEW g \in Grain
    PROVE  Accounted(g)'
  <1>1. \/ \E h \in Grain : Claims(t, h) \/ Moves(t, h) \/ Gives(t, h)
        \/ /\ UNCHANGED <<memoryVars, busVars>>
           /\ \E c : Becomes(t, c)
    BY PlacementSteps
  <1>2. ASSUME UNCHANGED <<now, node, busVars>>, placement'[g] = placement[g],
               \E c : Becomes(t, c)
        PROVE  Accounted(g)'
    <2>1. Pending(g) => Pending(g)'
      BY <1>2, StarterIsFree, PendingStays DEF MemoryInv, busVars
    <2>2. Current(g) => Current(g)'
      BY <1>2 DEF Current, Serves, busVars
    <2> QED BY <1>2, <2>1, <2>2 DEF RoutesInv, Accounted, Usable, busVars
  <1>3. ASSUME NEW type \in PlacementEventTypes, NEW p,
               Publishes(t, {PlacementEvent(type, g, p)}), UNCHANGED <<now, busVars>>
        PROVE  Accounted(g)'
    <2>1. /\ PlacementEvent(type, g, p).type = type
          /\ PlacementEvent(type, g, p).grain = g
          /\ type # "NodeLeaseExpired"
      BY DEF PlacementEvent, PlacementEventTypes
    <2>2. routes[g] # NoRoute => Drops(PlacementEvent(type, g, p), g)
      BY <2>1 DEF Drops, Evicts
    <2>3. Usable(routes[g]) => Pending(g)'
      BY <1>3, <2>1, <2>2, PublishedIsPending DEF Usable, MemoryInv, busVars
    <2> QED BY <1>3, <2>3 DEF Accounted, Usable, busVars
  <1>4. ASSUME NEW h \in Grain, NEW p, NEW type \in PlacementEventTypes, NEW q,
               placement' = [placement EXCEPT ![h] = p],
               Publishes(t, {PlacementEvent(type, h, q)}), UNCHANGED <<now, node, busVars>>
        PROVE  Accounted(g)'
    <2>1. CASE h = g
      BY <1>3, <1>4, <2>1
    <2>2. CASE h # g
      BY <1>2, <1>4, <2>2 DEF MemoryInv, PlacementsOK, Publishes
    <2> QED BY <2>1, <2>2
  <1>5. ASSUME NEW h \in Grain, Claims(t, h) \/ Moves(t, h)
        PROVE  Accounted(g)'
    BY <1>4, <1>5
    DEF Claims, Moves, Create, movePlacementLocked, Store, DirectoryOnly, PlacementEventTypes
  <1>6. ASSUME NEW h \in Grain, Gives(t, h)
        PROVE  Accounted(g)'
    BY <1>4, <1>6 DEF Gives, Release, DirectoryOnly, PlacementEventTypes
  <1>7. CASE UNCHANGED <<memoryVars, busVars>> /\ \E c : Becomes(t, c)
    BY <1>2, <1>7 DEF memoryVars
  <1> QED BY <1>1, <1>5, <1>6, <1>7

\* An event that reaches the router drops its routes; what it leaves was not its
\* business.
LEMMA PublishAccounts ==
    ASSUME MemoryInv, RoutesInv, NEW t \in Thread, Publish(t), NEW g \in Grain
    PROVE  Accounted(g)'
  <1>1. PICK e \in call[t].events :
          /\ routes' = [h \in Grain |-> IF Drops(e, h) THEN NoRoute ELSE routes[h]]
          /\ missed' = {h \in missed : ~Drops(e, h)}
          /\ IF call[t].events = {e} THEN Becomes(t, Idle)
             ELSE Publishes(t, call[t].events \ {e})
    BY DEF Publish
  <1>2. UNCHANGED <<now, node, placement>>
    BY DEF Publish, memoryVars
  <1>3. CASE Drops(e, g)
    <2>1. routes'[g] = NoRoute
      BY <1>1, <1>3
    <2> QED BY <2>1 DEF Accounted, Usable, NoRoute
  <1>4. CASE ~Drops(e, g)
    <2>1. routes'[g] = routes[g] /\ (g \in missed => g \in missed')
      BY <1>1, <1>4
    <2>2. Current(g) => Current(g)'
      BY <1>2, <2>1 DEF Current, Serves
    <2>3. ASSUME Pending(g)
          PROVE  Pending(g)'
      <3>1. PICK u \in Thread :
              /\ call[u].pc = "publish"
              /\ \E f \in call[u].events : f.type # "NodeLeaseExpired" /\ Drops(f, g)
        BY <2>3 DEF Pending
      <3>2. PICK f \in call[u].events : f.type # "NodeLeaseExpired" /\ Drops(f, g)
        BY <3>1
      <3>3. Drops(f, g)'
        BY <2>1, <3>2 DEF Drops
      <3>4. call'[u].pc = "publish" /\ f \in call'[u].events
        <4>1. CASE u # t
          BY <1>1, <3>1, <4>1 DEF Becomes, Publishes, MemoryInv, CallsOK
        <4>2. CASE u = t
          <5>1. f # e
            BY <1>4, <3>2
          <5>2. Publishes(t, call[t].events \ {e})
            BY <1>1, <3>2, <4>2, <5>1
          <5>3. call'[t] = [pc |-> "publish", events |-> call[t].events \ {e}]
            BY <5>2 DEF Publishes, Becomes, MemoryInv, CallsOK
          <5> QED BY <3>2, <4>2, <5>1, <5>3
        <4> QED BY <4>1, <4>2
      <3> QED BY <3>2, <3>3, <3>4 DEF Pending
    <2> QED BY <1>2, <2>1, <2>2, <2>3 DEF RoutesInv, Accounted, Usable
  <1> QED BY <1>3, <1>4

\* Events that are cut off leave their mark.
LEMMA CutOffAccounts ==
    ASSUME MemoryInv, RoutesInv, NEW t \in Thread, PublishFails(t), NEW g \in Grain
    PROVE  Accounted(g)'
  <1>1. UNCHANGED <<now, node, placement, routes>>
    BY DEF PublishFails, memoryVars
  <1>2. /\ missed' = missed \cup {h \in Grain : \E e \in call[t].events :
                                    e.type # "NodeLeaseExpired" /\ Drops(e, h)}
        /\ Becomes(t, Idle)
    BY DEF PublishFails
  <1>3. Current(g) => Current(g)'
    BY <1>1 DEF Current, Serves
  <1>4. ASSUME Pending(g)
        PROVE  Pending(g)' \/ g \in missed'
    <2>1. PICK u \in Thread :
            /\ call[u].pc = "publish"
            /\ \E f \in call[u].events : f.type # "NodeLeaseExpired" /\ Drops(f, g)
      BY <1>4 DEF Pending
    <2>2. CASE u = t
      BY <1>2, <2>1, <2>2
    <2>3. CASE u # t
      <3>1. call'[u] = call[u]
        BY <1>2, <2>3 DEF Becomes, MemoryInv, CallsOK
      <3>2. \A f : Drops(f, g)' <=> Drops(f, g)
        BY <1>1 DEF Drops
      <3> QED BY <2>1, <3>1, <3>2 DEF Pending
    <2> QED BY <2>2, <2>3
  <1> QED BY <1>1, <1>2, <1>3, <1>4 DEF RoutesInv, Accounted, Usable

\* A route is cached as the directory holds it; time only ends routes.
LEMMA QuietStepAccounts ==
    ASSUME MemoryInv, RoutesInv, NEW g \in Grain,
           \/ Tick
           \/ \E h \in Grain : CacheRoute(h)
           \/ \E t \in Thread : Return(t)
           \/ UNCHANGED allVars
    PROVE  Accounted(g)'
  <1>1. ASSUME UNCHANGED <<node, placement>>, routes'[g] = routes[g], now' >= now, now' \in Nat,
               g \in missed => g \in missed',
               UNCHANGED call \/ \E t \in Thread : Return(t)
        PROVE  Accounted(g)'
    <2>1. Pending(g) => Pending(g)'
      <3>1. ASSUME NEW t \in Thread, Return(t)
            PROVE  \A u \in Thread : call[u].pc = "publish" => call'[u] = call[u]
        BY <3>1 DEF Return, Becomes, MemoryInv, CallsOK
      <3>2. \A e : Drops(e, g)' <=> Drops(e, g)
        BY <1>1 DEF Drops
      <3> QED BY <1>1, <3>1, <3>2 DEF Pending
    <2>2. Current(g) => Current(g)'
      BY <1>1 DEF Current, Serves
    <2>3. Usable(routes[g])' => Usable(routes[g])
      BY <1>1, RouteOwner DEF Usable, MemoryInv, NodesOK
    <2> QED BY <1>1, <2>1, <2>2, <2>3 DEF RoutesInv, Accounted
  <1>2. CASE Tick \/ (\E t \in Thread : Return(t)) \/ UNCHANGED allVars
    BY <1>1, <1>2 DEF Tick, Return, allVars, memoryVars, busVars, MemoryInv, NodesOK
  <1>3. ASSUME NEW h \in Grain, CacheRoute(h)
        PROVE  Accounted(g)'
    <2>1. /\ UNCHANGED <<now, node, placement, call>>
          /\ routes' = [routes EXCEPT ![h] = [p |-> placement[h],
                                              until |-> node[placement[h].node].expire]]
          /\ missed' = missed \ {h} /\ Routeable(placement[h])
      BY <1>3 DEF CacheRoute, memoryVars
    <2>2. CASE h = g
      <3>1. placement[g].node \in Node /\ Serves(placement[g].node)
        BY <2>1, <2>2, StoredPlacement DEF Routeable
      <3>2. node[placement[g].node].expire \in Nat
        BY <3>1, RecordOfExisting DEF Serves, Exists, NodeRecord
      <3>3. /\ routes'[g].p = placement[g]
            /\ routes'[g].until = node[placement[g].node].expire
        BY <2>1, <2>2 DEF RoutesInv
      <3> QED BY <2>1, <2>2, <3>1, <3>2, <3>3 DEF Accounted, Current, Routeable, Serves
    <2>3. CASE h # g
      BY <1>1, <2>1, <2>3 DEF RoutesInv, MemoryInv, NodesOK
    <2> QED BY <2>2, <2>3
  <1> QED BY <1>2, <1>3

LEMMA RoutesStayRoutes ==
    ASSUME MemoryInv, RoutesInv, [MemoryNext]_allVars
    PROVE  routes' \in [Grain -> Routes]
  <1>1. CASE UNCHANGED routes
    BY <1>1 DEF RoutesInv
  <1>2. ASSUME NEW h \in Grain, CacheRoute(h)
        PROVE  routes' \in [Grain -> Routes]
    <2>1. placement[h] \in PlacementRecord /\ placement[h].node \in Node
          /\ Serves(placement[h].node)
      BY <1>2, StoredPlacement DEF CacheRoute, Routeable
    <2>2. node[placement[h].node].expire \in Nat
      BY <2>1, RecordOfExisting DEF Serves, Exists, NodeRecord
    <2>3. [p |-> placement[h], until |-> node[placement[h].node].expire] \in Routes
      BY <2>1, <2>2 DEF Routes
    <2> QED BY <1>2, <2>3 DEF CacheRoute, RoutesInv
  <1>3. ASSUME NEW t \in Thread, Publish(t)
        PROVE  routes' \in [Grain -> Routes]
    BY <1>3 DEF Publish, RoutesInv, Routes
  <1>4. ASSUME NEW t \in Thread, PlacementStep(t)
        PROVE  UNCHANGED routes
    <2>1. ASSUME NEW h \in Grain, Claims(t, h) \/ Moves(t, h)
          PROVE  UNCHANGED routes
      BY <2>1 DEF Claims, Moves, Create, movePlacementLocked, Store, DirectoryOnly, busVars
    <2>2. ASSUME NEW h \in Grain, Gives(t, h)
          PROVE  UNCHANGED routes
      BY <2>2 DEF Gives, Release, DirectoryOnly, busVars
    <2> QED BY <1>4, <2>1, <2>2, PlacementSteps DEF busVars
  <1>5. ASSUME NEW t \in Thread, NodeStep(t)
        PROVE  UNCHANGED routes
    BY <1>5, NodeSteps DEF busVars
  <1> QED BY <1>1, <1>2, <1>3, <1>4, <1>5
          DEF MemoryNext, Tick, Return, PublishFails, allVars, busVars

LEMMA RoutesInvNext ==
    MemoryInv /\ RoutesInv /\ [MemoryNext]_allVars => RoutesInv'
  <1> SUFFICES ASSUME MemoryInv, RoutesInv, [MemoryNext]_allVars
               PROVE  RoutesInv'
    OBVIOUS
  <1>1. ASSUME NEW g \in Grain
        PROVE  Accounted(g)'
    BY NodeStepAccounts, PlacementStepAccounts, PublishAccounts, CutOffAccounts,
       QuietStepAccounts
    DEF MemoryNext
  <1> QED BY <1>1, RoutesStayRoutes DEF RoutesInv

\* Publishing after the mutexes are released (publish in directory.go and
\* node_registry.go) leaves no stale route behind, in whatever order the events
\* of several goroutines arrive, unless an event was cut off.
THEOREM StaleRoutesAreAnnounced == MemorySpec => []StaleRouteAnnounced
  <1>1. MemoryInit => RoutesInv
    <2> SUFFICES ASSUME MemoryInit PROVE RoutesInv
      OBVIOUS
    <2>1. \A g \in Grain : ~Usable(routes[g])
      BY DEF MemoryInit, Usable
    <2> QED BY <2>1 DEF MemoryInit, RoutesInv, Routes, Accounted
  <1>2. MemoryInv /\ RoutesInv => StaleRouteAnnounced
    <2> SUFFICES ASSUME MemoryInv, RoutesInv, NEW g \in Grain, Usable(routes[g]),
                        ~Pending(g), g \notin missed
                 PROVE  placement[g] = routes[g].p /\ Routeable(routes[g].p)
      BY DEF StaleRouteAnnounced, Pending
    <2>1. Current(g)
      BY DEF RoutesInv, Accounted
    <2>2. routes[g].p \in PlacementRecord /\ routes[g].p.node \in Node /\ routes[g].until \in Nat
      BY RouteOwner DEF Usable
    <2>3. node[routes[g].p.node].expire \in Nat /\ routes[g].until <= node[routes[g].p.node].expire
      BY <2>1, <2>2, RecordOfExisting DEF Current, Serves, Exists, NodeRecord
    <2>4. ~leaseExpired(routes[g].p.node, now)
      BY <2>2, <2>3 DEF leaseExpired, Usable, MemoryInv, NodesOK
    <2>5. routes[g].p # NoPlacement
      BY <2>1, <2>2, StoredPlacement DEF Current
    <2> QED BY <2>1, <2>4, <2>5 DEF Current, Routeable
  <1> QED BY <1>1, <1>2, RoutesInvNext, MemoryInvariance, PTL DEF MemorySpec
=============================================================================
