--------------------------- MODULE MemoryDirectory ---------------------------
(***************************************************************************)
(* The in-memory directory (src/memory/directory.go over                   *)
(* src/memory/node_registry.go) and the bus it publishes on                *)
(* (src/memory/event_bus.go), used by several goroutines.  Placements and  *)
(* nodes have a mutex each; every operation takes the first before the     *)
(* second and holds both from its first guard to its last write, so a      *)
(* critical section is one step here.  Three things happen outside:        *)
(*                                                                         *)
(*   - RegisterNode, RenewNode, ReplaceNodeSession and ExpireNodeLeases    *)
(*     read the clock before they wait for the mutex: the reading, at, may *)
(*     be any one of the past;                                             *)
(*   - Allocate chooses a node in one critical section and commits its     *)
(*     choice in another;                                                  *)
(*   - events are published after the mutexes are released, by the         *)
(*     goroutine itself, and only as long as its context lives.            *)
(*                                                                         *)
(* Beside the directory stands one caching router that subscribes to the   *)
(* bus.  How its requests race with its events is the subject of           *)
(* CachedRouter; here a route is looked up and cached in one step.         *)
(***************************************************************************)
EXTENDS Events

CONSTANTS GroupOf,          \* GroupOf[n]: the type/group part of an identity
          Thread,           \* goroutines that use the directory
          TTL,              \* lease duration of every session, in clock ticks
          MaxTime,          \* bound: the clock stops here
          MaxVersion        \* bound: owners of one lifetime

Group == {GroupOf[n] : n \in Node}

ASSUME MemoryAssumption ==
    /\ DOMAIN GroupOf = Node
    /\ TTL \in Nat \ {0}
    /\ {MaxTime, MaxVersion} \subseteq Nat

VARIABLES now,        \* the clock of the process
          node,       \* registry.nodes
          invalid,    \* registry.invalid
          placement,  \* directory.placements
          byNode,     \* directory.byNode: the grains placed on each node
          spent,      \* identifiers already given to a lifetime
          call,       \* what each goroutine has in flight
          routes,     \* the routes the router has cached
          missed,     \* history: grains whose route an event should have dropped
          emitted     \* history: placement event made by the last step

memoryVars == <<now, node, invalid, placement, byNode, spent>>
busVars == <<routes, missed>>
allVars == <<memoryVars, call, busVars, emitted>>

-----------------------------------------------------------------------------
Absent == [session |-> NoSession, status |-> "absent", expire |-> 0]

Exists(n) == node[n].status # "absent"

Serves(n) == node[n].status \in {"active", "draining"}

leaseExpired(n, at) == at >= node[n].expire

\* targetAvailableLocked: may be given a grain.
Available(n) == node[n].status = "active" /\ ~leaseExpired(n, now) /\ n \notin invalid

\* placementRouteableLocked: its owner holds a lease.
Routeable(p) == /\ p # NoPlacement
                /\ node[p.node].session = p.session
                /\ Serves(p.node) /\ ~leaseExpired(p.node, now)

Idle == [pc |-> "idle"]

NoRoute == [p |-> NoPlacement, until |-> 0]

Usable(route) == route # NoRoute /\ now < route.until

MemoryInit ==
    /\ now = 0
    /\ node = [n \in Node |-> Absent]
    /\ invalid = {}
    /\ placement = [g \in Grain |-> NoPlacement]
    /\ byNode = [n \in Node |-> {}]
    /\ spent = {}
    /\ call = [t \in Thread |-> Idle]
    /\ routes = [g \in Grain |-> NoRoute]
    /\ missed = {}
    /\ emitted = NoEvent

Becomes(t, c) == call' = [call EXCEPT ![t] = c]

\* The goroutine has left its critical section with events to publish.
Publishes(t, events) == Becomes(t, [pc |-> "publish", events |-> events])

-----------------------------------------------------------------------------
(* The registry.                                                           *)

RegistryOnly == UNCHANGED <<now, placement, byNode, spent, busVars>> /\ emitted' = NoEvent

Fresh(s, at) == [session |-> s, status |-> "active", expire |-> at + TTL]

Install(t, n, s, at, event) ==
    /\ call[t] = Idle
    /\ node' = [node EXCEPT ![n] = Fresh(s, at)]
    /\ Publishes(t, {NodeEvent(event, n)})
    /\ UNCHANGED invalid /\ RegistryOnly

RegisterNode(t, n, s, at) ==
    /\ ~Exists(n)
    /\ Install(t, n, s, at, "NodeRegistered")

\* Mutant of ReplaceNodeSession: announced like a first registration.
ReplaceAnnouncedAsNew(t, n, s, at) ==
    /\ node[n].session # s
    /\ Install(t, n, s, at, "NodeRegistered")

ReplaceNodeSession(t, n, s, at) ==
    /\ node[n].session # s
    /\ Install(t, n, s, at, "NodeReplaced")

\* The version of the lease, which nothing here reads, is left out.

\* Mutant of RenewedExpiry: no comparison with the old deadline.
ExpiryFromClock(n, at) == at + TTL

RenewedExpiry(n, at) == IF at + TTL > node[n].expire THEN at + TTL ELSE node[n].expire

RenewNode(t, n, s, at) ==
    /\ call[t] = Idle
    /\ Serves(n) /\ node[n].session = s
    /\ ~leaseExpired(n, at)
    /\ node' = [node EXCEPT ![n].expire = RenewedExpiry(n, at)]
    /\ UNCHANGED <<invalid, call>> /\ RegistryOnly

Due(at) == {n \in Node : Serves(n) /\ leaseExpired(n, at)}

\* One critical section for all of them; which ones a small limit leaves to the
\* next call is open.
ExpireNodeLeases(t, at) ==
    /\ call[t] = Idle
    /\ \E due \in SUBSET Due(at) \ {{}} :
         /\ node' = [n \in Node |-> IF n \in due THEN [node[n] EXCEPT !.status = "offline"]
                                    ELSE node[n]]
         /\ Publishes(t, {NodeEvent("NodeLeaseExpired", n) : n \in due})
    /\ UNCHANGED invalid /\ RegistryOnly

Remove(t, n, s) ==
    /\ call[t] = Idle
    /\ Exists(n) /\ node[n].session = s
    /\ node' = [node EXCEPT ![n] = Absent]
    /\ Publishes(t, {NodeEvent("NodeUnregistered", n)})
    /\ UNCHANGED invalid /\ RegistryOnly

UnregisterNode(t, n, s) == Remove(t, n, s)

\* The directory's callback holds both mutexes while it looks at the index.
CompleteDrain(t, n, s) == byNode[n] = {} /\ Remove(t, n, s)

DrainNode(t, n) ==
    /\ call[t] = Idle
    /\ Serves(n) /\ n \in invalid
    /\ node' = [node EXCEPT ![n].status = "draining"]
    /\ Publishes(t, {NodeEvent("NodeDraining", n)})
    /\ UNCHANGED invalid /\ RegistryOnly

MarkNodeInvalid(t, n) ==
    /\ call[t] = Idle
    /\ invalid' = invalid \cup {n}
    /\ Publishes(t, {NodeEvent("NodeMarkedInvalid", n)})
    /\ UNCHANGED node /\ RegistryOnly

RestoreNode(t, n) ==
    /\ call[t] = Idle
    /\ invalid' = invalid \ {n}
    /\ Publishes(t, {NodeEvent("NodeRestored", n)})
    /\ UNCHANGED node /\ RegistryOnly

-----------------------------------------------------------------------------
(* Placements.                                                             *)

DirectoryOnly == UNCHANGED <<now, node, invalid, busVars>>

\* Store p for g in both maps and leave with its event.
Store(t, g, p, event) ==
    /\ placement' = [placement EXCEPT ![g] = p]
    /\ byNode' = [n \in Node |-> IF n = p.node THEN byNode[n] \cup {g}
                                 ELSE byNode[n] \ {g}]
    /\ emitted' = PlacementEvent(event, g, p)
    /\ Publishes(t, {PlacementEvent(event, g, p)})
    /\ DirectoryOnly

Create(t, g, id, n) ==
    /\ id \in PlacementID \ spent
    /\ spent' = spent \cup {id}
    /\ Store(t, g, [id |-> id, node |-> n, session |-> node[n].session, version |-> 1],
             "PlacementCreated")

\* Mutant of movePlacementLocked: the index of the old owner keeps the grain.
MoveBesideOldEntry(t, g, n, event) ==
    LET p == Succession(placement[g], n, node[n].session) IN
    /\ placement[g].version < MaxVersion
    /\ placement' = [placement EXCEPT ![g] = p]
    /\ byNode' = [byNode EXCEPT ![n] = @ \cup {g}]
    /\ emitted' = PlacementEvent(event, g, p)
    /\ Publishes(t, {PlacementEvent(event, g, p)})
    /\ DirectoryOnly /\ UNCHANGED spent

movePlacementLocked(t, g, n, event) ==
    /\ placement[g].version < MaxVersion
    /\ Store(t, g, Succession(placement[g], n, node[n].session), event)
    /\ UNCHANGED spent

EffectiveNodes(group) == {n \in Node : GroupOf[n] = group /\ Available(n)}

\* A routeable owner is answered, nothing changes; an owner whose node serves
\* under another session is refreshed; any other is left only when its name has
\* been marked invalid.
ResolveRoute(t, g, group, id) ==
    LET owner == placement[g].node IN
    /\ call[t] = Idle
    /\ \/ /\ placement[g] = NoPlacement
          /\ \E n \in EffectiveNodes(group) : Create(t, g, id, n)
       \/ /\ placement[g] # NoPlacement /\ GroupOf[owner] = group
          /\ Serves(owner) /\ ~leaseExpired(owner, now)
          /\ node[owner].session # placement[g].session
          /\ movePlacementLocked(t, g, owner, "PlacementRecovered")
       \/ /\ placement[g] # NoPlacement /\ GroupOf[owner] = group
          /\ ~(Serves(owner) /\ ~leaseExpired(owner, now))
          /\ owner \in invalid
          /\ \E n \in EffectiveNodes(group) :
               movePlacementLocked(t, g, n, "PlacementRecovered")

\* The first half of Allocate, up to the strategy's choice.  That there was no
\* placement then is asked again in the second half.
Choose(t, g, n) ==
    /\ call[t] = Idle
    /\ n \in EffectiveNodes(GroupOf[n])
    /\ Becomes(t, [pc |-> "chosen", grain |-> g, node |-> n, session |-> node[n].session])
    /\ UNCHANGED <<memoryVars, busVars>> /\ emitted' = NoEvent

\* Mutant of StillChosen: what was true when the node was chosen.
ChosenBefore(c) == Exists(c.node)

\* The chosen node is still served by the chosen session and still available.
StillChosen(c) == node[c.node].session = c.session /\ Available(c.node)

Allocate(t, id) ==
    LET c == call[t] IN
    /\ c.pc = "chosen"
    /\ placement[c.grain] = NoPlacement
    /\ StillChosen(c)
    /\ Create(t, c.grain, id, c.node)

Addressed(g, cmd) == /\ placement[g] # NoPlacement
                     /\ placement[g].id = cmd.id /\ placement[g].version = cmd.version

\* The owner session of the command, in the placement and in the registry.
ByOwner(g, cmd) == /\ placement[g].node = cmd.node /\ Exists(cmd.node)
                   /\ placement[g].session = cmd.session
                   /\ node[cmd.node].session = cmd.session

\* The owner's lease may have run out.
Release(t, g, cmd) ==
    /\ call[t] = Idle
    /\ Addressed(g, cmd) /\ ByOwner(g, cmd)
    /\ placement' = [placement EXCEPT ![g] = NoPlacement]
    /\ byNode' = [byNode EXCEPT ![cmd.node] = @ \ {g}]
    /\ LET e == PlacementEvent("PlacementReleased", g,
                               [placement[g] EXCEPT !.version = @ + 1])
       IN emitted' = e /\ Publishes(t, {e})
    /\ DirectoryOnly /\ UNCHANGED spent

\* Nothing but an audit event.
Renew(t, g, cmd) ==
    /\ call[t] = Idle
    /\ Addressed(g, cmd) /\ ByOwner(g, cmd)
    /\ Serves(cmd.node) /\ ~leaseExpired(cmd.node, now)
    /\ LET e == PlacementEvent("PlacementRenewed", g, placement[g])
       IN emitted' = e /\ Publishes(t, {e})
    /\ UNCHANGED <<memoryVars, busVars>>

\* from = NoNode is a command without FromNodeIdentity.
Transfer(t, g, cmd, from, target) ==
    /\ call[t] = Idle
    /\ Addressed(g, cmd)
    /\ from \in {NoNode, placement[g].node}
    /\ Available(target)
    /\ movePlacementLocked(t, g, target, "PlacementTransferred")

\* Mutant of Recover: a routeable owner may lose its grain.
RecoverFromAnyOwner(t, g, cmd, target) ==
    /\ call[t] = Idle
    /\ Addressed(g, cmd)
    /\ Available(target)
    /\ movePlacementLocked(t, g, target, "PlacementRecovered")

Recover(t, g, cmd, target) ==
    /\ call[t] = Idle
    /\ Addressed(g, cmd)
    /\ ~Routeable(placement[g])
    /\ Available(target)
    /\ movePlacementLocked(t, g, target, "PlacementRecovered")

\* An error, or an answer that changes nothing.
Return(t) ==
    /\ call[t].pc = "chosen"
    /\ Becomes(t, Idle)
    /\ UNCHANGED <<memoryVars, busVars>> /\ emitted' = NoEvent

-----------------------------------------------------------------------------
(* The bus and its subscriber.                                             *)

\* Lookup and the store of its answer in the router's cache.
CacheRoute(g) ==
    /\ Routeable(placement[g])
    /\ routes' = [routes EXCEPT ![g] = [p |-> placement[g],
                                        until |-> node[placement[g].node].expire]]
    /\ missed' = missed \ {g}
    /\ UNCHANGED <<memoryVars, call>> /\ emitted' = NoEvent

\* Whether the router drops its route of g on e.
Drops(e, g) ==
    /\ routes[g] # NoRoute
    /\ \/ Evicts(e, g, routes[g].p.node)
       \/ e.type = "NodeRestored" /\ GroupOf[routes[g].p.node] = GroupOf[e.node]

\* EventBus.Publish calls the handler.  Events of one operation are published
\* one after the other.
Publish(t) ==
    /\ call[t].pc = "publish"
    /\ \E e \in call[t].events :
         /\ routes' = [g \in Grain |-> IF Drops(e, g) THEN NoRoute ELSE routes[g]]
         /\ missed' = {g \in missed : ~Drops(e, g)}
         /\ IF call[t].events = {e} THEN Becomes(t, Idle)
            ELSE Publishes(t, call[t].events \ {e})
    /\ UNCHANGED memoryVars /\ emitted' = NoEvent

\* The context has ended, or another handler before the router's has failed:
\* neither this event nor the ones after it are offered.  The loss of a
\* NodeLeaseExpired is not remembered: routes end with the lease anyway.
PublishFails(t) ==
    /\ call[t].pc = "publish"
    /\ missed' = missed \cup {g \in Grain : \E e \in call[t].events :
                                 e.type # "NodeLeaseExpired" /\ Drops(e, g)}
    /\ Becomes(t, Idle)
    /\ UNCHANGED <<memoryVars, routes>> /\ emitted' = NoEvent

Tick == /\ now < MaxTime
        /\ now' = now + 1
        /\ emitted' = NoEvent
        /\ UNCHANGED <<node, invalid, placement, byNode, spent, call, busVars>>

\* Whatever a caller may put into a command.
Command == [id : PlacementID, node : Node, session : Session, version : 1 .. MaxVersion]

NodeStep(t) ==
    \/ \E at \in 0 .. now :
         \/ ExpireNodeLeases(t, at)
         \/ \E n \in Node, s \in Session : \/ RegisterNode(t, n, s, at)
                                         \/ RenewNode(t, n, s, at)
                                         \/ ReplaceNodeSession(t, n, s, at)
    \/ \E n \in Node :
         \/ \E s \in Session : UnregisterNode(t, n, s) \/ CompleteDrain(t, n, s)
         \/ DrainNode(t, n)
         \/ MarkNodeInvalid(t, n)
         \/ RestoreNode(t, n)

PlacementStep(t) ==
    \/ \E id \in PlacementID : Allocate(t, id)
    \/ \E g \in Grain :
         \/ \E n \in Node : Choose(t, g, n)
         \/ \E group \in Group, id \in PlacementID : ResolveRoute(t, g, group, id)
         \/ \E cmd \in Command :
              \/ Release(t, g, cmd)
              \/ Renew(t, g, cmd)
              \/ \E target \in Node :
                   \/ \E from \in Node \cup {NoNode} : Transfer(t, g, cmd, from, target)
                   \/ Recover(t, g, cmd, target)

MemoryNext ==
    \/ Tick
    \/ \E g \in Grain : CacheRoute(g)
    \/ \E t \in Thread : \/ NodeStep(t)
                         \/ PlacementStep(t)
                         \/ Return(t)
                         \/ Publish(t)
                         \/ PublishFails(t)

MemorySpec == MemoryInit /\ [][MemoryNext]_allVars

-----------------------------------------------------------------------------
(* Properties.                                                             *)

\* byNode lists exactly the placements of each node: CompleteDrain, FindByNode
\* and the placement counts of the strategies look nowhere else.
ByNodeCoherent ==
    \A n \in Node : byNode[n] = {g \in Grain : placement[g].node = n}

\* Although events are published late, by several goroutines and in another
\* order than the changes they announce, a router never holds a usable route
\* that the directory contradicts unless an event that drops it is still under
\* way - or was cut off by a context that ended or a handler that failed, which
\* is harmless for an expired lease only.
StaleRouteAnnounced ==
    \A g \in Grain :
      Usable(routes[g])
        => \/ placement[g] = routes[g].p /\ Routeable(routes[g].p)
           \/ \E t \in Thread : /\ call[t].pc = "publish"
                               /\ \E e \in call[t].events : Drops(e, g)
           \/ g \in missed

\* While one session keeps its node, its deadline never moves backwards and it
\* is declared offline only after it, although renewals and expiry work with
\* clock readings of any age, in any order.
SessionKeepsItsLease ==
    [][\A n \in Node :
         (Serves(n) /\ node'[n].session = node[n].session)
           => IF node'[n].status = "offline" THEN node[n].expire <= now
              ELSE node'[n].expire >= node[n].expire]_allVars

\* A node that is draining or marked invalid gains no grain, not even by an
\* Allocate that chose it before.
UnfitNodeOnlyShrinks ==
    [][\A n \in Node :
         (n \in invalid \/ node[n].status = "draining")
           => \A g \in Grain : placement'[g].node = n => placement[g].node = n]_allVars

\* A completed drain leaves no placement behind on the node it removes.
DrainLeavesNothing ==
    [][\A t \in Thread, n \in Node, s \in Session :
         CompleteDrain(t, n, s) => \A g \in Grain : placement[g].node # n]_allVars

\* The abstract contract, with the session serving each node read off its record.
Serving == [n \in Node |-> IF Serves(n)
                            THEN [session |-> node[n].session, deadline |-> node[n].expire]
                            ELSE [session |-> NoSession, deadline |-> 0]]

Contract == INSTANCE Ownership WITH serving <- Serving, owner <- placement,
                                    announced <- emitted

\* Owners change only as the contract allows, exactly as in Redis: a grain goes
\* to a session that is alive, one version later, under an identifier of its
\* own, and is taken only from an owner without a lease.
OwnersPromise == [][placement' # placement => Contract!OwnerNext]_allVars
=============================================================================
