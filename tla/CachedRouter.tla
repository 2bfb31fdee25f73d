---------------------------- MODULE CachedRouter ----------------------------
(***************************************************************************)
(* The caching router of one process (src/memory/cached_router.go over     *)
(* src/memory/cache.go) in front of a directory other processes change.    *)
(* A request looks into the cache under the router's lock, asks the        *)
(* directory without the lock and takes the lock again to store the route: *)
(* between the two, events may have been handled.  The epoch read at the   *)
(* start tells.  Domain events reach the router in stream order, at least  *)
(* once, some time after the script that appended them.                    *)
(*                                                                         *)
(* The directory is the contract of module Ownership, which                *)
(* PlacementDirectory implements: any sp.Directory that keeps it will do.  *)
(***************************************************************************)
EXTENDS Ownership, Sequences

CONSTANTS GroupOf,    \* GroupOf[n]: the type/group part of an identity
          Thread,     \* goroutines that use the router
          TTL,        \* lease duration in clock ticks
          MaxTime,    \* bound: the clock stops here
          MaxVersion, \* bound: owners of one lifetime
          MaxStream,  \* bound: events appended and not yet handled
          MaxEpoch    \* bound: events, Degrade and Recover calls

Group == {GroupOf[n] : n \in Node}

ASSUME RouterAssumption == /\ DOMAIN GroupOf = Node
                           /\ {TTL, MaxTime, MaxVersion, MaxStream, MaxEpoch} \subseteq Nat

VARIABLES entries,    \* cache.entries: the route cached for each grain, or NoRoute
          byNode,     \* cache.byNode: the grains cached under each node
          degraded,   \* cache.degraded
          epoch,      \* router.epoch
          lastEvent,  \* router.lastEvent when lastEventEpoch = epoch, else NoEvent
          request,    \* what each goroutine has in flight
          stream      \* events appended and not yet acknowledged

routerVars == <<entries, byNode, degraded, epoch, lastEvent>>
cachedVars == <<ownershipVars, routerVars, request, stream>>

-----------------------------------------------------------------------------
(* The cache: a map of routes and its reverse index.                       *)

NoRoute == [p |-> NoPlacement, until |-> 0]

EmptyEntries == [g \in Grain |-> NoRoute]
EmptyByNode == [n \in Node |-> {}]

GetCachedPlacement(g) == IF degraded THEN NoRoute ELSE entries[g]

Usable(route) == route # NoRoute /\ now < route.until

\* A cache that refuses routes while degraded.
SetCachedPlacement(g, route) ==
    IF degraded THEN UNCHANGED <<entries, byNode>>
    ELSE /\ entries' = [entries EXCEPT ![g] = route]
         /\ byNode' = [n \in Node |-> IF n = route.p.node THEN byNode[n] \cup {g}
                                      ELSE IF n = entries[g].p.node THEN byNode[n] \ {g}
                                      ELSE byNode[n]]

\* Mutant of DeleteCachedPlacement: the reverse index keeps the grain.
DeleteEntryOnly(g) == entries' = [entries EXCEPT ![g] = NoRoute] /\ UNCHANGED byNode

DeleteCachedPlacement(g) ==
    /\ entries' = [entries EXCEPT ![g] = NoRoute]
    /\ byNode' = [n \in Node |-> IF n = entries[g].p.node THEN byNode[n] \ {g}
                                 ELSE byNode[n]]

\* Delete through the reverse index only, as the code does.
DeleteCachedPlacementsOf(nodes) ==
    /\ entries' = [g \in Grain |-> IF \E n \in nodes : g \in byNode[n] THEN NoRoute
                                   ELSE entries[g]]
    /\ byNode' = [n \in Node |-> IF n \in nodes THEN {} ELSE byNode[n]]

ClearPlacementCache == entries' = EmptyEntries /\ byNode' = EmptyByNode

-----------------------------------------------------------------------------
NoRequest == [pc |-> "idle"]

CachedInit == /\ OwnershipInit
              /\ entries = EmptyEntries
              /\ byNode = EmptyByNode
              /\ degraded = FALSE
              /\ epoch = 0
              /\ lastEvent = NoEvent
              /\ request = [t \in Thread |-> NoRequest]
              /\ stream = <<>>

DomainEventTypes == NodeEventTypes \cup PlacementEventTypes

\* A directory step of any process, its event appended to the stream.  Audit
\* entries (PlacementRenewed) go to a stream the router does not read.
Logged(step) ==
    /\ step
    /\ Len(stream) < MaxStream
    /\ stream' = IF announced'.type \in DomainEventTypes THEN Append(stream, announced')
                 ELSE stream

NewOwner(g, n) ==
    \/ \E id \in PlacementID : Claim(g, id, n)
    \/ owner[g].version < MaxVersion /\ (HandOver(g, n) \/ TakeOver(g, n))

\* Everything the contract allows, within the bounds.
DirectoryStep ==
    /\ \/ now < MaxTime /\ Logged(ClockMoves(now + 1))
       \/ \E n \in Node : \/ Logged(Extend(n, now + TTL))
                          \/ \E s \in Session : Logged(Serve(n, s, now + TTL))
                          \/ Logged(Leave(n))
                          \/ Logged(Notice(n))
       \/ \E g \in Grain : \/ \E n \in Node : Logged(NewOwner(g, n))
                           \/ Logged(GiveBack(g))
                           \/ Logged(Audit(g))
    /\ UNCHANGED <<routerVars, request>>

-----------------------------------------------------------------------------
(* Requests.                                                               *)

Begin(t, op, g, group) ==
    request' = [request EXCEPT ![t] =
                  [pc |-> "ask", op |-> op, grain |-> g, group |-> group,
                   epoch |-> epoch, start |-> now, p |-> NoPlacement, route |-> NoRoute]]

\* A hit is answered at once and changes nothing; a stale entry is dropped.
BeginLookup(t, g) ==
    /\ request[t] = NoRequest
    /\ ~Usable(GetCachedPlacement(g))
    /\ Begin(t, "lookup", g, "")
    /\ IF GetCachedPlacement(g) # NoRoute THEN DeleteCachedPlacement(g)
       ELSE UNCHANGED <<entries, byNode>>
    /\ UNCHANGED <<ownershipVars, degraded, epoch, lastEvent, stream>>

BeginResolve(t, g, group) ==
    /\ request[t] = NoRequest
    /\ LET cached == GetCachedPlacement(g)
       IN ~(Usable(cached) /\ GroupOf[cached.p.node] = group)
    /\ Begin(t, "resolve", g, group)
    /\ UNCHANGED <<ownershipVars, routerVars, stream>>

BeginAllocate(t, g, group) ==
    /\ request[t] = NoRequest
    /\ Begin(t, "allocate", g, group)
    /\ UNCHANGED <<ownershipVars, routerVars, stream>>

\* The directory answers with the stored placement of a healthy owner.  Its
\* deadline is counted from a moment between the start of the request and the
\* script; a route that has run out on arrival is an error.
Routed(t, p) ==
    LET k == request[t] IN
    \E start \in k.start .. now :
      LET route == [p |-> p, until |-> start + (serving[p.node].deadline - now)]
      IN /\ Usable(route)
         /\ request' = [request EXCEPT ![t].pc = "store", ![t].route = route]

\* directory.Lookup: the whole request, or the second half of an Allocate.
AskLookup(t) ==
    LET k == request[t] IN
    /\ \/ k.pc = "ask" /\ k.op = "lookup"
       \/ k.pc = "confirm"
    /\ Trusted(owner[k.grain])
    /\ Routed(t, owner[k.grain])
    /\ UNCHANGED <<ownershipVars, routerVars, stream>>

\* directory.ResolveRoute stays within the requested group: it reports a
\* trusted owner, makes the first placement or moves one whose owner is gone.
AskResolve(t) ==
    LET k == request[t] IN
    /\ k.pc = "ask" /\ k.op = "resolve"
    /\ owner[k.grain] # NoPlacement => GroupOf[owner[k.grain].node] = k.group
    /\ \/ Trusted(owner[k.grain]) /\ UNCHANGED <<ownershipVars, stream>>
       \/ \E n \in Node :
            /\ GroupOf[n] = k.group
            /\ \/ \E id \in PlacementID : Logged(Claim(k.grain, id, n))
               \/ owner[k.grain].version < MaxVersion /\ Logged(TakeOver(k.grain, n))
    /\ Routed(t, owner'[k.grain])
    /\ UNCHANGED routerVars

\* directory.Allocate answers a trusted owner whatever its group.
AskAllocate(t) ==
    LET k == request[t] IN
    /\ k.pc = "ask" /\ k.op = "allocate"
    /\ \/ Trusted(owner[k.grain]) /\ UNCHANGED <<ownershipVars, stream>>
       \/ \E n \in Node, id \in PlacementID :
            GroupOf[n] = k.group /\ Logged(Claim(k.grain, id, n))
    /\ request' = [request EXCEPT ![t].pc = "confirm", ![t].p = owner'[k.grain]]
    /\ UNCHANGED routerVars

\* The only event handled since the request began announced this very
\* allocation: the directory published it while the goroutine was waiting.
matchesSynchronousCreated(k) ==
    /\ epoch = k.epoch + 1
    /\ lastEvent.type = "PlacementCreated"
    /\ lastEvent.grain = k.grain
    /\ lastEvent.id = k.p.id /\ lastEvent.version = k.p.version

\* Mutant of EpochAllows: whatever was handled meanwhile.
EpochIgnored(k) == TRUE

\* No event was handled since the request began, or only its own.
EpochAllows(k) == \/ epoch = k.epoch
                  \/ k.op = "allocate" /\ matchesSynchronousCreated(k)

StoreRoute(t) ==
    LET k == request[t] IN
    /\ k.pc = "store"
    /\ request' = [request EXCEPT ![t] = NoRequest]
    /\ IF Usable(k.route) /\ EpochAllows(k)
       THEN SetCachedPlacement(k.grain, k.route)
       ELSE UNCHANGED <<entries, byNode>>
    /\ UNCHANGED <<ownershipVars, degraded, epoch, lastEvent, stream>>

\* Any error of the directory, or a context that ends.
GiveUp(t) ==
    /\ request[t].pc \in {"ask", "confirm"}
    /\ request' = [request EXCEPT ![t] = NoRequest]
    /\ UNCHANGED <<ownershipVars, routerVars, stream>>

-----------------------------------------------------------------------------
(* Events and degradation.                                                 *)

Advance(event) ==
    /\ epoch < MaxEpoch
    /\ epoch' = epoch + 1
    /\ lastEvent' = event

HandleEvent(e) ==
    /\ UNCHANGED degraded
    /\ \/ e.type \in PlacementEventTypes
          /\ Advance(e) /\ DeleteCachedPlacement(e.grain)
       \/ e.type \in NodeEvictingTypes
          /\ Advance(e) /\ DeleteCachedPlacementsOf({e.node})
       \/ e.type = "NodeRestored"
          /\ Advance(e)
          /\ DeleteCachedPlacementsOf({n \in Node : GroupOf[n] = GroupOf[e.node]})
       \/ e.type = "NodeRegistered" /\ UNCHANGED <<entries, byNode, epoch, lastEvent>>
       \/ e.type = "ManualCacheClear" /\ Advance(e) /\ ClearPlacementCache

\* One event of the stream; when its XACK fails the event is delivered again.
Deliver ==
    /\ stream # <<>>
    /\ HandleEvent(Head(stream))
    /\ stream' \in {stream, Tail(stream)}
    /\ UNCHANGED <<ownershipVars, request>>

\* A hint, or an operator clearing the cache.
ManualCacheClear ==
    /\ HandleEvent([type |-> "ManualCacheClear"])
    /\ UNCHANGED <<ownershipVars, request, stream>>

\* The host reports that events can no longer be relied on ...
Degrade ==
    /\ Advance(NoEvent)
    /\ degraded' = TRUE
    /\ entries' = EmptyEntries /\ byNode' = EmptyByNode
    /\ UNCHANGED <<ownershipVars, request, stream>>

\* ... events may then be lost (a trimmed stream, a new consumer group) ...
LoseEvents ==
    /\ degraded
    /\ stream # <<>> /\ stream' = <<>>
    /\ UNCHANGED <<ownershipVars, routerVars, request>>

\* ... until it reports that they are back.
RecoverRouter ==
    /\ Advance(NoEvent)
    /\ ClearPlacementCache
    /\ degraded' = FALSE
    /\ UNCHANGED <<ownershipVars, request, stream>>

RequestStep(t) ==
    \/ \E g \in Grain : \/ BeginLookup(t, g)
                        \/ \E group \in Group : \/ BeginResolve(t, g, group)
                                                \/ BeginAllocate(t, g, group)
    \/ AskLookup(t) \/ AskResolve(t) \/ AskAllocate(t)
    \/ StoreRoute(t)
    \/ GiveUp(t)

CachedNext ==
    \/ DirectoryStep
    \/ \E t \in Thread : RequestStep(t)
    \/ Deliver
    \/ ManualCacheClear
    \/ Degrade
    \/ LoseEvents
    \/ RecoverRouter

CachedSpec == CachedInit /\ [][CachedNext]_cachedVars

-----------------------------------------------------------------------------
(* Properties.                                                             *)

\* The reverse index lists exactly the cached routes of a node, so that an
\* event about a node evicts all of them; a degraded cache is empty.
CacheIndexCoherent ==
    /\ \A n \in Node : byNode[n] = {g \in Grain : entries[g].p.node = n}
    /\ degraded => entries = EmptyEntries

\* What a request served from the cache relies on: the directory still holds
\* that placement and its owner is healthy - or an event that will evict the
\* entry is on its way.  A route read before an event was handled and stored
\* after it would break this.
CacheCoherent ==
    \A g \in Grain :
      Usable(GetCachedPlacement(g))
        => \/ owner[g] = entries[g].p /\ Trusted(owner[g])
           \/ \E i \in DOMAIN stream : Evicts(stream[i], g, entries[g].p.node)
=============================================================================
