-------------------------- MODULE GrainActivation ---------------------------
(***************************************************************************)
(* The ProtoActor adapter of one node session: src/adapters/protoactor/    *)
(* resolver.go caches the actor (PID) of each grain, activator.go spawns   *)
(* it.  A request is split where the code waits for the directory or for   *)
(* a lock:                                                                 *)
(*                                                                         *)
(*   Begin     the cache, under resolver.mu; resolver.gate is held for     *)
(*             reading from here to Store;                                 *)
(*   Ask       directory.ResolveRoute;                                     *)
(*   Receive   its answer;                                                 *)
(*   LookUp    Activate takes activator.mu and asks directory.Lookup;      *)
(*   Spawn     ... and, still under activator.mu, starts the actor;        *)
(*   Store     the cache again.                                            *)
(*                                                                         *)
(* Meanwhile the directory, which keeps the contract of Ownership, moves   *)
(* grains and replaces sessions, and its events reach HandleEvent late,    *)
(* twice or never.  A caller whose target group does not fit gets an error *)
(* and is left out.                                                        *)
(***************************************************************************)
EXTENDS Ownership

CONSTANTS Self, SelfSession,  \* nodeIdentity and nodeSessionID of the activator
          PID,                \* actors that may be spawned, each once
          NoPID,
          Thread, NoThread,   \* goroutines that resolve PIDs
          TTL,                \* lease duration in clock ticks
          MaxTime,            \* bound: the clock stops here
          MaxVersion          \* bound: owners of one lifetime

ASSUME ActivationAssumption ==
    /\ Self \in Node /\ SelfSession \in Session
    /\ NoPID \notin PID /\ NoThread \notin Thread
    /\ {TTL, MaxTime, MaxVersion} \subseteq Nat

VARIABLES cache,      \* resolver.cache
          degraded,   \* resolver.degraded
          gated,      \* resolver.fenced
          active,     \* activator.active
          holder,     \* the goroutine that holds activator.mu
          fenced,     \* activator.fenced
          stopping,   \* the PIDs Fence has collected and not stopped yet
          stopped,    \* ... and those it has stopped
          born,       \* the placement each PID was spawned under
          forgotten,  \* history: PIDs the activator refused or a caller had removed
          request     \* what each goroutine has in flight

resolverVars == <<cache, degraded, gated>>
activatorVars == <<active, holder, fenced, stopping>>
actorVars == <<born, stopped, forgotten>>
adapterVars == <<resolverVars, activatorVars, actorVars, request>>
activationVars == <<ownershipVars, adapterVars>>

-----------------------------------------------------------------------------
PIDRoute(pid, p, until) == [pid |-> pid, p |-> p, until |-> until]

NoRoute == PIDRoute(NoPID, NoPlacement, 0)

\* The activator's entry: nothing reads how long its lease was.
Actor(pid, p) == [pid |-> pid, p |-> p]

NoActor == Actor(NoPID, NoPlacement)

\* An entry of an authorization: identifier, owner and version.
sameAuthorization(entry, p) == entry.pid # NoPID /\ entry.p = p

EmptyRoutes == [g \in Grain |-> NoRoute]
NoActors == [g \in Grain |-> NoActor]

Idle == [pc |-> "idle"]

\* Between Begin and the return of ResolvePID.
Inside(t) == request[t].pc \notin {"idle", "removing"}

ActivationInit ==
    /\ OwnershipInit
    /\ cache = EmptyRoutes /\ degraded = FALSE /\ gated = FALSE
    /\ active = NoActors /\ holder = NoThread
    /\ fenced = FALSE /\ stopping = {} /\ stopped = {}
    /\ born = [a \in PID |-> NoPlacement] /\ forgotten = {}
    /\ request = [t \in Thread |-> Idle]

NewOwner(g, n) ==
    \/ \E id \in PlacementID : Claim(g, id, n)
    \/ owner[g].version < MaxVersion /\ (HandOver(g, n) \/ TakeOver(g, n))

\* Any process changes the directory, within the contract and the bounds.
DirectoryStep ==
    /\ \/ now < MaxTime /\ ClockMoves(now + 1)
       \/ \E n \in Node : \/ Extend(n, now + TTL)
                          \/ \E s \in Session : Serve(n, s, now + TTL)
                          \/ Leave(n)
       \/ \E g \in Grain : GiveBack(g) \/ \E n \in Node : NewOwner(g, n)
    /\ UNCHANGED adapterVars

-----------------------------------------------------------------------------
(* The resolver.                                                           *)

Proceeds(t, r) == request' = [request EXCEPT ![t] = r]

Hit(route) == route # NoRoute /\ ~degraded /\ now < route.until

\* A hit is answered at once; on a miss the request remembers what it read.
Begin(t, g) ==
    /\ request[t] = Idle
    /\ ~gated
    /\ ~Hit(cache[g])
    /\ Proceeds(t, [pc |-> "ask", grain |-> g, cached |-> cache[g], degraded |-> degraded])
    /\ UNCHANGED <<ownershipVars, resolverVars, activatorVars, actorVars>>

\* The directory answers with an owner it trusts; the route ends with its lease.
Ask(t) ==
    LET r == request[t]  p == owner[r.grain] IN
    /\ r.pc = "ask"
    /\ Trusted(p)
    /\ Proceeds(t, [pc |-> "receive", grain |-> r.grain, cached |-> r.cached,
                   degraded |-> r.degraded, p |-> p, until |-> serving[p.node].deadline])
    /\ UNCHANGED <<ownershipVars, resolverVars, activatorVars, actorVars>>

\* store, unless the resolver was degraded when the request began.
StoreUnless(wasDegraded, g, route) ==
    cache' = IF wasDegraded THEN cache ELSE [cache EXCEPT ![g] = route]

\* Mutant of Known: a version does not matter.
KnownOnNode(r) == r.cached # NoRoute /\ r.cached.p.id = r.p.id /\ r.cached.p.node = r.p.node

Known(r) == sameAuthorization(r.cached, r.p)

\* The PID known from before serves on, or Activate is called.
Receive(t) ==
    LET r == request[t]  refreshed == PIDRoute(r.cached.pid, r.p, r.until) IN
    /\ r.pc = "receive"
    /\ now < r.until
    /\ \/ /\ Known(r)
          /\ StoreUnless(r.degraded, r.grain, refreshed)
          /\ Proceeds(t, Idle)
       \/ /\ ~Known(r)
          /\ Proceeds(t, [pc |-> "activate", grain |-> r.grain, degraded |-> r.degraded,
                         p |-> r.p, until |-> r.until])
          /\ UNCHANGED cache
    /\ UNCHANGED <<ownershipVars, degraded, gated, activatorVars, actorVars>>

Store(t) ==
    LET r == request[t] IN
    /\ r.pc = "store"
    /\ StoreUnless(r.degraded, r.grain, r.route)
    /\ Proceeds(t, Idle)
    /\ UNCHANGED <<ownershipVars, degraded, gated, activatorVars, actorVars>>

\* An event drops the route of its grain, the routes to its node, or all.
HandleEvent ==
    /\ \/ \E g \in Grain : cache' = [cache EXCEPT ![g] = NoRoute]
       \/ \E n \in Node : cache' = [g \in Grain |-> IF cache[g].p.node = n THEN NoRoute
                                                    ELSE cache[g]]
       \/ cache' = EmptyRoutes
    /\ UNCHANGED <<ownershipVars, degraded, gated, activatorVars, actorVars, request>>

SetDegraded(d) ==
    /\ degraded' = d
    /\ cache' = EmptyRoutes
    /\ UNCHANGED <<ownershipVars, gated, activatorVars, actorVars, request>>

Degrade == SetDegraded(TRUE)

RecoverResolver == SetDegraded(FALSE)

CloseGate == /\ gated' = TRUE
             /\ cache' = EmptyRoutes
             /\ UNCHANGED <<ownershipVars, degraded, activatorVars, actorVars, request>>

\* Mutant of FenceResolver: requests are not waited for.
FenceResolverAtOnce == CloseGate

\* gate.Lock waits until no request holds it for reading.
FenceResolver == (\A t \in Thread : ~Inside(t)) /\ CloseGate

-----------------------------------------------------------------------------
(* The activator.                                                          *)

\* Mutant of Confirms: the route the caller brought is taken for current.
ConfirmsAnything(p, g) == Trusted(owner[g])

\* Lookup finds the placement the caller expects, with a valid lease.
Confirms(p, g) == owner[g] = p /\ Trusted(p)

LookUp(t) ==
    LET r == request[t] IN
    /\ r.pc = "activate"
    /\ r.p.node = Self /\ r.p.session = SelfSession
    /\ holder = NoThread /\ ~fenced
    /\ Confirms(r.p, r.grain)
    /\ holder' = t
    /\ Proceeds(t, [pc |-> "spawn", grain |-> r.grain, degraded |-> r.degraded, p |-> r.p,
                   until |-> r.until])
    /\ UNCHANGED <<ownershipVars, resolverVars, active, fenced, stopping, actorVars>>

\* Mutant of Running: the activator does not look for a running actor.
RunningIgnored(g, p) == FALSE

Running(g, p) == sameAuthorization(active[g], p)

\* Mutant of Resolved: the lease is counted anew when the actor runs.
ResolvedAnew(a, r) == PIDRoute(a, r.p, now + TTL)

\* The PID under the route it was asked for, however long Activate took.
Resolved(a, r) == PIDRoute(a, r.p, r.until)

\* The grain's actor runs already, or a new one is started and takes the place
\* of whatever the map held for the grain.
Spawn(t) ==
    LET r == request[t] IN
    /\ r.pc = "spawn"
    /\ \E a \in PID :
         /\ \/ /\ Running(r.grain, r.p) /\ a = active[r.grain].pid
               /\ UNCHANGED <<active, born>>
            \/ /\ ~Running(r.grain, r.p) /\ born[a] = NoPlacement
               /\ born' = [born EXCEPT ![a] = r.p]
               /\ active' = [active EXCEPT ![r.grain] = Actor(a, r.p)]
         /\ Proceeds(t, [pc |-> "store", grain |-> r.grain, degraded |-> r.degraded,
                        route |-> Resolved(a, r)])
    /\ holder' = NoThread
    /\ UNCHANGED <<ownershipVars, resolverVars, fenced, stopping, stopped, forgotten>>

\* An actor was started, but spawn returned an error or a PID of another address:
\* the activator refuses it, and no map holds it.
RefuseActor(t) ==
    LET r == request[t] IN
    /\ r.pc = "spawn" /\ ~Running(r.grain, r.p)
    /\ \E a \in PID : /\ born[a] = NoPlacement
                      /\ born' = [born EXCEPT ![a] = r.p]
                      /\ forgotten' = forgotten \cup {a}
    /\ holder' = NoThread
    /\ Proceeds(t, Idle)
    /\ UNCHANGED <<ownershipVars, resolverVars, active, fenced, stopping, stopped>>

\* An error on the way: an owner elsewhere, a fenced activator, a placement that
\* changed, a route that ran out, a timeout, an actor that did not start.
Fail(t) ==
    /\ request[t].pc \in {"ask", "receive", "activate", "spawn"}
    /\ holder' = IF holder = t THEN NoThread ELSE holder
    /\ Proceeds(t, Idle)
    /\ UNCHANGED <<ownershipVars, resolverVars, active, fenced, stopping, actorVars>>

\* Fence takes activator.mu, collects and clears the map; called again it finds
\* nothing to collect ...
FenceActivator ==
    /\ ~fenced /\ holder = NoThread
    /\ fenced' = TRUE
    /\ stopping' = {active[g].pid : g \in Grain} \ {NoPID}
    /\ active' = NoActors
    /\ UNCHANGED <<ownershipVars, resolverVars, holder, actorVars, request>>

\* ... and stops what it collected.  An actor whose stop fails stays behind, and
\* Fence returns an error.
StopActor(a) ==
    /\ a \in stopping
    /\ stopping' = stopping \ {a}
    /\ stopped' = stopped \cup {a}
    /\ UNCHANGED <<ownershipVars, resolverVars, active, holder, fenced, born, forgotten,
                   request>>

-----------------------------------------------------------------------------
(* Callers.                                                                *)

\* Context.Request after a timeout or a dead letter, or IdentityLookup.RemovePid:
\* Resolver.Remove forgets a PID its caller was given once, in the cache ...
RemoveFromCache(t, g, a) ==
    /\ request[t] = Idle
    /\ born[a] # NoPlacement
    /\ cache' = IF cache[g].pid = a THEN [cache EXCEPT ![g] = NoRoute] ELSE cache
    /\ Proceeds(t, [pc |-> "removing", grain |-> g, pid |-> a])
    /\ UNCHANGED <<ownershipVars, degraded, gated, activatorVars, actorVars>>

\* ... and in the activator's map.  The actor is not stopped.
RemoveFromActivator(t) ==
    LET r == request[t] IN
    /\ r.pc = "removing"
    /\ holder = NoThread
    /\ active' = IF active[r.grain].pid = r.pid THEN [active EXCEPT ![r.grain] = NoActor]
                 ELSE active
    /\ forgotten' = forgotten \cup {r.pid}
    /\ Proceeds(t, Idle)
    /\ UNCHANGED <<ownershipVars, resolverVars, holder, fenced, stopping, born, stopped>>

RequestStep(t) ==
    \/ \E g \in Grain : Begin(t, g) \/ \E a \in PID : RemoveFromCache(t, g, a)
    \/ Ask(t) \/ Receive(t) \/ LookUp(t) \/ Spawn(t) \/ RefuseActor(t) \/ Store(t)
    \/ Fail(t)
    \/ RemoveFromActivator(t)

ActivationNext ==
    \/ DirectoryStep
    \/ \E t \in Thread : RequestStep(t)
    \/ HandleEvent \/ Degrade \/ RecoverResolver
    \/ FenceResolver \/ FenceActivator
    \/ \E a \in PID : StopActor(a)

ActivationSpec == ActivationInit /\ [][ActivationNext]_activationVars

-----------------------------------------------------------------------------
(* Properties.                                                             *)

Spawned == {a \in PID : born[a] # NoPlacement}

Answered == {request[t].route : t \in {u \in Thread : request[u].pc = "store"}}

\* Wherever a PID stands beside a placement - in the cache, in the activator, in
\* an answer - it was spawned under that very placement: routes are refreshed
\* from the cache and activations shared between requests, but an actor is never
\* passed off under another owner's version.
RoutesNameTheirActivation ==
    \A route \in {cache[g] : g \in Grain} \cup {active[g] : g \in Grain} \cup Answered :
      route.pid # NoPID => born[route.pid] = route.p

\* The resolver stores a route after two remote calls, and the event that would have
\* evicted it may have passed meanwhile or been lost.  Such a route still ends with
\* the lease behind it: as long as it is used, nobody can have recovered the grain,
\* unless the session was replaced or has left.
StaleRouteEndsWithLease ==
    \A g \in Grain :
      LET route == cache[g] IN
      (now < route.until /\ serving[route.p.node].session = route.p.session)
        => Trusted(route.p)

\* However requests overlap, one authorization is given one actor - unless the
\* activator refused the first or a caller had it removed, after a timeout or
\* because it had ended.
OneActivationEach ==
    \A a, b \in Spawned : (a # b /\ born[a] = born[b]) => {a, b} \cap forgotten # {}

\* Actors of one lifetime are spawned in the order of its owners: a request that
\* comes late with an old route, or waits long for the lock, starts none after
\* the grain has come back to this session as a later owner.
SpawnsFollowOwners ==
    [][\A a \in PID \ Spawned, b \in Spawned :
         born'[a].id = born[b].id => born'[a].version >= born[b].version]_activationVars

\* Fences are final: a fenced resolver never caches again, although requests are
\* under way when it is fenced, and a fenced activator spawns nothing and keeps
\* no actor.
FenceIsFinal ==
    [][/\ gated => gated' /\ cache' = EmptyRoutes
       /\ fenced => fenced' /\ born' = born /\ active' = NoActors]_activationVars

\* activator.go says of Fence that it waits for every PID created by this node
\* session to stop - here but for the ones it refused or a caller had removed.
FenceStopsAll == fenced /\ stopping = {} => Spawned \subseteq stopped \cup forgotten
=============================================================================
