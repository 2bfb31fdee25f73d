------------------------ MODULE GrainActivation_proofs ------------------------
(***************************************************************************)
(* What the ProtoActor adapter keeps for any grains, actors and requests.  *)
(* Two facts carry the invariant: a placement a request has seen is one    *)
(* its grain has had, and nothing newer of that lifetime has an actor      *)
(* while a goroutine holds activator.mu between its look-up and its spawn  *)
(* (TurnsOK); hence the actor of the owner of the moment is always the one *)
(* in the activator's map (ActivatorOK).                                   *)
(***************************************************************************)
EXTENDS GrainActivation, TLAPS

OwnersOK ==
    /\ owner = [g \in Grain |-> owner[g]]
    /\ spent \subseteq PlacementID
    /\ \A g \in Grain :
         owner[g] # NoPlacement => owner[g].id \in spent /\ owner[g].version \in Nat
    /\ \A g, h \in Grain :
         (g # h /\ owner[g] # NoPlacement /\ owner[h] # NoPlacement) => owner[g].id # owner[h].id

\* p is the owner of g, or was an earlier one.
Past(g, p) ==
    /\ p.id \in spent /\ p.version \in Nat
    /\ \A h \in Grain :
         owner[h].id = p.id => h = g /\ (p = owner[g] \/ p.version < owner[g].version)

\* A PID beside a placement was spawned under it.
Names(route) == \/ route.pid = NoPID
                \/ /\ route.pid \in PID /\ route.p # NoPlacement
                   /\ born[route.pid] = route.p

RequestOK(r) ==
    /\ r.pc \in {"ask", "receive"} => Names(r.cached)
    /\ r.pc \in {"receive", "activate", "spawn"} => Past(r.grain, r.p)
    /\ r.pc = "store" => Names(r.route)
    /\ r.pc # "idle" => r.grain \in Grain
    /\ r.pc = "removing" => r.pid \in PID

RequestsOK ==
    /\ request = [t \in Thread |-> request[t]]
    /\ \A t \in Thread : RequestOK(request[t]) /\ (request[t].pc = "spawn" <=> holder = t)

ResolverOK ==
    /\ cache = [g \in Grain |-> cache[g]]
    /\ \A g \in Grain : Names(cache[g])
    /\ gated => cache = EmptyRoutes /\ \A t \in Thread : ~Inside(t)

BornOK ==
    /\ born = [a \in PID |-> born[a]]
    /\ \A b \in Spawned :
         /\ born[b].id \in spent /\ born[b].version \in Nat
         /\ \A g \in Grain : owner[g].id = born[b].id => born[b].version <= owner[g].version

ActivatorOK ==
    /\ active = [g \in Grain |-> active[g]]
    /\ \A g \in Grain : Names(active[g])
    /\ fenced => active = NoActors /\ holder = NoThread
    /\ \A g \in Grain, b \in Spawned \ forgotten :
         ~fenced /\ owner[g] = born[b] => active[g] = Actor(b, born[b])

TurnsOK ==
    \A t \in Thread : request[t].pc = "spawn" =>
      \A b \in Spawned :
        /\ born[b].id = request[t].p.id => born[b].version <= request[t].p.version
        /\ b \notin forgotten /\ born[b] = request[t].p
             => active[request[t].grain] = Actor(b, born[b])
        /\ owner[request[t].grain] = born[b] => born[b] = request[t].p

ActivationInv == /\ OwnersOK /\ RequestsOK /\ ResolverOK
                 /\ BornOK /\ ActivatorOK /\ TurnsOK
                 /\ OneActivationEach

-----------------------------------------------------------------------------
(* The directory.                                                          *)

\* An identifier in use is none of the empty field.
LEMMA SpentIsReal ==
    ASSUME OwnersOK
    PROVE  NoPlacement.id \notin spent
  BY EventsAssumption DEF OwnersOK, NoPlacement

\* What the contract lets happen to the owner of a grain.
NewOwnerOf(g, q) ==
    \/ q = NoPlacement /\ spent' = spent
    \/ /\ owner[g] = NoPlacement
       /\ q.id \in PlacementID \ spent /\ spent' = spent \cup {q.id} /\ q.version = 1
    \/ /\ owner[g] # NoPlacement
       /\ q.id = owner[g].id /\ q.version = owner[g].version + 1 /\ spent' = spent

LEMMA OwnerSteps ==
    ASSUME DirectoryStep
    PROVE  \/ UNCHANGED <<owner, spent>>
           \/ \E g \in Grain : \E q : owner' = [owner EXCEPT ![g] = q] /\ NewOwnerOf(g, q)
  <1>1. CASE UNCHANGED <<owner, spent>>
    BY <1>1
  <1>2. ASSUME NEW g \in Grain, NEW n \in Node, NEW id \in PlacementID, Claim(g, id, n)
        PROVE  \E q : owner' = [owner EXCEPT ![g] = q] /\ NewOwnerOf(g, q)
    <2> DEFINE q == [id |-> id, node |-> n, session |-> serving[n].session, version |-> 1]
    <2>1. q.id = id /\ q.version = 1
      OBVIOUS
    <2>2. owner' = [owner EXCEPT ![g] = q] /\ NewOwnerOf(g, q)
      BY <1>2, <2>1 DEF Claim, Becomes, NewOwnerOf
    <2> QED BY <2>2
  <1>3. ASSUME NEW g \in Grain, NEW n \in Node, HandOver(g, n) \/ TakeOver(g, n)
        PROVE  \E q : owner' = [owner EXCEPT ![g] = q] /\ NewOwnerOf(g, q)
    <2> DEFINE q == Succession(owner[g], n, serving[n].session)
    <2>1. q.id = owner[g].id /\ q.version = owner[g].version + 1
      BY DEF Succession
    <2>2. owner' = [owner EXCEPT ![g] = q] /\ NewOwnerOf(g, q)
      BY <1>3, <2>1 DEF HandOver, TakeOver, Succeed, Becomes, NewOwnerOf
    <2> QED BY <2>2
  <1>4. ASSUME NEW g \in Grain, GiveBack(g)
        PROVE  \E q : owner' = [owner EXCEPT ![g] = q] /\ NewOwnerOf(g, q)
    BY <1>4 DEF GiveBack, NewOwnerOf
  <1> QED BY <1>1, <1>2, <1>3, <1>4
          DEF DirectoryStep, NewOwner, ClockMoves, Extend, Serve, Leave

LEMMA OwnerStepKeepsOwners ==
    ASSUME OwnersOK, NEW g \in Grain, NEW q, owner' = [owner EXCEPT ![g] = q],
           NewOwnerOf(g, q)
    PROVE  /\ OwnersOK'
           /\ \A h \in Grain : \A p : Past(h, p) => Past(h, p)'
  <1>1. /\ owner'[g] = q /\ \A h \in Grain : h # g => owner'[h] = owner[h]
        /\ spent \subseteq spent'
    BY DEF OwnersOK, NewOwnerOf
  <1>2. OwnersOK'
    <2>1. spent' \subseteq PlacementID /\ owner' = [h \in Grain |-> owner'[h]]
      BY DEF OwnersOK, NewOwnerOf
    <2>2. owner'[g] # NoPlacement => owner'[g].id \in spent' /\ owner'[g].version \in Nat
      BY <1>1 DEF OwnersOK, NewOwnerOf
    <2>3. ASSUME NEW h \in Grain, h # g, owner[h] # NoPlacement, q # NoPlacement
          PROVE  owner[h].id # q.id
      BY <2>3 DEF OwnersOK, NewOwnerOf
    <2> QED BY <1>1, <2>1, <2>2, <2>3 DEF OwnersOK
  <1>3. ASSUME NEW h \in Grain, NEW p, Past(h, p)
        PROVE  Past(h, p)'
    <2>1. p.id \in spent /\ p.version \in Nat
      BY <1>3 DEF Past
    <2>2. CASE q = NoPlacement
      BY <1>1, <1>3, <2>1, <2>2, SpentIsReal DEF Past
    <2>3. CASE q.id \notin spent
      BY <1>1, <1>3, <2>1, <2>3 DEF Past
    <2>4. CASE /\ owner[g] # NoPlacement
               /\ q.id = owner[g].id /\ q.version = owner[g].version + 1
      <3>1. owner[g].version \in Nat
        BY <2>4 DEF OwnersOK
      <3>2. ASSUME q.id = p.id
            PROVE  h = g /\ p.version < q.version
        <4>1. h = g /\ (p = owner[g] \/ p.version < owner[g].version)
          BY <1>3, <2>4, <3>2 DEF Past
        <4>2. p = owner[g] => p.version = owner[g].version
          OBVIOUS
        <4> QED BY <2>1, <2>4, <3>1, <4>1, <4>2
      <3>3. ASSUME NEW k \in Grain, owner'[k].id = p.id
            PROVE  k = h /\ (p = owner'[h] \/ p.version < owner'[h].version)
        <4>1. CASE k = g
          BY <1>1, <3>2, <3>3, <4>1
        <4>2. CASE k # g
          BY <1>1, <1>3, <3>3, <4>2 DEF Past
        <4> QED BY <4>1, <4>2
      <3> QED BY <1>1, <2>1, <3>3 DEF Past
    <2> QED BY <2>2, <2>3, <2>4 DEF NewOwnerOf
  <1> QED BY <1>2, <1>3

\* The directory knows nothing of the adapter: no actor it does not know of
\* becomes the owner's.
LEMMA DirectoryKeepsInv ==
    ASSUME ActivationInv, DirectoryStep
    PROVE  ActivationInv'
  <1> USE DEF ActivationInv
  <1>1. UNCHANGED <<cache, gated, active, holder, fenced, born, forgotten, request>>
    BY DEF DirectoryStep, adapterVars, resolverVars, activatorVars, actorVars
  <1>2. OwnersOK' /\ \A h \in Grain : \A p : Past(h, p) => Past(h, p)'
    <2>1. CASE UNCHANGED <<owner, spent>>
      BY <2>1 DEF OwnersOK, Past
    <2> QED BY <2>1, OwnerSteps, OwnerStepKeepsOwners
  <1>3. RequestsOK'
    BY <1>1, <1>2 DEF RequestsOK, RequestOK, Names
  <1>4. ResolverOK'
    BY <1>1 DEF ResolverOK, Names, Inside
  <1>5. ASSUME NEW g \in Grain, NEW q, owner' = [owner EXCEPT ![g] = q], NewOwnerOf(g, q)
        PROVE  BornOK' /\ ActivatorOK' /\ TurnsOK'
    <2>1. /\ owner'[g] = q /\ \A h \in Grain : h # g => owner'[h] = owner[h]
          /\ spent \subseteq spent' /\ Spawned' = Spawned
      BY <1>1, <1>5 DEF OwnersOK, NewOwnerOf, Spawned
    <2>2. ASSUME NEW b \in Spawned
          PROVE  /\ q # born[b]
                 /\ q.id = born[b].id => born[b].version <= q.version
      <3>1. born[b].id \in spent /\ born[b].version \in Nat
        BY DEF BornOK
      <3>2. CASE q = NoPlacement \/ q.id \notin spent
        BY <3>1, <3>2, SpentIsReal
      <3>3. CASE owner[g] # NoPlacement /\ q.id = owner[g].id
                 /\ q.version = owner[g].version + 1
        <4>1. owner[g].version \in Nat
          BY <3>3 DEF OwnersOK
        <4>2. q.id = born[b].id => born[b].version <= owner[g].version
          BY <3>3 DEF BornOK
        <4>3. q.id = born[b].id => born[b].version < q.version
          BY <3>1, <3>3, <4>1, <4>2
        <4>4. q = born[b] => q.id = born[b].id /\ q.version = born[b].version
          OBVIOUS
        <4> QED BY <3>1, <4>3, <4>4, <3>3, <4>1
      <3> QED BY <1>5, <3>2, <3>3 DEF NewOwnerOf
    <2>3. BornOK'
      BY <1>1, <2>1, <2>2 DEF BornOK
    <2>4. ActivatorOK'
      BY <1>1, <2>1, <2>2 DEF ActivatorOK, Names
    <2>5. TurnsOK'
      <3>1. \A t \in Thread : request[t].pc = "spawn" => request[t].grain \in Grain
        BY DEF RequestsOK, RequestOK
      <3> QED BY <1>1, <2>1, <2>2, <3>1 DEF TurnsOK
    <2> QED BY <2>3, <2>4, <2>5
  <1>6. BornOK' /\ ActivatorOK' /\ TurnsOK'
    <2>1. CASE UNCHANGED <<owner, spent>>
      BY <1>1, <2>1 DEF BornOK, ActivatorOK, TurnsOK, Names, Spawned
    <2> QED BY <1>5, <2>1, OwnerSteps
  <1>7. OneActivationEach'
    BY <1>1 DEF OneActivationEach, Spawned
  <1> QED BY <1>2, <1>3, <1>4, <1>6, <1>7

-----------------------------------------------------------------------------
(* The resolver.                                                           *)

LEMMA ProceedsOne ==
    ASSUME RequestsOK, NEW t \in Thread, NEW r, Proceeds(t, r)
    PROVE  /\ request' = [u \in Thread |-> request'[u]]
           /\ request'[t] = r /\ \A u \in Thread : u # t => request'[u] = request[u]
  BY DEF RequestsOK, Proceeds

\* One goroutine goes on, and not into the spawn; the activator stands still.
LEMMA ResolverKeepsInv ==
    ASSUME ActivationInv,
           UNCHANGED <<ownershipVars, active, holder, fenced, born, forgotten>>,
           \/ UNCHANGED request
           \/ \E t \in Thread : \E r : /\ Proceeds(t, r) /\ RequestOK(r)
                                   /\ request[t].pc # "spawn" /\ r.pc # "spawn",
           ResolverOK'
    PROVE  ActivationInv'
  <1> USE DEF ActivationInv
  <1>1. UNCHANGED <<owner, spent, active, holder, fenced, born, forgotten, Spawned>>
    BY DEF ownershipVars, Spawned
  <1>2. OwnersOK' /\ BornOK' /\ OneActivationEach'
    BY <1>1 DEF OwnersOK, BornOK, OneActivationEach
  <1>5. ActivatorOK'
    <2>1. \A route : Names(route)' <=> Names(route)
      BY <1>1 DEF Names
    <2>2. NoActors' = NoActors
      BY DEF NoActors
    <2> QED BY <1>1, <2>1, <2>2 DEF ActivatorOK
  <1>3. \A r : RequestOK(r)' <=> RequestOK(r)
    BY <1>1 DEF RequestOK, Names, Past
  <1>4. RequestsOK' /\ TurnsOK'
    <2>1. CASE UNCHANGED request
      BY <1>1, <1>3, <2>1 DEF RequestsOK, TurnsOK
    <2>2. ASSUME NEW t \in Thread, NEW r, Proceeds(t, r), RequestOK(r),
                 request[t].pc # "spawn", r.pc # "spawn"
          PROVE  RequestsOK' /\ TurnsOK'
      <3>1. /\ request' = [u \in Thread |-> request'[u]]
            /\ request'[t] = r /\ \A u \in Thread : u # t => request'[u] = request[u]
        BY <2>2, ProceedsOne
      <3>2. RequestsOK'
        BY <1>1, <1>3, <2>2, <3>1 DEF RequestsOK
      <3>3. TurnsOK'
        BY <1>1, <2>2, <3>1 DEF TurnsOK
      <3> QED BY <3>2, <3>3
    <2> QED BY <2>1, <2>2
  <1> QED BY <1>2, <1>5, <1>4

\* The cache after the step of a request: a gate that is closed stays closed, as
\* nobody is inside.
LEMMA CacheStep ==
    ASSUME RequestsOK, ResolverOK, UNCHANGED <<born, gated>>, NEW t \in Thread, NEW r, Proceeds(t, r),
           gated => r.pc \in {"idle", "removing"} /\ UNCHANGED cache,
           \/ UNCHANGED cache
           \/ \E g \in Grain : \E route : cache' = [cache EXCEPT ![g] = route] /\ Names(route)
    PROVE  ResolverOK'
  <1>1. cache' = [g \in Grain |-> cache'[g]] /\ \A g \in Grain : Names(cache'[g])
    BY DEF ResolverOK
  <1>2. \A route : Names(route)' <=> Names(route)
    BY DEF Names
  <1>3. gated => \A u \in Thread : ~Inside(u)'
    BY ProceedsOne DEF ResolverOK, Inside
  <1>4. EmptyRoutes' = EmptyRoutes
    BY DEF EmptyRoutes
  <1> QED BY <1>1, <1>2, <1>3, <1>4 DEF ResolverOK

LEMMA NoRouteNamesNone == Names(NoRoute)
  BY DEF Names, NoRoute, PIDRoute

LEMMA IdleIsOK == RequestOK(Idle) /\ Idle.pc = "idle"
  BY DEF RequestOK, Idle

LEMMA BeginKeepsInv ==
    ASSUME ActivationInv, NEW t \in Thread, NEW g \in Grain, Begin(t, g)
    PROVE  ActivationInv'
  <1> DEFINE r == [pc |-> "ask", grain |-> g, cached |-> cache[g], degraded |-> degraded]
  <1>1. RequestOK(r) /\ r.pc # "spawn"
    BY DEF RequestOK, ActivationInv, ResolverOK
  <1>2. /\ Proceeds(t, r) /\ request[t].pc # "spawn" /\ ~gated
        /\ UNCHANGED <<ownershipVars, active, holder, fenced, born, forgotten, cache, gated>>
    BY IdleIsOK DEF Begin, resolverVars, activatorVars, actorVars
  <1>3. ResolverOK'
    BY <1>2, CacheStep DEF ActivationInv
  <1> QED BY <1>1, <1>2, <1>3, ResolverKeepsInv

\* The directory answers with the owner of the moment.
LEMMA AskKeepsInv ==
    ASSUME ActivationInv, NEW t \in Thread, Ask(t)
    PROVE  ActivationInv'
  <1> DEFINE q == request[t]
             p == owner[q.grain]
             r == [pc |-> "receive", grain |-> q.grain, cached |-> q.cached,
                   degraded |-> q.degraded, p |-> p, until |-> serving[p.node].deadline]
  <1>1. q.pc = "ask" /\ Trusted(p) /\ RequestOK(q) /\ Proceeds(t, r)
    BY DEF Ask, ActivationInv, RequestsOK
  <1>2. q.grain \in Grain /\ Names(q.cached)
    BY <1>1 DEF RequestOK
  <1>3. Past(q.grain, p)
    <2>1. p # NoPlacement
      BY <1>1 DEF Trusted
    <2>2. p.id \in spent /\ p.version \in Nat
      BY <1>2, <2>1 DEF ActivationInv, OwnersOK
    <2>3. ASSUME NEW h \in Grain, owner[h].id = p.id
          PROVE  h = q.grain
      BY <1>2, <2>1, <2>2, <2>3, SpentIsReal DEF ActivationInv, OwnersOK
    <2> QED BY <2>2, <2>3 DEF Past
  <1>4. RequestOK(r) /\ r.pc = "receive"
    BY <1>2, <1>3 DEF RequestOK
  <1>5. UNCHANGED <<ownershipVars, active, holder, fenced, born, forgotten, cache, gated>>
    BY DEF Ask, resolverVars, activatorVars, actorVars
  <1>6. ~gated
    BY <1>1 DEF ActivationInv, ResolverOK, Inside
  <1>7. ResolverOK'
    BY <1>1, <1>5, <1>6, CacheStep DEF ActivationInv
  <1> QED BY <1>1, <1>4, <1>5, <1>7, ResolverKeepsInv

LEMMA ReceiveKeepsInv ==
    ASSUME ActivationInv, NEW t \in Thread, Receive(t)
    PROVE  ActivationInv'
  <1> DEFINE q == request[t]
             route == PIDRoute(q.cached.pid, q.p, q.until)
             r == [pc |-> "activate", grain |-> q.grain, degraded |-> q.degraded,
                   p |-> q.p, until |-> q.until]
  <1>1. q.pc = "receive" /\ RequestOK(q)
    BY DEF Receive, ActivationInv, RequestsOK
  <1>2. q.grain \in Grain /\ Names(q.cached) /\ Past(q.grain, q.p)
    BY <1>1 DEF RequestOK
  <1>3. UNCHANGED <<ownershipVars, active, holder, fenced, born, forgotten, gated>>
    BY DEF Receive, activatorVars, actorVars
  <1>4. ~gated
    BY <1>1 DEF ActivationInv, ResolverOK, Inside
  <1>5. CASE Known(q) /\ StoreUnless(q.degraded, q.grain, route) /\ Proceeds(t, Idle)
    <2>1. Names(route)
      BY <1>2, <1>5 DEF Names, Known, sameAuthorization, PIDRoute
    <2>2. ResolverOK'
      BY <1>2, <1>3, <1>4, <1>5, <2>1, CacheStep DEF StoreUnless, ActivationInv
    <2> QED BY <1>1, <1>3, <1>5, <2>2, IdleIsOK, ResolverKeepsInv
  <1>6. CASE Proceeds(t, r) /\ UNCHANGED cache
    <2>1. RequestOK(r) /\ r.pc = "activate"
      BY <1>2 DEF RequestOK
    <2>2. ResolverOK'
      BY <1>3, <1>4, <1>6, CacheStep DEF ActivationInv
    <2> QED BY <1>1, <1>3, <1>6, <2>1, <2>2, ResolverKeepsInv
  <1> QED BY <1>5, <1>6 DEF Receive

LEMMA StoreKeepsInv ==
    ASSUME ActivationInv, NEW t \in Thread, Store(t)
    PROVE  ActivationInv'
  <1> DEFINE q == request[t]
  <1>1. /\ q.pc = "store" /\ RequestOK(q) /\ Proceeds(t, Idle)
        /\ StoreUnless(q.degraded, q.grain, q.route)
        /\ UNCHANGED <<ownershipVars, active, holder, fenced, born, forgotten, gated>>
    BY DEF Store, ActivationInv, RequestsOK, activatorVars, actorVars
  <1>2. q.grain \in Grain /\ Names(q.route)
    BY <1>1 DEF RequestOK
  <1>3. ~gated
    BY <1>1 DEF ActivationInv, ResolverOK, Inside
  <1>4. ResolverOK'
    BY <1>1, <1>2, <1>3, CacheStep DEF StoreUnless, ActivationInv
  <1> QED BY <1>1, <1>4, IdleIsOK, ResolverKeepsInv

LEMMA RemoveFromCacheKeepsInv ==
    ASSUME ActivationInv, NEW t \in Thread, NEW g \in Grain, NEW a \in PID,
           RemoveFromCache(t, g, a)
    PROVE  ActivationInv'
  <1> DEFINE r == [pc |-> "removing", grain |-> g, pid |-> a]
  <1>1. /\ Proceeds(t, r) /\ request[t].pc = "idle"
        /\ cache' = IF cache[g].pid = a THEN [cache EXCEPT ![g] = NoRoute] ELSE cache
        /\ UNCHANGED <<ownershipVars, active, holder, fenced, born, forgotten, gated>>
    BY IdleIsOK DEF RemoveFromCache, activatorVars, actorVars
  <1>2. RequestOK(r) /\ r.pc = "removing"
    BY DEF RequestOK
  <1>3. gated => UNCHANGED cache
    <2>1. ASSUME gated
          PROVE  cache[g].pid # a
      BY <2>1, ActivationAssumption DEF ActivationInv, ResolverOK, EmptyRoutes, NoRoute, PIDRoute
    <2> QED BY <1>1, <2>1
  <1>4. ResolverOK'
    BY <1>1, <1>2, <1>3, NoRouteNamesNone, CacheStep DEF ActivationInv
  <1> QED BY <1>1, <1>2, <1>4, ResolverKeepsInv

\* Events, degradation, recovery and fencing only ever empty the cache.
LEMMA CacheLossKeepsInv ==
    ASSUME ActivationInv,
           HandleEvent \/ Degrade \/ RecoverResolver \/ FenceResolver
    PROVE  ActivationInv'
  <1>1. /\ UNCHANGED <<ownershipVars, active, holder, fenced, born, forgotten, request>>
        /\ gated' => gated \/ \A t \in Thread : ~Inside(t)
    BY DEF HandleEvent, Degrade, RecoverResolver, SetDegraded, FenceResolver, CloseGate,
           activatorVars, actorVars
  <1>2. /\ cache' = [g \in Grain |-> cache'[g]]
        /\ \A g \in Grain : cache'[g] \in {NoRoute, cache[g]}
    BY DEF HandleEvent, Degrade, RecoverResolver, SetDegraded, FenceResolver, CloseGate,
           ActivationInv, ResolverOK, EmptyRoutes
  <1>3. gated' => cache' = EmptyRoutes
    <2>1. CASE gated
      <3>1. cache = EmptyRoutes
        BY <2>1 DEF ActivationInv, ResolverOK
      <3> QED BY <1>2, <3>1 DEF EmptyRoutes
    <2> QED BY <2>1 DEF HandleEvent, Degrade, RecoverResolver, SetDegraded, FenceResolver, CloseGate
  <1>4. ResolverOK'
    <2>1. \A g \in Grain : Names(cache'[g])
      BY <1>2, NoRouteNamesNone DEF ActivationInv, ResolverOK
    <2>2. \A route : Names(route)' <=> Names(route)
      BY <1>1 DEF Names
    <2>3. \A t \in Thread : Inside(t)' <=> Inside(t)
      BY <1>1 DEF Inside
    <2> QED BY <1>1, <1>2, <1>3, <2>1, <2>2, <2>3 DEF ActivationInv, ResolverOK, EmptyRoutes
  <1> QED BY <1>1, <1>4, ResolverKeepsInv

-----------------------------------------------------------------------------
(* The activator.                                                          *)

\* Nobody but the holder of activator.mu is about to spawn.
LEMMA SpawnerHolds ==
    ASSUME RequestsOK
    PROVE  \A t, u \in Thread : request[t].pc = "spawn" /\ request[u].pc = "spawn" => t = u
  BY DEF RequestsOK

LEMMA LookUpKeepsInv ==
    ASSUME ActivationInv, NEW t \in Thread, LookUp(t)
    PROVE  ActivationInv'
  <1> DEFINE q == request[t]
             r == [pc |-> "spawn", grain |-> q.grain, degraded |-> q.degraded, p |-> q.p,
                   until |-> q.until]
  <1>1. /\ q.pc = "activate" /\ RequestOK(q) /\ Proceeds(t, r)
        /\ holder = NoThread /\ holder' = t /\ ~fenced
        /\ owner[q.grain] = q.p
        /\ UNCHANGED <<ownershipVars, cache, gated, active, fenced, born, forgotten>>
    BY DEF LookUp, Confirms, ActivationInv, RequestsOK, resolverVars, actorVars
  <1>2. q.grain \in Grain /\ Past(q.grain, q.p) /\ q.p # NoPlacement
    BY <1>1, SpentIsReal DEF RequestOK, Past, ActivationInv
  <1>3. /\ request' = [u \in Thread |-> request'[u]]
        /\ request'[t] = r /\ \A u \in Thread : u # t => request'[u] = request[u]
    BY <1>1, ProceedsOne DEF ActivationInv
  <1>4. /\ UNCHANGED <<owner, spent, Spawned>>
        /\ \A route : Names(route)' <=> Names(route)
        /\ NoActors' = NoActors
    BY <1>1 DEF ownershipVars, Spawned, Names, NoActors
  <1>5. OwnersOK' /\ BornOK' /\ OneActivationEach'
    BY <1>1, <1>4 DEF ActivationInv, OwnersOK, BornOK, OneActivationEach
  <1>6. ActivatorOK'
    BY <1>1, <1>4 DEF ActivationInv, ActivatorOK
  <1>7. RequestsOK'
    <2>1. RequestOK(r) /\ r.pc = "spawn"
      BY <1>2 DEF RequestOK
    <2>2. \A f : RequestOK(f)' <=> RequestOK(f)
      BY <1>1, <1>4 DEF RequestOK, Past
    <2>3. \A u \in Thread : request[u].pc # "spawn"
      BY <1>1, ActivationAssumption DEF ActivationInv, RequestsOK
    <2> QED BY <1>1, <1>3, <2>1, <2>2, <2>3 DEF ActivationInv, RequestsOK
  <1>8. ResolverOK'
    <2>1. ~gated
      BY <1>1 DEF ActivationInv, ResolverOK, Inside
    <2> QED BY <1>1, <2>1, CacheStep DEF ActivationInv
  <1>9. TurnsOK'
    <2>1. \A u \in Thread : u # t => request'[u].pc # "spawn"
      BY <1>1, <1>3, ActivationAssumption DEF ActivationInv, RequestsOK
    <2>2. r.p = q.p /\ r.grain = q.grain
      OBVIOUS
    <2>3. ASSUME NEW b \in Spawned
          PROVE  /\ born[b].id = q.p.id => born[b].version <= q.p.version
                 /\ b \notin forgotten /\ born[b] = q.p => active[q.grain] = Actor(b, born[b])
                 /\ owner[q.grain] = born[b] => born[b] = q.p
      BY <1>1, <1>2 DEF ActivationInv, BornOK, ActivatorOK
    <2> QED BY <1>1, <1>3, <1>4, <2>1, <2>2, <2>3 DEF TurnsOK
  <1> QED BY <1>5, <1>6, <1>7, <1>8, <1>9 DEF ActivationInv

\* The grain's actor ran already: nothing but the request changes.
LEMMA SharedSpawnKeepsInv ==
    ASSUME ActivationInv, NEW t \in Thread, NEW r, Proceeds(t, r), RequestOK(r),
           request[t].pc = "spawn", r.pc \in {"store", "idle"}, holder' = NoThread,
           UNCHANGED <<ownershipVars, cache, gated, active, fenced, born, forgotten>>
    PROVE  ActivationInv'
  <1>1. /\ request' = [u \in Thread |-> request'[u]]
        /\ request'[t] = r /\ \A u \in Thread : u # t => request'[u] = request[u]
    BY ProceedsOne DEF ActivationInv
  <1>2. /\ UNCHANGED <<owner, spent, Spawned>>
        /\ \A route : Names(route)' <=> Names(route)
        /\ NoActors' = NoActors
    BY DEF ownershipVars, Spawned, Names, NoActors
  <1>3. OwnersOK' /\ BornOK' /\ OneActivationEach'
    BY <1>2 DEF ActivationInv, OwnersOK, BornOK, OneActivationEach
  <1>4. ActivatorOK'
    BY <1>2 DEF ActivationInv, ActivatorOK
  <1>5. \A u \in Thread : request'[u].pc # "spawn"
    BY <1>1, SpawnerHolds DEF ActivationInv
  <1>6. RequestsOK'
    <2>1. \A f : RequestOK(f)' <=> RequestOK(f)
      BY <1>2 DEF RequestOK, Past
    <2> QED BY <1>1, <1>5, <2>1, ActivationAssumption DEF ActivationInv, RequestsOK
  <1>7. ResolverOK'
    <2>1. ~gated
      BY DEF ActivationInv, ResolverOK, Inside
    <2> QED BY <2>1, CacheStep DEF ActivationInv
  <1>8. TurnsOK'
    BY <1>5 DEF TurnsOK
  <1> QED BY <1>3, <1>4, <1>6, <1>7, <1>8 DEF ActivationInv

\* A new actor: no other one runs for its placement, nor for a newer one of the
\* same lifetime.
LEMMA NewSpawnKeepsInv ==
    ASSUME ActivationInv, NEW t \in Thread, NEW a \in PID,
           request[t].pc = "spawn", ~Running(request[t].grain, request[t].p),
           born[a] = NoPlacement, born' = [born EXCEPT ![a] = request[t].p],
           active' = [active EXCEPT ![request[t].grain] = Actor(a, request[t].p)],
           Proceeds(t, [pc |-> "store", grain |-> request[t].grain,
                        degraded |-> request[t].degraded,
                        route |-> PIDRoute(a, request[t].p, request[t].until)]),
           holder' = NoThread,
           UNCHANGED <<ownershipVars, cache, gated, fenced, forgotten>>
    PROVE  ActivationInv'
  <1> DEFINE q == request[t]
             p == q.p
             r == [pc |-> "store", grain |-> q.grain, degraded |-> q.degraded,
                   route |-> PIDRoute(a, p, q.until)]
  <1>1. /\ RequestOK(q) /\ q.grain \in Grain /\ Past(q.grain, p) /\ p # NoPlacement
        /\ holder = t /\ ~fenced /\ ~gated
    <2>1. RequestOK(q) /\ holder = t
      BY DEF ActivationInv, RequestsOK
    <2>2. ~gated
      BY DEF ActivationInv, ResolverOK, Inside
    <2>3. ~fenced
      BY <2>1, ActivationAssumption DEF ActivationInv, ActivatorOK
    <2> QED BY <2>1, <2>2, <2>3, SpentIsReal DEF RequestOK, Past, ActivationInv
  <1>2. /\ request' = [u \in Thread |-> request'[u]]
        /\ request'[t] = r /\ \A u \in Thread : u # t => request'[u] = request[u]
    BY ProceedsOne DEF ActivationInv
  <1>3. UNCHANGED <<owner, spent>>
    BY DEF ownershipVars
  <1>4. /\ born' = [b \in PID |-> born'[b]]
        /\ born'[a] = p /\ \A b \in PID : b # a => born'[b] = born[b]
        /\ Spawned' = Spawned \cup {a} /\ a \notin Spawned
    BY <1>1 DEF ActivationInv, BornOK, Spawned
  <1>5. \A route : Names(route) => Names(route)'
    BY <1>4 DEF Names
  <1>6. ASSUME NEW route, route.pid = a, route.p = p
        PROVE  Names(route)'
    BY <1>1, <1>4, <1>6 DEF Names
  <1>7. /\ active'[q.grain] = Actor(a, p)
        /\ \A g \in Grain : g # q.grain => active'[g] = active[g]
        /\ active' = [g \in Grain |-> active'[g]]
    BY <1>1 DEF ActivationInv, ActivatorOK
  \* Who else was spawned under p has been removed by a caller.
  <1>8. ASSUME NEW b \in Spawned, born[b] = p
        PROVE  b \in forgotten
    <2> SUFFICES ASSUME b \notin forgotten PROVE FALSE
      OBVIOUS
    <2>1. active[q.grain] = Actor(b, p)
      BY <1>8 DEF ActivationInv, TurnsOK
    <2>2. b \in PID
      BY DEF Spawned
    <2> QED BY <2>1, <2>2, ActivationAssumption DEF Running, sameAuthorization, Actor
  <1>9. OwnersOK'
    BY <1>3 DEF ActivationInv, OwnersOK
  <1>10. BornOK'
    <2>1. p.id \in spent /\ p.version \in Nat
      BY <1>1 DEF Past
    <2>2. ASSUME NEW g \in Grain, owner[g].id = p.id
          PROVE  p.version <= owner[g].version
      <3>1. g = q.grain /\ (p = owner[g] \/ p.version < owner[g].version)
        BY <1>1, <2>2 DEF Past
      <3>2. owner[g].version \in Nat
        BY <1>1, <2>1, <2>2, SpentIsReal DEF ActivationInv, OwnersOK
      <3>3. p = owner[g] => p.version = owner[g].version
        OBVIOUS
      <3> QED BY <2>1, <3>1, <3>2, <3>3
    <2>3. \A b \in Spawned' : b = a \/ (b \in Spawned /\ born'[b] = born[b])
      BY <1>4 DEF Spawned
    <2> QED BY <1>3, <1>4, <2>1, <2>2, <2>3 DEF ActivationInv, BornOK
  <1>11. OneActivationEach'
    <2>1. \A b, c \in Spawned : (b # c /\ born[b] = born[c]) => {b, c} \cap forgotten # {}
      BY DEF ActivationInv, OneActivationEach
    <2>2. \A b \in Spawned' : b = a \/ (b \in Spawned /\ born'[b] = born[b])
      BY <1>4 DEF Spawned
    <2> QED BY <1>4, <1>8, <2>1, <2>2 DEF OneActivationEach
  \* What stood in the map before was not the actor of the owner of the moment.
  <1>12. ActivatorOK'
    <2>1. ASSUME NEW g \in Grain
          PROVE  Names(active[g])'
      <3>1. CASE g = q.grain
        <4>1. Actor(a, p).pid = a /\ Actor(a, p).p = p
          BY DEF Actor
        <4>2. PICK route : route = Actor(a, p)
          OBVIOUS
        <4>3. Names(route)'
          BY <1>6, <4>1, <4>2
        <4> QED BY <1>7, <3>1, <4>2, <4>3
      <3>2. CASE g # q.grain
        <4>1. PICK route : route = active[g]
          OBVIOUS
        <4>2. Names(route)'
          BY <1>5, <4>1 DEF ActivationInv, ActivatorOK
        <4> QED BY <1>7, <3>2, <4>1, <4>2
      <3> QED BY <3>1, <3>2
    <2>2. ASSUME NEW g \in Grain, NEW b \in Spawned' \ forgotten', owner'[g] = born'[b]
          PROVE  active'[g] = Actor(b, born'[b])
      <3>1. CASE b = a
        <4>1. g = q.grain
          BY <1>1, <1>3, <1>4, <2>2, <3>1 DEF Past
        <4> QED BY <1>4, <1>7, <3>1, <4>1
      <3>2. CASE b # a
        <4>1. b \in Spawned \ forgotten /\ born'[b] = born[b] /\ owner[g] = born[b]
          BY <1>3, <1>4, <2>2, <3>2 DEF Spawned
        <4>2. active[g] = Actor(b, born[b])
          BY <1>1, <4>1 DEF ActivationInv, ActivatorOK
        <4>3. g # q.grain
          BY <1>8, <4>1 DEF ActivationInv, TurnsOK
        <4> QED BY <1>7, <4>1, <4>2, <4>3
      <3> QED BY <3>1, <3>2
    <2> QED BY <1>1, <1>7, <2>1, <2>2 DEF ActivatorOK
  <1>13. \A u \in Thread : request'[u].pc # "spawn"
    BY <1>2, SpawnerHolds DEF ActivationInv
  <1>14. RequestsOK'
    <2>1. \A f : RequestOK(f) => RequestOK(f)'
      BY <1>3, <1>5 DEF RequestOK, Past
    <2>2. ASSUME NEW f, f = r
          PROVE  RequestOK(f)'
      <3>1. f.pc = "store" /\ f.grain \in Grain /\ f.route.pid = a /\ f.route.p = p
        BY <1>1, <2>2 DEF PIDRoute
      <3>2. Names(f.route)'
        BY <1>6, <3>1
      <3> QED BY <3>1, <3>2 DEF RequestOK
    <2>3. \A u \in Thread : RequestOK(request[u])'
      BY <1>2, <2>1, <2>2 DEF ActivationInv, RequestsOK
    <2> QED BY <1>2, <1>13, <2>3, ActivationAssumption DEF ActivationInv, RequestsOK
  <1>15. ResolverOK'
    BY <1>1, <1>5 DEF ActivationInv, ResolverOK
  <1>16. TurnsOK'
    BY <1>13 DEF TurnsOK
  <1> QED BY <1>9, <1>10, <1>11, <1>12, <1>14, <1>15, <1>16 DEF ActivationInv

LEMMA SpawnKeepsInv ==
    ASSUME ActivationInv, NEW t \in Thread, Spawn(t)
    PROVE  ActivationInv'
  <1> DEFINE q == request[t]
             Answer(a) == [pc |-> "store", grain |-> q.grain, degraded |-> q.degraded,
                           route |-> PIDRoute(a, q.p, q.until)]
  <1>1. PICK a \in PID :
          /\ \/ /\ Running(q.grain, q.p) /\ a = active[q.grain].pid
                /\ UNCHANGED <<active, born>>
             \/ /\ ~Running(q.grain, q.p) /\ born[a] = NoPlacement
                /\ born' = [born EXCEPT ![a] = q.p]
                /\ active' = [active EXCEPT ![q.grain] = Actor(a, q.p)]
          /\ Proceeds(t, Answer(a))
    BY DEF Spawn, Resolved
  <1>2. /\ q.pc = "spawn" /\ holder' = NoThread
        /\ UNCHANGED <<ownershipVars, cache, gated, fenced, forgotten>>
    BY DEF Spawn, resolverVars
  <1>3. CASE /\ Running(q.grain, q.p) /\ a = active[q.grain].pid
             /\ UNCHANGED <<active, born>>
    <2>1. RequestOK(q) /\ q.grain \in Grain
      BY <1>2 DEF ActivationInv, RequestsOK, RequestOK
    <2>2. Names(PIDRoute(a, q.p, q.until))
      BY <1>3, <2>1 DEF Running, sameAuthorization, Names, PIDRoute, ActivationInv, ActivatorOK
    <2>3. RequestOK(Answer(a)) /\ Answer(a).pc = "store"
      BY <2>1, <2>2 DEF RequestOK
    <2> QED BY <1>1, <1>2, <1>3, <2>3, SharedSpawnKeepsInv
  <1>4. CASE ~(Running(q.grain, q.p) /\ a = active[q.grain].pid /\ UNCHANGED <<active, born>>)
    BY <1>1, <1>2, <1>4, NewSpawnKeepsInv
  <1> QED BY <1>3, <1>4

\* An actor was started and refused: the activator forgets it as it is born.
LEMMA RefuseKeepsInv ==
    ASSUME ActivationInv, NEW t \in Thread, RefuseActor(t)
    PROVE  ActivationInv'
  <1> DEFINE p == request[t].p
  <1>1. PICK a \in PID : /\ born[a] = NoPlacement
                         /\ born' = [born EXCEPT ![a] = p]
                         /\ forgotten' = forgotten \cup {a}
    BY DEF RefuseActor
  <1>2. /\ request[t].pc = "spawn" /\ Proceeds(t, Idle) /\ holder' = NoThread
        /\ UNCHANGED <<owner, spent, cache, gated, active, fenced>>
    BY DEF RefuseActor, resolverVars, ownershipVars
  <1>3. /\ RequestOK(request[t]) /\ Past(request[t].grain, p) /\ p # NoPlacement
        /\ request[t].grain \in Grain /\ holder = t /\ ~fenced /\ ~gated
    <2>1. RequestOK(request[t]) /\ holder = t
      BY <1>2 DEF ActivationInv, RequestsOK
    <2>2. ~gated
      BY <1>2 DEF ActivationInv, ResolverOK, Inside
    <2>3. ~fenced
      BY <2>1, ActivationAssumption DEF ActivationInv, ActivatorOK
    <2> QED BY <1>2, <2>1, <2>2, <2>3, SpentIsReal DEF RequestOK, Past, ActivationInv
  <1>4. /\ request' = [u \in Thread |-> request'[u]]
        /\ request'[t] = Idle /\ \A u \in Thread : u # t => request'[u] = request[u]
    BY <1>2, ProceedsOne DEF ActivationInv
  <1>5. /\ born' = [b \in PID |-> born'[b]]
        /\ born'[a] = p /\ \A b \in PID : b # a => born'[b] = born[b]
        /\ Spawned' = Spawned \cup {a} /\ a \notin Spawned
    BY <1>1, <1>3 DEF ActivationInv, BornOK, Spawned
  <1>6. \A route : Names(route) => Names(route)'
    BY <1>1, <1>5 DEF Names
  <1>7. \A b \in Spawned' : b = a \/ (b \in Spawned /\ born'[b] = born[b])
    BY <1>5 DEF Spawned
  <1>8. OwnersOK'
    BY <1>2 DEF ActivationInv, OwnersOK
  <1>9. BornOK'
    <2>1. p.id \in spent /\ p.version \in Nat
      BY <1>3 DEF Past
    <2>2. ASSUME NEW g \in Grain, owner[g].id = p.id
          PROVE  p.version <= owner[g].version
      <3>1. g = request[t].grain /\ (p = owner[g] \/ p.version < owner[g].version)
        BY <1>3, <2>2 DEF Past
      <3>2. owner[g].version \in Nat
        BY <2>1, <2>2, SpentIsReal DEF ActivationInv, OwnersOK
      <3>3. p = owner[g] => p.version = owner[g].version
        OBVIOUS
      <3> QED BY <2>1, <3>1, <3>2, <3>3
    <2> QED BY <1>2, <1>5, <1>7, <2>1, <2>2 DEF ActivationInv, BornOK
  <1>10. OneActivationEach'
    <2>1. \A b, c \in Spawned : (b # c /\ born[b] = born[c]) => {b, c} \cap forgotten # {}
      BY DEF ActivationInv, OneActivationEach
    <2>2. a \in forgotten' /\ forgotten \subseteq forgotten'
      BY <1>1
    <2> QED BY <1>5, <1>7, <2>1, <2>2 DEF OneActivationEach
  <1>11. ActivatorOK'
    <2>1. \A g \in Grain : Names(active[g])'
      <3> SUFFICES ASSUME NEW g \in Grain PROVE Names(active[g])'
        OBVIOUS
      <3>1. PICK route : route = active[g]
        OBVIOUS
      <3>2. Names(route)'
        BY <1>6, <3>1 DEF ActivationInv, ActivatorOK
      <3> QED BY <1>2, <3>1, <3>2
    <2>2. ASSUME NEW g \in Grain, NEW b \in Spawned' \ forgotten', owner'[g] = born'[b]
          PROVE  active'[g] = Actor(b, born'[b])
      <3>1. b \in Spawned \ forgotten /\ born'[b] = born[b]
        BY <1>1, <1>7
      <3> QED BY <1>2, <1>3, <2>2, <3>1 DEF ActivationInv, ActivatorOK
    <2> QED BY <1>2, <1>3, <2>1, <2>2 DEF ActivationInv, ActivatorOK
  <1>12. \A u \in Thread : request'[u].pc # "spawn"
    BY <1>2, <1>4, IdleIsOK, SpawnerHolds DEF ActivationInv
  <1>13. RequestsOK'
    <2>1. \A f : RequestOK(f) => RequestOK(f)'
      BY <1>2, <1>6 DEF RequestOK, Past
    <2>2. \A u \in Thread : RequestOK(request'[u])
      BY <1>4, IdleIsOK DEF ActivationInv, RequestsOK
    <2>3. \A u \in Thread : RequestOK(request[u])'
      BY <2>1, <2>2
    <2> QED BY <1>2, <1>4, <1>12, <2>3, ActivationAssumption DEF RequestsOK
  <1>14. ResolverOK'
    BY <1>2, <1>3, <1>6 DEF ActivationInv, ResolverOK
  <1>15. TurnsOK'
    BY <1>12 DEF TurnsOK
  <1> QED BY <1>8, <1>9, <1>10, <1>11, <1>13, <1>14, <1>15 DEF ActivationInv

\* A request that gives up lets go of the mutex.
LEMMA FailKeepsInv ==
    ASSUME ActivationInv, NEW t \in Thread, Fail(t)
    PROVE  ActivationInv'
  <1>1. /\ request[t].pc \in {"ask", "receive", "activate", "spawn"} /\ Proceeds(t, Idle)
        /\ holder' = IF holder = t THEN NoThread ELSE holder
        /\ UNCHANGED <<ownershipVars, cache, gated, active, fenced, born, forgotten>>
    BY DEF Fail, resolverVars, actorVars
  <1>2. CASE request[t].pc = "spawn"
    BY <1>1, <1>2, IdleIsOK, SharedSpawnKeepsInv DEF ActivationInv, RequestsOK
  <1>3. CASE request[t].pc # "spawn"
    <2>1. holder' = holder
      BY <1>1, <1>3 DEF ActivationInv, RequestsOK
    <2>2. ~gated
      BY <1>1 DEF ActivationInv, ResolverOK, Inside
    <2>3. ResolverOK'
      BY <1>1, <2>2, CacheStep DEF ActivationInv
    <2> QED BY <1>1, <1>3, <2>1, <2>3, IdleIsOK, ResolverKeepsInv
  <1> QED BY <1>2, <1>3

\* A step of the activator's map, with nobody at the mutex, in which actors are
\* only forgotten.
LEMMA ForgettingKeepsInv ==
    ASSUME ActivationInv, UNCHANGED <<ownershipVars, cache, gated, holder, born>>,
           holder = NoThread,
           \/ UNCHANGED request
           \/ \E t \in Thread : Proceeds(t, Idle),
           forgotten \subseteq forgotten',
           active' = [g \in Grain |-> active'[g]],
           fenced => fenced',
           \A g \in Grain : \/ active'[g] = active[g]
                            \/ active'[g] = NoActor /\ (fenced' \/ active[g].pid \in forgotten'),
           fenced' => active' = NoActors
    PROVE  ActivationInv'
  <1>1. /\ UNCHANGED <<owner, spent, Spawned>>
        /\ \A route : Names(route)' <=> Names(route)
        /\ NoActors' = NoActors
    BY DEF ownershipVars, Spawned, Names, NoActors
  <1>2. OwnersOK' /\ BornOK' /\ OneActivationEach'
    BY <1>1 DEF ActivationInv, OwnersOK, BornOK, OneActivationEach
  <1>3. \A t \in Thread : request[t].pc # "spawn"
    BY ActivationAssumption DEF ActivationInv, RequestsOK
  <1>4. /\ request' = [t \in Thread |-> request'[t]]
        /\ \A t \in Thread : request'[t] \in {request[t], Idle}
    BY ProceedsOne DEF ActivationInv, RequestsOK
  <1>5. RequestsOK'
    <2>1. \A f : RequestOK(f)' <=> RequestOK(f)
      BY <1>1 DEF RequestOK, Past
    <2> QED BY <1>3, <1>4, <2>1, IdleIsOK, ActivationAssumption DEF ActivationInv, RequestsOK
  <1>6. ResolverOK'
    <2>1. \A t \in Thread : Inside(t)' => Inside(t)
      BY <1>4, IdleIsOK DEF Inside
    <2>2. EmptyRoutes' = EmptyRoutes
      BY DEF EmptyRoutes
    <2> QED BY <1>1, <2>1, <2>2 DEF ActivationInv, ResolverOK
  <1>7. ActivatorOK'
    <2>1. Names(NoActor)
      BY DEF Names, NoActor, Actor
    <2>2. ASSUME NEW g \in Grain, NEW b \in Spawned' \ forgotten', ~fenced', owner'[g] = born'[b]
          PROVE  active'[g] = Actor(b, born'[b])
      <3>1. active[g] = Actor(b, born[b])
        BY <1>1, <2>2 DEF ActivationInv, ActivatorOK
      <3>2. active[g].pid = b
        BY <3>1 DEF Actor
      <3> QED BY <2>2, <3>1, <3>2
    <2>3. \A g \in Grain : Names(active[g])'
      <3> SUFFICES ASSUME NEW g \in Grain PROVE Names(active[g])'
        OBVIOUS
      <3>1. PICK route : route = active'[g]
        OBVIOUS
      <3>2. Names(route)'
        BY <1>1, <2>1, <3>1 DEF ActivationInv, ActivatorOK
      <3> QED BY <3>1, <3>2
    <2> QED BY <1>1, <2>2, <2>3 DEF ActivatorOK
  <1>8. TurnsOK'
    BY <1>3, <1>4, IdleIsOK DEF TurnsOK
  <1> QED BY <1>2, <1>5, <1>6, <1>7, <1>8 DEF ActivationInv

LEMMA RemoveFromActivatorKeepsInv ==
    ASSUME ActivationInv, NEW t \in Thread, RemoveFromActivator(t)
    PROVE  ActivationInv'
  <1> DEFINE q == request[t]
  <1>1. /\ q.pc = "removing" /\ holder = NoThread /\ Proceeds(t, Idle)
        /\ active' = IF active[q.grain].pid = q.pid THEN [active EXCEPT ![q.grain] = NoActor]
                     ELSE active
        /\ forgotten' = forgotten \cup {q.pid}
        /\ UNCHANGED <<ownershipVars, cache, gated, holder, fenced, born>>
    BY DEF RemoveFromActivator, resolverVars
  <1>2. q.grain \in Grain /\ q.pid \in PID
    BY <1>1 DEF ActivationInv, RequestsOK, RequestOK
  <1>3. active' = [g \in Grain |-> active'[g]]
    BY <1>1 DEF ActivationInv, ActivatorOK
  <1>4. \A g \in Grain : active'[g] = active[g]
                         \/ (active'[g] = NoActor /\ active[g].pid \in forgotten')
    BY <1>1, <1>2 DEF ActivationInv, ActivatorOK
  <1>5. fenced' => active' = NoActors
    <2>1. ASSUME fenced
          PROVE  active = NoActors /\ active[q.grain].pid # q.pid
      BY <1>2, <2>1, ActivationAssumption DEF ActivationInv, ActivatorOK, NoActors, NoActor, Actor
    <2> QED BY <1>1, <2>1
  <1> QED BY <1>1, <1>3, <1>4, <1>5, ForgettingKeepsInv

LEMMA FenceActivatorKeepsInv ==
    ASSUME ActivationInv, FenceActivator
    PROVE  ActivationInv'
  <1>1. /\ fenced' /\ holder = NoThread /\ active' = NoActors
        /\ UNCHANGED <<ownershipVars, cache, gated, holder, born, forgotten, request>>
    BY DEF FenceActivator, resolverVars, actorVars
  <1>2. active' = [g \in Grain |-> active'[g]] /\ \A g \in Grain : active'[g] = NoActor
    BY <1>1 DEF NoActors
  <1> QED BY <1>1, <1>2, ForgettingKeepsInv

LEMMA StopActorKeepsInv ==
    ASSUME ActivationInv, NEW a \in PID, StopActor(a)
    PROVE  ActivationInv'
  <1>1. UNCHANGED <<ownershipVars, cache, gated, active, holder, fenced, born, forgotten,
                    request>>
    BY DEF StopActor, resolverVars
  <1>2. ResolverOK'
    BY <1>1 DEF ActivationInv, ResolverOK, Names, Inside, EmptyRoutes
  <1> QED BY <1>1, <1>2, ResolverKeepsInv

-----------------------------------------------------------------------------
(* The invariant.                                                          *)

LEMMA ActivationInvInit == ActivationInit => ActivationInv
  <1> SUFFICES ASSUME ActivationInit PROVE ActivationInv
    OBVIOUS
  <1>1. Spawned = {}
    BY DEF ActivationInit, Spawned
  <1>2. OwnersOK
    BY DEF ActivationInit, OwnershipInit, OwnersOK
  <1>3. RequestsOK /\ TurnsOK
    BY IdleIsOK, ActivationAssumption DEF ActivationInit, RequestsOK, TurnsOK
  <1>4. ResolverOK
    BY NoRouteNamesNone DEF ActivationInit, ResolverOK, EmptyRoutes
  <1>5. BornOK /\ OneActivationEach
    BY <1>1 DEF ActivationInit, BornOK, OneActivationEach
  <1>6. ActivatorOK
    <2>1. Names(NoActor)
      BY DEF Names, NoActor, Actor
    <2> QED BY <1>1, <2>1 DEF ActivationInit, ActivatorOK, NoActors
  <1> QED BY <1>2, <1>3, <1>4, <1>5, <1>6 DEF ActivationInv

LEMMA ActivationInvNext == ActivationInv /\ [ActivationNext]_activationVars => ActivationInv'
  <1> SUFFICES ASSUME ActivationInv, [ActivationNext]_activationVars PROVE ActivationInv'
    OBVIOUS
  <1>1. CASE UNCHANGED activationVars
    <2>1. UNCHANGED <<ownershipVars, cache, gated, active, holder, fenced, born, forgotten,
                      request>>
      BY <1>1 DEF activationVars, adapterVars, resolverVars, activatorVars, actorVars
    <2>2. ResolverOK'
      BY <2>1 DEF ActivationInv, ResolverOK, Names, Inside, EmptyRoutes
    <2> QED BY <2>1, <2>2, ResolverKeepsInv
  <1>2. ASSUME NEW t \in Thread, RequestStep(t)
        PROVE  ActivationInv'
    BY <1>2, BeginKeepsInv, AskKeepsInv, ReceiveKeepsInv, LookUpKeepsInv, SpawnKeepsInv,
       RefuseKeepsInv,
       StoreKeepsInv, FailKeepsInv, RemoveFromCacheKeepsInv, RemoveFromActivatorKeepsInv
    DEF RequestStep
  <1> QED BY <1>1, <1>2, DirectoryKeepsInv, CacheLossKeepsInv, FenceActivatorKeepsInv,
             StopActorKeepsInv
          DEF ActivationNext

THEOREM ActivationInvariance == ActivationSpec => []ActivationInv
  BY ActivationInvInit, ActivationInvNext, PTL DEF ActivationSpec

-----------------------------------------------------------------------------
\* Routes refreshed from the cache and activations shared by requests (Receive
\* of resolver.go, Activate of activator.go) never pass an actor off under
\* another owner's version.
THEOREM RoutesKeepTheirActivation == ActivationSpec => []RoutesNameTheirActivation
  <1>1. ActivationInv => RoutesNameTheirActivation
    <2> SUFFICES ASSUME ActivationInv,
                        NEW route \in {cache[g] : g \in Grain} \cup {active[g] : g \in Grain}
                                        \cup Answered,
                        route.pid # NoPID
                 PROVE  born[route.pid] = route.p
      BY DEF RoutesNameTheirActivation
    <2>1. Names(route)
      BY DEF ActivationInv, ResolverOK, ActivatorOK, RequestsOK, RequestOK, Answered
    <2> QED BY <2>1 DEF Names
  <1> QED BY <1>1, ActivationInvariance, PTL

\* activator.mu and the look-up under it give every authorization one actor,
\* however many requests ask for it at once.
THEOREM ActivationsAreUnique == ActivationSpec => []OneActivationEach
  <1>1. ActivationInv => OneActivationEach
    BY DEF ActivationInv
  <1> QED BY <1>1, ActivationInvariance, PTL

\* Actors are born where a request starts one, kept or refused.
LEMMA OnlySpawnGivesBirth ==
    ASSUME [ActivationNext]_activationVars
    PROVE  born' = born \/ \E t \in Thread : Spawn(t) \/ RefuseActor(t)
  BY DEF ActivationNext, activationVars, adapterVars, actorVars, DirectoryStep, RequestStep,
       Begin, RemoveFromCache, Ask, Receive, LookUp, Store, Fail, RemoveFromActivator,
       HandleEvent, Degrade, RecoverResolver, SetDegraded, FenceResolver, CloseGate,
       FenceActivator, StopActor

LEMMA BirthsAreOrdered ==
    ASSUME ActivationInv, [ActivationNext]_activationVars,
           NEW a \in PID \ Spawned, NEW b \in Spawned, born'[a].id = born[b].id
    PROVE  born'[a].version >= born[b].version
  <1>1. /\ a \in PID /\ born[a] = NoPlacement
        /\ born[b].id \in spent /\ born[b].version \in Nat
    BY DEF Spawned, ActivationInv, BornOK
  <1>2. CASE born' = born
    BY <1>1, <1>2, SpentIsReal DEF ActivationInv
  <1>3. ASSUME NEW t \in Thread, Spawn(t) \/ RefuseActor(t), born' # born
        PROVE  born'[a].version >= born[b].version
    <2>1. /\ request[t].pc = "spawn"
          /\ \E c \in PID : born' = [born EXCEPT ![c] = request[t].p]
      BY <1>3 DEF Spawn, RefuseActor
    <2>2. born'[a] = request[t].p
      <3>1. born'[a] = NoPlacement \/ born'[a] = request[t].p
        BY <1>1, <2>1 DEF ActivationInv, BornOK
      <3> QED BY <1>1, <3>1, SpentIsReal DEF ActivationInv
    <2>3. RequestOK(request[t])
      BY DEF ActivationInv, RequestsOK
    <2>4. request[t].p.version \in Nat
      BY <2>1, <2>3 DEF RequestOK, Past
    <2>5. born[b].version <= request[t].p.version
      BY <2>1, <2>2 DEF ActivationInv, TurnsOK
    <2> QED BY <1>1, <2>2, <2>4, <2>5
  <1> QED BY <1>2, <1>3, OnlySpawnGivesBirth

\* A request that spawned its actor found the owner it was spawned under at its
\* look-up, under the mutex: nothing of that lifetime is newer.
THEOREM SpawnsAreOrdered == ActivationSpec => SpawnsFollowOwners
  <1>1. ActivationInv /\ [ActivationNext]_activationVars
          => [\A a \in PID \ Spawned, b \in Spawned :
                born'[a].id = born[b].id
                  => born'[a].version >= born[b].version]_activationVars
    BY BirthsAreOrdered
  <1> QED BY <1>1, ActivationInvariance, PTL DEF ActivationSpec, SpawnsFollowOwners

\* The gate keeps requests out of a fenced resolver, the flag under activator.mu
\* out of a fenced activator, whatever was under way before.
THEOREM FencesAreFinal == ActivationSpec => FenceIsFinal
  <1>1. ActivationInv /\ ActivationInv' /\ [ActivationNext]_activationVars
          => [/\ gated => gated' /\ cache' = EmptyRoutes
              /\ fenced => fenced' /\ born' = born /\ active' = NoActors]_activationVars
    <2> SUFFICES ASSUME ActivationInv, ActivationInv', [ActivationNext]_activationVars
                 PROVE  /\ gated => gated' /\ cache' = EmptyRoutes
                        /\ fenced => fenced' /\ born' = born /\ active' = NoActors
      OBVIOUS
    <2>1. gated' = gated \/ FenceResolver
      BY DEF ActivationNext, activationVars, adapterVars, resolverVars, DirectoryStep,
           RequestStep, Begin, RemoveFromCache, Ask, Receive, LookUp, Spawn, RefuseActor, Store,
           Fail, RemoveFromActivator, HandleEvent, Degrade, RecoverResolver, SetDegraded,
           FenceActivator, StopActor
    <2>2. fenced' = fenced \/ FenceActivator
      BY DEF ActivationNext, activationVars, adapterVars, activatorVars, DirectoryStep,
           RequestStep, Begin, RemoveFromCache, Ask, Receive, LookUp, Spawn, RefuseActor, Store,
           Fail, RemoveFromActivator, HandleEvent, Degrade, RecoverResolver, SetDegraded,
           FenceResolver, CloseGate, StopActor
    <2>3. (gated => gated') /\ (fenced => fenced')
      BY <2>1, <2>2 DEF FenceResolver, CloseGate, FenceActivator
    <2>4. (gated' => cache' = EmptyRoutes) /\ (fenced' => active' = NoActors)
      <3>1. ResolverOK' /\ ActivatorOK' /\ EmptyRoutes' = EmptyRoutes /\ NoActors' = NoActors
        BY DEF ActivationInv, EmptyRoutes, NoActors
      <3> QED BY <3>1 DEF ResolverOK, ActivatorOK
    <2>5. fenced => \A t \in Thread : ~Spawn(t) /\ ~RefuseActor(t)
      BY ActivationAssumption DEF ActivationInv, RequestsOK, ActivatorOK, Spawn, RefuseActor
    <2> QED BY <2>4, <2>5, <2>3, OnlySpawnGivesBirth
  <1> QED BY <1>1, ActivationInvariance, PTL DEF ActivationSpec, FenceIsFinal
-----------------------------------------------------------------------------
(* Routes and leases.                                                      *)

\* A deadline that is no later than the lease behind it, as long as that session
\* serves the node, nor than a lease granted now.
Within(p, until) ==
    /\ p.node \in Node /\ p.session \in Session /\ until \in Nat
    /\ until <= now + TTL
    /\ serving[p.node].session = p.session => until <= serving[p.node].deadline

LeasesOK ==
    /\ now \in Nat
    /\ serving = [n \in Node |-> serving[n]]
    /\ \A n \in Node : /\ serving[n].deadline \in Nat /\ serving[n].deadline <= now + TTL
                       /\ serving[n] = Vacant \/ serving[n].session \in Session
    /\ owner = [g \in Grain |-> owner[g]]
    /\ \A g \in Grain : owner[g] = NoPlacement \/ owner[g].node \in Node

Bounded(route) == route.until = 0 \/ Within(route.p, route.until)

RequestBounded(r) ==
    /\ r.pc \in {"receive", "activate", "spawn"} => Within(r.p, r.until)
    /\ r.pc = "store" => Bounded(r.route)

LeaseInv == /\ LeasesOK
            /\ cache = [g \in Grain |-> cache[g]]
            /\ \A g \in Grain : Bounded(cache[g])
            /\ request = [t \in Thread |-> request[t]]
            /\ \A t \in Thread : RequestBounded(request[t])

\* Leases are only extended, and a session that returns gets a whole one.
LEMMA LeasesHold ==
    ASSUME LeasesOK, DirectoryStep
    PROVE  LeasesOK' /\ \A p, until : Within(p, until) => Within(p, until)'
  <1>1. CASE now < MaxTime /\ ClockMoves(now + 1)
    BY <1>1, ActivationAssumption DEF ClockMoves, LeasesOK, Within
  <1>2. ASSUME NEW n \in Node, NEW d, d = now + TTL, NEW s,
               UNCHANGED <<now, owner>>,
               serving' = [serving EXCEPT ![n] = [session |-> s, deadline |-> d]],
               s \in Session
        PROVE  LeasesOK' /\ \A p, until : Within(p, until) => Within(p, until)'
    <2>1. /\ serving'[n].session = s /\ serving'[n].deadline = d
          /\ \A m \in Node : m # n => serving'[m] = serving[m]
          /\ serving' = [m \in Node |-> serving'[m]]
          /\ now \in Nat /\ d \in Nat
      BY <1>2, ActivationAssumption DEF LeasesOK
    <2>2. LeasesOK'
      BY <1>2, <2>1 DEF LeasesOK, Vacant
    <2> QED BY <1>2, <2>1, <2>2 DEF Within
  <1>3. ASSUME NEW n \in Node, Extend(n, now + TTL)
        PROVE  LeasesOK' /\ \A p, until : Within(p, until) => Within(p, until)'
    <2>1. /\ serving[n] # Vacant /\ UNCHANGED <<now, owner>>
          /\ serving' = [serving EXCEPT ![n].deadline = now + TTL]
          /\ serving[n].deadline <= now + TTL
          /\ now \in Nat /\ now + TTL \in Nat /\ serving[n].session \in Session
      BY <1>3, ActivationAssumption DEF Extend, Alive, LeasesOK
    <2>2. /\ serving'[n] = [serving[n] EXCEPT !.deadline = now + TTL]
          /\ \A m \in Node : m # n => serving'[m] = serving[m]
          /\ serving' = [m \in Node |-> serving'[m]]
      BY <2>1 DEF LeasesOK
    <2> QED BY <2>1, <2>2 DEF LeasesOK, Within
  <1>4. ASSUME NEW n \in Node, Leave(n)
        PROVE  LeasesOK' /\ \A p, until : Within(p, until) => Within(p, until)'
    <2>1. /\ UNCHANGED <<now, owner>>
          /\ serving'[n] = Vacant /\ \A m \in Node : m # n => serving'[m] = serving[m]
          /\ serving' = [m \in Node |-> serving'[m]]
      BY <1>4 DEF Leave, LeasesOK
    <2>2. Vacant.deadline = 0 /\ Vacant.session \notin Session
      BY EventsAssumption DEF Vacant
    <2>3. LeasesOK'
      BY <2>1, <2>2, ActivationAssumption DEF LeasesOK
    <2> QED BY <2>1, <2>2, <2>3 DEF Within
  <1>5. ASSUME NEW g \in Grain, NEW q, owner' = [owner EXCEPT ![g] = q],
               UNCHANGED <<now, serving>>, q = NoPlacement \/ q.node \in Node
        PROVE  LeasesOK' /\ \A p, until : Within(p, until) => Within(p, until)'
    BY <1>5 DEF LeasesOK, Within
  <1>6. ASSUME NEW g \in Grain, GiveBack(g) \/ \E n \in Node : NewOwner(g, n)
        PROVE  /\ UNCHANGED <<now, serving>>
               /\ \E q : owner' = [owner EXCEPT ![g] = q] /\ (q = NoPlacement \/ q.node \in Node)
    <2>1. CASE GiveBack(g)
      BY <2>1 DEF GiveBack
    <2>2. ASSUME NEW n \in Node, NEW id \in PlacementID, Claim(g, id, n)
          PROVE  \E q : owner' = [owner EXCEPT ![g] = q] /\ q.node \in Node
      <3> DEFINE q == [id |-> id, node |-> n, session |-> serving[n].session, version |-> 1]
      <3>1. q.node = n
        OBVIOUS
      <3>2. owner' = [owner EXCEPT ![g] = q]
        BY <2>2 DEF Claim, Becomes
      <3> QED BY <3>1, <3>2
    <2>3. ASSUME NEW n \in Node, HandOver(g, n) \/ TakeOver(g, n)
          PROVE  \E q : owner' = [owner EXCEPT ![g] = q] /\ q.node \in Node
      <3> DEFINE q == Succession(owner[g], n, serving[n].session)
      <3>1. q.node = n
        BY DEF Succession
      <3>2. owner' = [owner EXCEPT ![g] = q]
        BY <2>3 DEF HandOver, TakeOver, Succeed, Becomes
      <3> QED BY <3>1, <3>2
    <2>4. UNCHANGED <<now, serving>>
      BY <1>6 DEF GiveBack, NewOwner, Claim, HandOver, TakeOver, Succeed, Becomes
    <2> QED BY <1>6, <2>1, <2>2, <2>3, <2>4 DEF NewOwner
  <1>7. ASSUME NEW n \in Node, NEW s \in Session, Serve(n, s, now + TTL)
        PROVE  LeasesOK' /\ \A p, until : Within(p, until) => Within(p, until)'
    <2>1. /\ UNCHANGED <<now, owner>>
          /\ serving' = [serving EXCEPT ![n] = [session |-> s, deadline |-> now + TTL]]
      BY <1>7 DEF Serve
    <2> QED BY <1>2, <2>1
  <1>8. ASSUME NEW g \in Grain, GiveBack(g) \/ \E n \in Node : NewOwner(g, n)
        PROVE  LeasesOK' /\ \A p, until : Within(p, until) => Within(p, until)'
    BY <1>5, <1>6, <1>8
  <1> QED BY <1>1, <1>3, <1>4, <1>7, <1>8 DEF DirectoryStep

\* A route is stored with the deadline its request was answered with.
LEMMA LeaseInvNext ==
    ASSUME ActivationInv, LeaseInv, [ActivationNext]_activationVars
    PROVE  LeaseInv'
  <1>1. CASE DirectoryStep
    <2>1. UNCHANGED <<cache, request>>
      BY <1>1 DEF DirectoryStep, adapterVars, resolverVars
    <2>2. LeasesOK' /\ \A p, until : Within(p, until) => Within(p, until)'
      BY <1>1, LeasesHold DEF LeaseInv
    <2> QED BY <2>1, <2>2 DEF LeaseInv, Bounded, RequestBounded
  <1>2. ASSUME UNCHANGED ownershipVars,
               \A g \in Grain : Bounded(cache'[g]),
               cache' = [g \in Grain |-> cache'[g]],
               \/ UNCHANGED request
               \/ \E t \in Thread : \E r : Proceeds(t, r) /\ RequestBounded(r)
        PROVE  LeaseInv'
    <2>1. LeasesOK' /\ \A p, until : Within(p, until)' <=> Within(p, until)
      BY <1>2 DEF ownershipVars, LeaseInv, LeasesOK, Within
    <2>2. /\ \A route : Bounded(route)' <=> Bounded(route)
          /\ \A r : RequestBounded(r)' <=> RequestBounded(r)
      BY <2>1 DEF Bounded, RequestBounded
    <2>3. /\ request' = [t \in Thread |-> request'[t]]
          /\ \A t \in Thread : RequestBounded(request'[t])
      BY <1>2 DEF LeaseInv, Proceeds
    <2>4. /\ \A g \in Grain : Bounded(cache[g])'
          /\ \A t \in Thread : RequestBounded(request[t])'
      BY <1>2, <2>2, <2>3
    <2> QED BY <1>2, <2>1, <2>3, <2>4 DEF LeaseInv
  <1>3. Bounded(NoRoute) /\ RequestBounded(Idle)
    BY DEF Bounded, NoRoute, PIDRoute, RequestBounded, Idle
  <1>4. CASE \/ UNCHANGED activationVars
             \/ HandleEvent \/ Degrade \/ RecoverResolver \/ FenceResolver
             \/ FenceActivator \/ \E a \in PID : StopActor(a)
    <2>1. UNCHANGED <<ownershipVars, request>>
      BY <1>4 DEF HandleEvent, Degrade, RecoverResolver, SetDegraded, FenceResolver, CloseGate,
                  FenceActivator, StopActor, activationVars, adapterVars
    <2>2. /\ cache' = [g \in Grain |-> cache'[g]]
          /\ \A g \in Grain : cache'[g] \in {NoRoute, cache[g]}
      BY <1>4 DEF HandleEvent, Degrade, RecoverResolver, SetDegraded, FenceResolver, CloseGate,
                  FenceActivator, StopActor, activationVars, adapterVars, resolverVars,
                  LeaseInv, EmptyRoutes
    <2> QED BY <1>2, <1>3, <2>1, <2>2 DEF LeaseInv
  <1>5. ASSUME NEW t \in Thread, RequestStep(t)
        PROVE  LeaseInv'
    <2> DEFINE q == request[t]
    <2>1. RequestOK(q) /\ RequestBounded(q)
      BY DEF ActivationInv, RequestsOK, LeaseInv
    <2>2. ASSUME NEW r, RequestBounded(r), Proceeds(t, r), UNCHANGED ownershipVars,
                 \/ UNCHANGED cache
                 \/ \E g \in Grain : \E route : /\ cache' = [cache EXCEPT ![g] = route]
                                             /\ Bounded(route)
          PROVE  LeaseInv'
      <3>1. cache' = [g \in Grain |-> cache'[g]] /\ \A g \in Grain : Bounded(cache'[g])
        BY <2>2 DEF LeaseInv
      <3> QED BY <1>2, <2>2, <3>1
    <2>3. ASSUME NEW g \in Grain, Begin(t, g) \/ \E a \in PID : RemoveFromCache(t, g, a)
          PROVE  LeaseInv'
      <3>1. \E r : Proceeds(t, r) /\ r.pc \in {"ask", "removing"}
        <4>1. CASE Begin(t, g)
          <5> DEFINE r == [pc |-> "ask", grain |-> g, cached |-> cache[g],
                           degraded |-> degraded]
          <5>1. Proceeds(t, r) /\ r.pc = "ask"
            BY <4>1 DEF Begin
          <5> QED BY <5>1
        <4>2. ASSUME NEW a \in PID, RemoveFromCache(t, g, a)
              PROVE  \E r : Proceeds(t, r) /\ r.pc \in {"ask", "removing"}
          <5> DEFINE r == [pc |-> "removing", grain |-> g, pid |-> a]
          <5>1. Proceeds(t, r) /\ r.pc = "removing"
            BY <4>2 DEF RemoveFromCache
          <5> QED BY <5>1
        <4> QED BY <2>3, <4>1, <4>2
      <3>2. /\ UNCHANGED ownershipVars
            /\ UNCHANGED cache \/ cache' = [cache EXCEPT ![g] = NoRoute]
        BY <2>3 DEF Begin, RemoveFromCache, resolverVars
      <3> QED BY <1>3, <2>2, <3>1, <3>2 DEF RequestBounded
    <2>4. CASE Ask(t)
      <3> DEFINE p == owner[q.grain]
                 r == [pc |-> "receive", grain |-> q.grain, cached |-> q.cached,
                       degraded |-> q.degraded, p |-> p, until |-> serving[p.node].deadline]
      <3>1. /\ q.pc = "ask" /\ Trusted(p) /\ Proceeds(t, r) /\ q.grain \in Grain
            /\ UNCHANGED <<ownershipVars, cache>>
        BY <2>1, <2>4 DEF Ask, RequestOK, resolverVars
      <3>2. Within(p, serving[p.node].deadline)
        <4>1. p # NoPlacement /\ serving[p.node] # Vacant /\ p.session = serving[p.node].session
          BY <3>1 DEF Trusted, Alive
        <4>2. p.node \in Node
          BY <3>1, <4>1 DEF LeaseInv, LeasesOK
        <4>3. /\ serving[p.node].deadline \in Nat /\ serving[p.node].deadline <= now + TTL
              /\ serving[p.node].session \in Session
          BY <4>1, <4>2 DEF LeaseInv, LeasesOK
        <4> QED BY <4>1, <4>2, <4>3 DEF Within
      <3>3. r.pc = "receive" /\ r.p = p /\ r.until = serving[p.node].deadline
        OBVIOUS
      <3>4. RequestBounded(r)
        BY <3>2, <3>3 DEF RequestBounded
      <3> QED BY <2>2, <3>1, <3>4
    <2>5. CASE Receive(t)
      <3> DEFINE r == [pc |-> "activate", grain |-> q.grain, degraded |-> q.degraded,
                       p |-> q.p, until |-> q.until]
                 route == PIDRoute(q.cached.pid, q.p, q.until)
      <3>1. q.pc = "receive" /\ Within(q.p, q.until) /\ q.grain \in Grain
        BY <2>1, <2>5 DEF Receive, RequestBounded, RequestOK
      <3>2. RequestBounded(r) /\ Bounded(route)
        BY <3>1 DEF RequestBounded, Bounded, PIDRoute
      <3>3. /\ UNCHANGED ownershipVars
            /\ \/ Proceeds(t, r) /\ UNCHANGED cache
               \/ /\ Proceeds(t, Idle)
                  /\ UNCHANGED cache \/ cache' = [cache EXCEPT ![q.grain] = route]
        BY <2>5 DEF Receive, StoreUnless
      <3> QED BY <1>3, <2>2, <3>1, <3>2, <3>3
    <2>6. CASE LookUp(t)
      <3> DEFINE r == [pc |-> "spawn", grain |-> q.grain, degraded |-> q.degraded,
                       p |-> q.p, until |-> q.until]
      <3>1. q.pc = "activate" /\ Proceeds(t, r) /\ UNCHANGED <<ownershipVars, cache>>
        BY <2>6 DEF LookUp, resolverVars
      <3>2. RequestBounded(r)
        BY <2>1, <3>1 DEF RequestBounded
      <3> QED BY <2>2, <3>1, <3>2
    <2>7. CASE Spawn(t)
      <3>1. PICK a \in PID : Proceeds(t, [pc |-> "store", grain |-> q.grain,
                                          degraded |-> q.degraded, route |-> Resolved(a, q)])
        BY <2>7 DEF Spawn
      <3>2. q.pc = "spawn" /\ UNCHANGED <<ownershipVars, cache>>
        BY <2>7 DEF Spawn, resolverVars
      <3> DEFINE r == [pc |-> "store", grain |-> q.grain, degraded |-> q.degraded,
                       route |-> Resolved(a, q)]
      <3>3. RequestBounded(r)
        BY <2>1, <3>2 DEF RequestBounded, Bounded, Resolved, PIDRoute
      <3> QED BY <2>2, <3>1, <3>2, <3>3
    <2>8. CASE Store(t)
      <3>1. /\ q.grain \in Grain /\ Bounded(q.route) /\ Proceeds(t, Idle)
            /\ UNCHANGED ownershipVars
            /\ UNCHANGED cache \/ cache' = [cache EXCEPT ![q.grain] = q.route]
        BY <2>1, <2>8 DEF Store, StoreUnless, RequestBounded, RequestOK
      <3> QED BY <1>3, <2>2, <3>1
    <2>9. CASE RefuseActor(t) \/ Fail(t) \/ RemoveFromActivator(t)
      <3>1. Proceeds(t, Idle) /\ UNCHANGED <<ownershipVars, cache>>
        BY <2>9 DEF RefuseActor, Fail, RemoveFromActivator, resolverVars
      <3> QED BY <1>3, <2>2, <3>1
    <2> QED BY <1>5, <2>3, <2>4, <2>5, <2>6, <2>7, <2>8, <2>9 DEF RequestStep
  <1> QED BY <1>1, <1>4, <1>5 DEF ActivationNext

\* However long Activate takes and whichever events pass meanwhile, the route that
\* ResolvePID stores is not used beyond the lease of the session it names.
THEOREM StaleRoutesEnd == ActivationSpec => []StaleRouteEndsWithLease
  <1>1. ActivationInit => LeaseInv
    BY ActivationAssumption
    DEF ActivationInit, OwnershipInit, LeaseInv, LeasesOK, Vacant, EmptyRoutes, NoRoute,
        PIDRoute, Bounded, RequestBounded, Idle
  <1>2. LeaseInv => StaleRouteEndsWithLease
    <2> SUFFICES ASSUME LeaseInv, NEW g \in Grain, now < cache[g].until,
                        serving[cache[g].p.node].session = cache[g].p.session
                 PROVE  Trusted(cache[g].p)
      BY DEF StaleRouteEndsWithLease
    <2> DEFINE p == cache[g].p
    <2>1. Within(p, cache[g].until) /\ now \in Nat
      BY DEF LeaseInv, LeasesOK, Bounded
    <2>2. /\ p.node \in Node /\ p.session \in Session
          /\ serving[p.node].deadline \in Nat /\ serving[p.node].deadline > now
      BY <2>1 DEF Within, LeaseInv, LeasesOK
    <2>3. serving[p.node] # Vacant /\ p # NoPlacement
      BY <2>2, EventsAssumption DEF Vacant, NoPlacement
    <2> QED BY <2>2, <2>3 DEF Trusted, Alive
  <1>3. ActivationInv /\ LeaseInv /\ [ActivationNext]_activationVars => LeaseInv'
    BY LeaseInvNext
  <1> QED BY <1>1, <1>2, <1>3, ActivationInvariance, PTL DEF ActivationSpec
=============================================================================
