------------------------- MODULE CachedRouter_proofs -------------------------
(***************************************************************************)
(* The caching router over any directory that keeps the contract of        *)
(* Ownership, for any number of goroutines, events and requests.  A route  *)
(* is covered (Covered) while the directory still stands by it or an event *)
(* that evicts it is on its way.  The cache only holds covered routes,     *)
(* because a request only stores one when no event was handled since it    *)
(* began - or only the announcement of its own allocation, which does not  *)
(* uncover a route: that is why Announced leaves PlacementCreated out.     *)
(***************************************************************************)
EXTENDS CachedRouter, SequenceTheorems, TLAPS

Sessions == [session : Session, deadline : Nat]
Placements == PlacementRecord \cup {NoPlacement}
Routes == [p : PlacementRecord, until : Int]

\* What the directory appends to the stream.
StreamEvents ==
    [type : NodeEventTypes, node : Node]
      \cup [type : PlacementEventTypes, grain : Grain, id : PlacementID, node : Node,
            session : Session, version : Nat]

Requests ==
    [pc : {"ask", "confirm", "store"}, op : {"lookup", "resolve", "allocate"},
     grain : Grain, group : Group \cup {""}, epoch : Nat, start : Nat,
     p : Placements, route : Routes \cup {NoRoute}]

OwnershipTypeOK ==
    /\ now \in Nat
    /\ serving \in [Node -> Sessions \cup {Vacant}]
    /\ owner \in [Grain -> Placements]
    /\ spent \subseteq PlacementID

CacheTypeOK ==
    /\ entries \in [Grain -> Routes \cup {NoRoute}]
    /\ byNode \in [Node -> SUBSET Grain]
    /\ degraded \in BOOLEAN
    /\ epoch \in Nat

RouterTypeOK ==
    /\ OwnershipTypeOK
    /\ CacheTypeOK
    /\ request \in [Thread -> {NoRequest} \cup Requests]
    /\ stream \in Seq(StreamEvents)

RouterInv == RouterTypeOK /\ CacheIndexCoherent

LEMMA EmptyFields ==
    /\ NoPlacement \notin PlacementRecord
    /\ NoRoute \notin Routes
    /\ NoRoute.p.node \notin Node
    /\ \A r \in Routes : r.p.node \in Node /\ r.p.session \in Session /\ r.p # NoPlacement
    /\ Vacant.session \notin Session
    /\ NoEvent.type \notin DomainEventTypes /\ NoEvent.type # "PlacementCreated"
    /\ NoRequest \notin Requests /\ NoRequest.pc = "idle"
  <1>1. NoPlacement \notin PlacementRecord /\ NoPlacement.node \notin Node
    BY EventsAssumption DEF NoPlacement, PlacementRecord
  <1>2. NoRoute.p = NoPlacement
    BY DEF NoRoute
  <1>3. \A r \in Routes : r.p \in PlacementRecord
    BY DEF Routes
  <1>4. \A p \in PlacementRecord : p.node \in Node /\ p.session \in Session
    BY DEF PlacementRecord
  <1>5. Vacant.session \notin Session
    BY EventsAssumption DEF Vacant
  <1>6. NoEvent.type \notin DomainEventTypes /\ NoEvent.type # "PlacementCreated"
    BY DEF NoEvent, DomainEventTypes, NodeEventTypes, PlacementEventTypes
  <1>7. NoRequest.pc = "idle"
    BY DEF NoRequest
  <1>8. \A k \in Requests : k.pc # "idle"
    BY DEF Requests
  <1> QED BY <1>1, <1>2, <1>3, <1>4, <1>5, <1>6, <1>7, <1>8

-----------------------------------------------------------------------------
(* The cache keeps its reverse index under each of its operations.         *)

CacheInv == CacheTypeOK /\ CacheIndexCoherent

LEMMA SetKeepsIndex ==
    ASSUME CacheInv, NEW g \in Grain, NEW route \in Routes,
           SetCachedPlacement(g, route), UNCHANGED <<degraded, epoch>>
    PROVE  CacheInv'
  <1>1. CASE degraded
    BY <1>1 DEF CacheInv, CacheTypeOK, CacheIndexCoherent, SetCachedPlacement
  <1>2. CASE ~degraded
    <2>1. entries' = [entries EXCEPT ![g] = route]
      BY <1>2 DEF SetCachedPlacement
    <2>2. byNode' = [n \in Node |-> IF n = route.p.node THEN byNode[n] \cup {g}
                                    ELSE IF n = entries[g].p.node THEN byNode[n] \ {g}
                                    ELSE byNode[n]]
      BY <1>2 DEF SetCachedPlacement
    <2>3. CacheTypeOK'
      BY <2>1, <2>2 DEF CacheInv, CacheTypeOK
    <2>4. ASSUME NEW n \in Node
          PROVE  byNode'[n] = {h \in Grain : entries'[h].p.node = n}
      <3>1. \A h \in Grain : entries'[h] = IF h = g THEN route ELSE entries[h]
        BY <2>1 DEF CacheInv, CacheTypeOK
      <3> QED BY <2>2, <3>1 DEF CacheInv, CacheIndexCoherent
    <2> QED BY <1>2, <2>3, <2>4 DEF CacheInv, CacheIndexCoherent
  <1> QED BY <1>1, <1>2

\* Entries that are taken away together with their places in the index.
LEMMA DropKeepsIndex ==
    ASSUME CacheInv, NEW gone \in SUBSET Grain,
           entries' = [g \in Grain |-> IF g \in gone THEN NoRoute ELSE entries[g]],
           byNode' = [n \in Node |-> byNode[n] \ gone],
           degraded' \in BOOLEAN, epoch' \in Nat,
           degraded' => degraded \/ gone = Grain
    PROVE  CacheInv'
  <1>1. CacheTypeOK'
    BY DEF CacheInv, CacheTypeOK
  <1>2. ASSUME NEW n \in Node
        PROVE  byNode'[n] = {h \in Grain : entries'[h].p.node = n}
    BY EmptyFields DEF CacheInv, CacheIndexCoherent
  <1>3. degraded' => entries' = EmptyEntries
    BY DEF CacheInv, CacheIndexCoherent, EmptyEntries
  <1> QED BY <1>1, <1>2, <1>3 DEF CacheInv, CacheIndexCoherent

\* An entry is found under the node it names, so deleting one grain, the grains
\* of some nodes, or all of them drops exactly that from both.
LEMMA DeleteDrops ==
    ASSUME CacheInv
    PROVE  /\ \A g \in Grain : DeleteCachedPlacement(g) =>
                /\ entries' = [h \in Grain |-> IF h \in {g} THEN NoRoute ELSE entries[h]]
                /\ byNode' = [n \in Node |-> byNode[n] \ {g}]
           /\ \A nodes \in SUBSET Node : DeleteCachedPlacementsOf(nodes) =>
                LET gone == {g \in Grain : entries[g].p.node \in nodes} IN
                /\ entries' = [h \in Grain |-> IF h \in gone THEN NoRoute ELSE entries[h]]
                /\ byNode' = [n \in Node |-> byNode[n] \ gone]
           /\ ClearPlacementCache =>
                /\ entries' = [h \in Grain |-> IF h \in Grain THEN NoRoute ELSE entries[h]]
                /\ byNode' = [n \in Node |-> byNode[n] \ Grain]
  <1>1. /\ entries \in [Grain -> Routes \cup {NoRoute}] /\ byNode \in [Node -> SUBSET Grain]
        /\ \A n \in Node : byNode[n] = {g \in Grain : entries[g].p.node = n}
    BY DEF CacheInv, CacheTypeOK, CacheIndexCoherent
  <1>2. ASSUME NEW g \in Grain, DeleteCachedPlacement(g)
        PROVE  /\ entries' = [h \in Grain |-> IF h \in {g} THEN NoRoute ELSE entries[h]]
               /\ byNode' = [n \in Node |-> byNode[n] \ {g}]
    BY <1>1, <1>2 DEF DeleteCachedPlacement
  <1>3. ASSUME NEW nodes \in SUBSET Node, DeleteCachedPlacementsOf(nodes)
        PROVE  LET gone == {g \in Grain : entries[g].p.node \in nodes} IN
               /\ entries' = [h \in Grain |-> IF h \in gone THEN NoRoute ELSE entries[h]]
               /\ byNode' = [n \in Node |-> byNode[n] \ gone]
    BY <1>1, <1>3 DEF DeleteCachedPlacementsOf
  <1>4. ASSUME ClearPlacementCache
        PROVE  /\ entries' = [h \in Grain |-> IF h \in Grain THEN NoRoute ELSE entries[h]]
               /\ byNode' = [n \in Node |-> byNode[n] \ Grain]
    BY <1>1, <1>4 DEF ClearPlacementCache, EmptyEntries, EmptyByNode
  <1> QED BY <1>2, <1>3, <1>4

-----------------------------------------------------------------------------
(* What the directory does to a route: it stands, or its loss is announced. *)

ContractStep ==
    \/ ClockMoves(now + 1)
    \/ \E n \in Node : \/ Extend(n, now + TTL)
                       \/ \E s \in Session : Serve(n, s, now + TTL)
                       \/ Leave(n)
                       \/ Notice(n)
    \/ \E g \in Grain : \/ \E n \in Node : NewOwner(g, n)
                        \/ GiveBack(g)
                        \/ Audit(g)

\* A step of the directory, or none, as far as the router is concerned.
Published ==
    \/ UNCHANGED <<now, serving, owner, spent, stream>>
    \/ /\ ContractStep
       /\ stream' = IF announced'.type \in DomainEventTypes THEN Append(stream, announced')
                    ELSE stream

LEMMA EventsTyped ==
    /\ \A type \in NodeEventTypes, n \in Node : NodeEvent(type, n) \in StreamEvents
    /\ \A type \in PlacementEventTypes, g \in Grain, p \in PlacementRecord :
         PlacementEvent(type, g, p) \in StreamEvents
    /\ \A g, p : PlacementEvent("PlacementRenewed", g, p).type \notin DomainEventTypes
  <1>1. \A type \in NodeEventTypes, n \in Node : NodeEvent(type, n) \in StreamEvents
    BY DEF NodeEvent, StreamEvents
  <1>2. \A type \in PlacementEventTypes, g \in Grain, p \in PlacementRecord :
          PlacementEvent(type, g, p) \in StreamEvents
    BY DEF PlacementEvent, StreamEvents, PlacementRecord
  <1>3. \A g, p : PlacementEvent("PlacementRenewed", g, p).type \notin DomainEventTypes
    BY DEF PlacementEvent, DomainEventTypes, NodeEventTypes, PlacementEventTypes
  <1> QED BY <1>1, <1>2, <1>3

LEMMA NextRecord ==
    ASSUME NEW p \in PlacementRecord, NEW n \in Node, NEW s \in Session
    PROVE  Succession(p, n, s) \in PlacementRecord
  BY DEF PlacementRecord, Succession

\* An alive node is served by a session, and so is the owner it is given.
LEMMA OwnersTyped ==
    ASSUME OwnershipTypeOK, NEW g \in Grain, NEW n \in Node, NewOwner(g, n)
    PROVE  /\ \E p \in PlacementRecord, type \in PlacementEventTypes :
                owner' = [owner EXCEPT ![g] = p] /\ announced' = PlacementEvent(type, g, p)
           /\ owner[g] # NoPlacement => announced'.type # "PlacementCreated"
           /\ announced'.type = "PlacementCreated" => owner[g] = NoPlacement
           /\ UNCHANGED <<now, serving>> /\ spent' \subseteq PlacementID
  <1>1. Alive(n) => serving[n].session \in Session
    BY DEF OwnershipTypeOK, Alive, Sessions
  <1>2. ASSUME NEW id \in PlacementID, Claim(g, id, n)
        PROVE  /\ \E p \in PlacementRecord, type \in PlacementEventTypes :
                    owner' = [owner EXCEPT ![g] = p] /\ announced' = PlacementEvent(type, g, p)
               /\ owner[g] = NoPlacement
               /\ UNCHANGED <<now, serving>> /\ spent' \subseteq PlacementID
    <2>1. [id |-> id, node |-> n, session |-> serving[n].session, version |-> 1]
            \in PlacementRecord
      BY <1>1, <1>2 DEF Claim, PlacementRecord
    <2> QED BY <1>2, <2>1 DEF Claim, Becomes, PlacementEventTypes, OwnershipTypeOK
  <1>3. ASSUME NEW type \in {"PlacementTransferred", "PlacementRecovered"}, Succeed(g, n, type)
        PROVE  /\ \E p \in PlacementRecord :
                    owner' = [owner EXCEPT ![g] = p] /\ announced' = PlacementEvent(type, g, p)
               /\ type \in PlacementEventTypes /\ announced'.type # "PlacementCreated"
               /\ UNCHANGED <<now, serving>> /\ spent' \subseteq PlacementID
    <2>1. owner[g] \in PlacementRecord
      BY <1>3 DEF Succeed, OwnershipTypeOK, Placements
    <2>2. Succession(owner[g], n, serving[n].session) \in PlacementRecord
      BY <1>1, <1>3, <2>1, NextRecord DEF Succeed
    <2> QED BY <1>3, <2>2
        DEF Succeed, Becomes, PlacementEventTypes, PlacementEvent, OwnershipTypeOK
  <1> QED BY <1>2, <1>3 DEF NewOwner, HandOver, TakeOver

LEMMA ContractTyped ==
    ASSUME OwnershipTypeOK, ContractStep
    PROVE  /\ OwnershipTypeOK'
           /\ now' = now \/ now' = now + 1
           /\ announced'.type \in DomainEventTypes => announced' \in StreamEvents
  <1>1. now \in Nat /\ TTL \in Nat /\ now + TTL \in Nat
    BY RouterAssumption DEF OwnershipTypeOK
  <1>2. ASSUME ClockMoves(now + 1)
        PROVE  OwnershipTypeOK' /\ now' = now + 1 /\ announced' = NoEvent
    BY <1>1, <1>2 DEF ClockMoves, OwnershipTypeOK
  <1>3. ASSUME NEW n \in Node, Extend(n, now + TTL)
        PROVE  /\ OwnershipTypeOK' /\ now' = now /\ announced' = NoEvent
    BY <1>1, <1>3 DEF Extend, Alive, OwnershipTypeOK, Sessions
  <1>4. ASSUME NEW n \in Node, NEW s \in Session, Serve(n, s, now + TTL)
        PROVE  OwnershipTypeOK' /\ now' = now /\ announced' \in StreamEvents
    <2>1. announced' \in StreamEvents
      BY <1>4, EventsTyped DEF Serve, NodeEventTypes
    <2> QED BY <1>1, <1>4, <2>1 DEF Serve, OwnershipTypeOK, Sessions
  <1>5. ASSUME NEW n \in Node, Leave(n)
        PROVE  OwnershipTypeOK' /\ now' = now /\ announced' \in StreamEvents
    <2>1. announced' \in StreamEvents
      BY <1>5, EventsTyped DEF Leave, NodeEventTypes
    <2> QED BY <1>5, <2>1 DEF Leave, OwnershipTypeOK
  <1>6. ASSUME NEW n \in Node, Notice(n)
        PROVE  OwnershipTypeOK' /\ now' = now /\ announced' \in StreamEvents
    <2>1. announced' \in StreamEvents
      BY <1>6, EventsTyped DEF Notice, NodeEventTypes
    <2> QED BY <1>6, <2>1 DEF Notice, OwnershipTypeOK
  <1>7. ASSUME NEW g \in Grain, NEW n \in Node, NewOwner(g, n)
        PROVE  OwnershipTypeOK' /\ now' = now /\ announced' \in StreamEvents
    BY <1>7, OwnersTyped, EventsTyped DEF OwnershipTypeOK, Placements
  <1>8. ASSUME NEW g \in Grain, GiveBack(g)
        PROVE  OwnershipTypeOK' /\ now' = now /\ announced' \in StreamEvents
    <2>1. owner[g] \in PlacementRecord
      BY <1>8 DEF GiveBack, OwnershipTypeOK, Placements
    <2>2. [owner[g] EXCEPT !.version = @ + 1] \in PlacementRecord
      BY <2>1 DEF PlacementRecord
    <2>3. announced' \in StreamEvents
      BY <1>8, <2>2, EventsTyped DEF GiveBack, PlacementEventTypes
    <2> QED BY <1>8, <2>3 DEF GiveBack, OwnershipTypeOK, Placements
  <1>9. ASSUME NEW g \in Grain, Audit(g)
        PROVE  OwnershipTypeOK' /\ now' = now /\ announced'.type \notin DomainEventTypes
    BY <1>9, EventsTyped DEF Audit, OwnershipTypeOK
  <1>10. OwnershipTypeOK' /\ (now' = now \/ now' = now + 1)
    BY <1>2, <1>3, <1>4, <1>5, <1>6, <1>7, <1>8, <1>9 DEF ContractStep
  <1>11. announced' = NoEvent \/ announced' \in StreamEvents
         \/ announced'.type \notin DomainEventTypes
    BY <1>2, <1>3, <1>4, <1>5, <1>6, <1>7, <1>8, <1>9 DEF ContractStep
  <1> QED BY <1>10, <1>11, EmptyFields

\* The directory stands by a route: the same owner, served by the same session,
\* until the route's deadline at least.
Standing(g, r) ==
    /\ owner[g] = r.p
    /\ serving[r.p.node].session = r.p.session
    /\ r.until <= serving[r.p.node].deadline

\* An event that evicts it has been appended and not been acknowledged.
Announced(g, n) ==
    \E i \in 1 .. Len(stream) : /\ Evicts(stream[i], g, n)
                                /\ stream[i].type # "PlacementCreated"

Covered(g, r) == Standing(g, r) \/ Announced(g, r.p.node)

LEMMA StandingOrAnnounced ==
    ASSUME OwnershipTypeOK, ContractStep, NEW g \in Grain, NEW r \in Routes, Standing(g, r)
    PROVE  \/ Standing(g, r)'
           \/ /\ announced'.type \in DomainEventTypes \ {"PlacementCreated"}
              /\ Evicts(announced', g, r.p.node)
  <1>1. /\ r.p.node \in Node /\ r.p.session \in Session /\ r.p # NoPlacement
        /\ r.until \in Int /\ owner[g] = r.p
    BY EmptyFields DEF Routes, Standing
  <1>2. /\ serving[r.p.node] # Vacant /\ serving[r.p.node].deadline \in Nat
        /\ serving[r.p.node] \in Sessions
    BY <1>1, EmptyFields DEF Standing, OwnershipTypeOK, Sessions
  <1>3. ASSUME UNCHANGED <<serving, owner>>
        PROVE  Standing(g, r)'
    BY <1>3 DEF Standing
  <1>4. ASSUME NEW n \in Node, NEW d, n # r.p.node, serving' = [serving EXCEPT ![n] = d],
               owner' = owner
        PROVE  Standing(g, r)'
    BY <1>1, <1>4 DEF Standing, OwnershipTypeOK
  <1>5. ASSUME NEW h \in Grain, NEW p, h # g, owner' = [owner EXCEPT ![h] = p],
               serving' = serving
        PROVE  Standing(g, r)'
    BY <1>5 DEF Standing, OwnershipTypeOK
  <1>6. ASSUME NEW n \in Node, Extend(n, now + TTL)
        PROVE  Standing(g, r)'
    <2>1. PICK d : d = now + TTL
      OBVIOUS
    <2>2. d \in Nat
      BY <2>1, RouterAssumption DEF OwnershipTypeOK
    <2>3. /\ d >= serving[n].deadline /\ serving' = [serving EXCEPT ![n].deadline = d]
          /\ owner' = owner
      BY <1>6, <2>1 DEF Extend
    <2>4. CASE n = r.p.node
      <3>1. serving'[n].session = r.p.session /\ serving'[n].deadline = d
        BY <1>1, <1>2, <2>3, <2>4 DEF Standing, OwnershipTypeOK, Sessions
      <3>2. r.until <= d
        BY <1>1, <1>2, <2>2, <2>3, <2>4 DEF Standing
      <3> QED BY <1>1, <2>3, <2>4, <3>1, <3>2 DEF Standing
    <2>5. CASE n # r.p.node
      BY <1>1, <2>3, <2>5 DEF Standing, OwnershipTypeOK
    <2> QED BY <2>4, <2>5
  <1>7. ASSUME NEW n \in Node, NEW s \in Session, Serve(n, s, now + TTL), n = r.p.node
        PROVE  announced'.type = "NodeReplaced" /\ announced'.node = n
    BY <1>2, <1>7 DEF Serve, NodeEvent
  <1>8. ASSUME NEW n \in Node, Leave(n), n = r.p.node
        PROVE  announced'.type \in {"NodeUnregistered", "NodeLeaseExpired"}
               /\ announced'.node = n
    BY <1>8 DEF Leave, NodeEvent
  <1>9. ASSUME NEW n \in Node, NewOwner(g, n)
        PROVE  /\ announced'.type \in PlacementEventTypes \ {"PlacementCreated"}
               /\ announced'.grain = g
    BY <1>1, <1>9, OwnersTyped DEF PlacementEvent
  <1>10. ASSUME GiveBack(g)
         PROVE  announced'.type = "PlacementReleased" /\ announced'.grain = g
    BY <1>10 DEF GiveBack, PlacementEvent
  <1>11. ASSUME NEW n \in Node, Leave(n) \/ \E s \in Session : Serve(n, s, now + TTL)
         PROVE  \/ Standing(g, r)'
                \/ /\ announced'.type \in DomainEventTypes \ {"PlacementCreated"}
                   /\ Evicts(announced', g, r.p.node)
    <2>1. CASE n = r.p.node
      BY <1>7, <1>8, <1>11, <2>1
      DEF Evicts, NodeEvictingTypes, DomainEventTypes, NodeEventTypes, PlacementEventTypes
    <2>2. CASE n # r.p.node
      BY <1>4, <1>11, <2>2 DEF Leave, Serve
    <2> QED BY <2>1, <2>2
  <1>12. ASSUME NEW h \in Grain, GiveBack(h) \/ \E n \in Node : NewOwner(h, n)
         PROVE  \/ Standing(g, r)'
                \/ /\ announced'.type \in DomainEventTypes \ {"PlacementCreated"}
                   /\ Evicts(announced', g, r.p.node)
    <2>1. CASE h = g
      BY <1>9, <1>10, <1>12, <2>1 DEF Evicts, DomainEventTypes, PlacementEventTypes
    <2>2. CASE h # g
      BY <1>5, <1>12, <2>2, OwnersTyped DEF GiveBack
    <2> QED BY <2>1, <2>2
  <1> QED BY <1>3, <1>6, <1>11, <1>12 DEF ContractStep, ClockMoves, Notice, Audit

LEMMA PublishedTyped ==
    ASSUME RouterTypeOK, Published
    PROVE  OwnershipTypeOK' /\ stream' \in Seq(StreamEvents) /\ (now' = now \/ now' = now + 1)
  <1>1. CASE UNCHANGED <<now, serving, owner, spent, stream>>
    BY <1>1 DEF RouterTypeOK, OwnershipTypeOK
  <1>2. CASE ContractStep /\ stream' = IF announced'.type \in DomainEventTypes
                                       THEN Append(stream, announced') ELSE stream
    <2>1. /\ OwnershipTypeOK' /\ (now' = now \/ now' = now + 1)
          /\ announced'.type \in DomainEventTypes => announced' \in StreamEvents
      BY <1>2, ContractTyped DEF RouterTypeOK
    <2>2. \A e \in StreamEvents : Append(stream, e) \in Seq(StreamEvents)
      BY DEF RouterTypeOK
    <2> QED BY <1>2, <2>1, <2>2 DEF RouterTypeOK
  <1> QED BY <1>1, <1>2 DEF Published

\* A covered route stays covered whatever the directory does.
LEMMA CoveredKept ==
    ASSUME RouterTypeOK, Published, NEW g \in Grain, NEW r \in Routes, Covered(g, r)
    PROVE  Covered(g, r)'
  <1>1. CASE UNCHANGED <<now, serving, owner, spent, stream>>
    BY <1>1 DEF Covered, Standing, Announced
  <1>2. CASE ContractStep /\ stream' = IF announced'.type \in DomainEventTypes
                                       THEN Append(stream, announced') ELSE stream
    <2>1. PICK e : e = announced'
      OBVIOUS
    <2>2. stream \in Seq(StreamEvents)
      BY DEF RouterTypeOK
    <2>3. CASE Announced(g, r.p.node)
      <3>1. \A i \in 1 .. Len(stream) : i \in 1 .. Len(stream') /\ stream'[i] = stream[i]
        BY <1>2, <2>2
      <3> QED BY <2>3, <3>1 DEF Announced, Covered
    <2>4. CASE Standing(g, r) /\ ~Standing(g, r)'
      <3>1. /\ e.type \in DomainEventTypes \ {"PlacementCreated"}
            /\ Evicts(e, g, r.p.node)
        BY <1>2, <2>1, <2>4, StandingOrAnnounced DEF RouterTypeOK
      <3>2. stream' = Append(stream, e)
        BY <1>2, <2>1, <3>1
      <3>3. Len(stream) + 1 \in 1 .. Len(stream') /\ stream'[Len(stream) + 1] = e
        BY <2>2, <3>2
      <3> QED BY <3>1, <3>3 DEF Announced, Covered
    <2> QED BY <2>3, <2>4 DEF Covered
  <1> QED BY <1>1, <1>2 DEF Published

\* What is on its way stays so, unless it is handled now.
LEMMA CoveredUntilHandled ==
    ASSUME RouterTypeOK, stream # <<>>, stream' \in {stream, Tail(stream)},
           UNCHANGED <<now, serving, owner>>,
           NEW g \in Grain, NEW r \in Routes, Covered(g, r)
    PROVE  \/ Covered(g, r)'
           \/ Evicts(Head(stream), g, r.p.node) /\ Head(stream).type # "PlacementCreated"
  <1>1. CASE Standing(g, r)
    BY <1>1 DEF Standing, Covered
  <1>2. CASE Announced(g, r.p.node)
    <2>1. stream \in Seq(StreamEvents)
      BY DEF RouterTypeOK
    <2>2. PICK i \in 1 .. Len(stream) : /\ Evicts(stream[i], g, r.p.node)
                                        /\ stream[i].type # "PlacementCreated"
      BY <1>2 DEF Announced
    <2>3. CASE i = 1
      BY <2>1, <2>2, <2>3
    <2>4. CASE stream' = stream
      BY <1>2, <2>4 DEF Announced, Covered
    <2>5. CASE i # 1 /\ stream' = Tail(stream)
      <3>1. i - 1 \in 1 .. Len(stream') /\ stream'[i - 1] = stream[i]
        BY <2>1, <2>2, <2>5
      <3> QED BY <2>2, <3>1 DEF Announced, Covered
    <2> QED BY <2>3, <2>4, <2>5
  <1> QED BY <1>1, <1>2 DEF Covered

-----------------------------------------------------------------------------
(* The inductive invariant.                                                *)

\* The route a request brings back is covered, as long as it may be stored.
RequestOK(k) ==
    k \in Requests =>
      /\ k.epoch <= epoch /\ k.start <= now
      /\ k.pc = "store" => /\ k.route \in Routes
                           /\ ~degraded /\ EpochAllows(k) => Covered(k.grain, k.route)

CoverInv ==
    /\ \A g \in Grain : entries[g] # NoRoute => Covered(g, entries[g])
    /\ \A t \in Thread : RequestOK(request[t])

CachedInv == RouterTypeOK /\ CacheIndexCoherent /\ CoverInv

\* Nothing but the directory's state and one request changes.
Quiet == Published /\ UNCHANGED <<degraded, epoch, lastEvent>>

LEMMA RequestKept ==
    ASSUME CachedInv, Quiet, NEW k, RequestOK(k)
    PROVE  RequestOK(k)'
  <1> SUFFICES ASSUME k \in Requests
               PROVE  /\ k.epoch <= epoch' /\ k.start <= now'
                      /\ k.pc = "store" => /\ k.route \in Routes
                                           /\ ~degraded' /\ EpochAllows(k)'
                                                => Covered(k.grain, k.route)'
    BY DEF RequestOK
  <1>1. k.grain \in Grain /\ k.start \in Nat /\ now \in Nat
    BY DEF Requests, CachedInv, RouterTypeOK, OwnershipTypeOK
  <1>2. PICK u : u = now'
    OBVIOUS
  <1>3. u = now \/ u = now + 1
    BY <1>2, PublishedTyped DEF Quiet, CachedInv
  <1>4. k.start <= u
    BY <1>1, <1>3 DEF RequestOK
  <1>5. EpochAllows(k)' => EpochAllows(k)
    BY DEF Quiet, EpochAllows, matchesSynchronousCreated
  <1> QED BY <1>1, <1>2, <1>4, <1>5, CoveredKept DEF RequestOK, Quiet, CachedInv

\* Entries that are kept or written are covered, and requests that move are in
\* order.
LEMMA QuietKeepsInv ==
    ASSUME CachedInv, Quiet, CacheInv',
           request' \in [Thread -> {NoRequest} \cup Requests],
           \A t \in Thread : request'[t] = request[t] \/ RequestOK(request[t])',
           \A g \in Grain : entries'[g] # NoRoute =>
                              entries'[g] = entries[g] \/ Covered(g, entries'[g])
    PROVE  CachedInv'
  <1>1. RouterTypeOK'
    BY PublishedTyped DEF Quiet, CachedInv, RouterTypeOK, CacheInv
  <1>2. ASSUME NEW g \in Grain, entries'[g] # NoRoute
        PROVE  Covered(g, entries[g])'
    <2>1. PICK r \in Routes : r = entries'[g]
      BY <1>1, <1>2 DEF RouterTypeOK, CacheTypeOK
    <2>2. Covered(g, r)
      BY <1>2, <2>1 DEF CachedInv, CoverInv
    <2>3. Covered(g, r)'
      BY <2>2, CoveredKept DEF Quiet, CachedInv
    <2> QED BY <2>1, <2>3
  <1>3. ASSUME NEW t \in Thread, request'[t] = request[t]
        PROVE  RequestOK(request[t])'
    <2>1. PICK j : j = request[t]
      OBVIOUS
    <2>2. RequestOK(j)' /\ request'[t] = j
      BY <1>3, <2>1, RequestKept DEF CachedInv, CoverInv
    <2> QED BY <2>2
  <1> QED BY <1>1, <1>2, <1>3 DEF CachedInv, CoverInv, CacheInv

\* One request moves on.
LEMMA RequestMoves ==
    ASSUME CachedInv, Quiet, CacheInv', NEW t \in Thread,
           NEW k \in {NoRequest} \cup Requests,
           request' = [request EXCEPT ![t] = k], RequestOK(k)',
           \A g \in Grain : entries'[g] # NoRoute =>
                              entries'[g] = entries[g] \/ Covered(g, entries'[g])
    PROVE  CachedInv'
  <1>1. request' \in [Thread -> {NoRequest} \cup Requests]
    BY DEF CachedInv, RouterTypeOK
  <1>2. ASSUME NEW u \in Thread
        PROVE  request'[u] = request[u] \/ RequestOK(request[u])'
    BY DEF CachedInv, RouterTypeOK
  <1> QED BY <1>1, <1>2, QuietKeepsInv

\* The cache is not touched.
LEMMA CacheKept ==
    ASSUME CachedInv, UNCHANGED <<entries, byNode, degraded, epoch>>
    PROVE  CacheInv'
  BY DEF CachedInv, RouterTypeOK, CacheInv, CacheTypeOK, CacheIndexCoherent

\* A request begins with the epoch and the clock of that moment.
LEMMA AskOK ==
    ASSUME CachedInv, NEW k \in Requests, k.pc = "ask", k.epoch = epoch, k.start = now
    PROVE  RequestOK(k)
  <1>1. epoch \in Nat /\ now \in Nat
    BY DEF CachedInv, RouterTypeOK, OwnershipTypeOK, CacheTypeOK
  <1> QED BY <1>1 DEF RequestOK

LEMMA BeginsKeepInv ==
    ASSUME CachedInv, NEW t \in Thread, NEW g \in Grain, NEW group \in Group \cup {""},
           NEW op \in {"lookup", "resolve", "allocate"}, Begin(t, op, g, group),
           UNCHANGED <<ownershipVars, degraded, epoch, lastEvent, stream>>,
           DeleteCachedPlacement(g) \/ UNCHANGED <<entries, byNode>>
    PROVE  CachedInv'
  <1>1. epoch \in Nat /\ now \in Nat
    BY DEF CachedInv, RouterTypeOK, OwnershipTypeOK, CacheTypeOK
  <1>2. PICK k \in Requests :
          k = [pc |-> "ask", op |-> op, grain |-> g, group |-> group, epoch |-> epoch,
               start |-> now, p |-> NoPlacement, route |-> NoRoute]
    BY <1>1 DEF Requests, Placements
  <1>3. Quiet /\ request' = [request EXCEPT ![t] = k]
    BY <1>2 DEF Quiet, Published, ownershipVars, Begin
  <1>4. RequestOK(k)
    <2>1. k.epoch = epoch /\ k.start = now /\ k.pc = "ask"
      BY <1>2
    <2> QED BY <2>1, AskOK
  <1>5. RequestOK(k)'
    BY <1>3, <1>4, RequestKept
  <1>6. CASE DeleteCachedPlacement(g)
    <2>1. /\ CacheInv /\ {g} \in SUBSET Grain
          /\ degraded' \in BOOLEAN /\ epoch' \in Nat /\ (degraded' => degraded)
      BY DEF CachedInv, RouterTypeOK, CacheInv, CacheTypeOK
    <2>2. CacheInv'
      BY <1>6, <2>1, DeleteDrops, DropKeepsIndex
    <2>3. \A h \in Grain : entries'[h] # NoRoute => entries'[h] = entries[h]
      BY <1>6, <2>1, DeleteDrops
    <2> QED BY <1>3, <1>5, <2>2, <2>3, RequestMoves
  <1>7. CASE UNCHANGED <<entries, byNode>>
    <2>1. CacheInv'
      BY <1>3, <1>7, CacheKept DEF Quiet
    <2> QED BY <1>3, <1>5, <1>7, <2>1, RequestMoves
  <1> QED BY <1>6, <1>7

LEMMA DirectoryKeepsInv ==
    ASSUME CachedInv, DirectoryStep
    PROVE  CachedInv'
  <1>1. ContractStep /\ UNCHANGED <<routerVars, request>>
    BY DEF DirectoryStep, Logged, ContractStep
  <1>2. Quiet
    BY <1>1 DEF Quiet, Published, DirectoryStep, Logged, routerVars
  <1>3. CacheInv' /\ UNCHANGED <<entries, request>>
    BY <1>1, CacheKept DEF routerVars
  <1>4. request' \in [Thread -> {NoRequest} \cup Requests]
    BY <1>3 DEF CachedInv, RouterTypeOK
  <1> QED BY <1>2, <1>3, <1>4, QuietKeepsInv

\* The answer of the directory names an owner the session of whose node serves.
LEMMA OwnerServes ==
    ASSUME OwnershipTypeOK, OwnershipTypeOK', NEW g \in Grain,
           \/ Trusted(owner[g]) /\ UNCHANGED ownershipVars
           \/ \E n \in Node : \/ \E id \in PlacementID : Claim(g, id, n)
                              \/ TakeOver(g, n)
    PROVE  /\ owner'[g] \in PlacementRecord
           /\ serving[owner'[g].node].session = owner'[g].session
           /\ UNCHANGED <<now, serving>>
  <1>1. owner'[g] \in Placements
    BY DEF OwnershipTypeOK
  <1>2. CASE Trusted(owner[g]) /\ UNCHANGED ownershipVars
    BY <1>1, <1>2 DEF Trusted, ownershipVars, Placements
  <1>3. ASSUME NEW n \in Node, NEW p, owner' = [owner EXCEPT ![g] = p],
               p.node = n, p.session = serving[n].session
        PROVE  owner'[g] \in PlacementRecord
               /\ serving[owner'[g].node].session = owner'[g].session
    <2>1. owner'[g] = p
      BY <1>3 DEF OwnershipTypeOK
    <2>2. p # NoPlacement
      BY <1>3, EventsAssumption DEF NoPlacement
    <2> QED BY <1>1, <1>3, <2>1, <2>2 DEF Placements
  <1>4. ASSUME NEW n \in Node, NEW id \in PlacementID, Claim(g, id, n)
        PROVE  /\ owner'[g] \in PlacementRecord
               /\ serving[owner'[g].node].session = owner'[g].session
               /\ UNCHANGED <<now, serving>>
    <2>1. PICK p : p = [id |-> id, node |-> n, session |-> serving[n].session, version |-> 1]
      OBVIOUS
    <2>2. /\ owner' = [owner EXCEPT ![g] = p] /\ UNCHANGED <<now, serving>>
          /\ p.node = n /\ p.session = serving[n].session
      BY <1>4, <2>1 DEF Claim, Becomes
    <2> QED BY <1>3, <2>2
  <1>5. ASSUME NEW n \in Node, TakeOver(g, n)
        PROVE  /\ owner'[g] \in PlacementRecord
               /\ serving[owner'[g].node].session = owner'[g].session
               /\ UNCHANGED <<now, serving>>
    <2>1. PICK p : p = Succession(owner[g], n, serving[n].session)
      OBVIOUS
    <2>2. /\ owner' = [owner EXCEPT ![g] = p] /\ UNCHANGED <<now, serving>>
          /\ p.node = n /\ p.session = serving[n].session
      BY <1>5, <2>1 DEF TakeOver, Succeed, Becomes, Succession
    <2> QED BY <1>3, <2>2
  <1> QED BY <1>2, <1>4, <1>5

\* A deadline counted from before the script is no later than the lease.
LEMMA RoutedKeepsInv ==
    ASSUME CachedInv, NEW t \in Thread, NEW k \in Requests, k = request[t], k.pc # "store",
           \/ Trusted(owner[k.grain]) /\ UNCHANGED <<ownershipVars, stream>>
           \/ \E n \in Node : \/ \E id \in PlacementID : Logged(Claim(k.grain, id, n))
                              \/ owner[k.grain].version < MaxVersion
                                   /\ Logged(TakeOver(k.grain, n)),
           Routed(t, owner'[k.grain]), UNCHANGED routerVars
    PROVE  CachedInv'
  <1>1. k.grain \in Grain /\ k.start \in Nat /\ k.epoch \in Nat
    BY DEF Requests
  <1>2. Quiet
    <2>1. CASE UNCHANGED <<ownershipVars, stream>>
      BY <2>1 DEF Quiet, Published, ownershipVars, routerVars
    <2>2. ASSUME NEW n \in Node, NEW id \in PlacementID, Logged(Claim(k.grain, id, n))
          PROVE  Quiet
      BY <1>1, <2>2 DEF Quiet, Published, ContractStep, NewOwner, Logged, routerVars
    <2>3. ASSUME NEW n \in Node, Logged(TakeOver(k.grain, n)),
                 owner[k.grain].version < MaxVersion
          PROVE  Quiet
      BY <1>1, <2>3 DEF Quiet, Published, ContractStep, NewOwner, Logged, routerVars
    <2> QED BY <2>1, <2>2, <2>3
  <1>3. OwnershipTypeOK /\ OwnershipTypeOK'
    BY <1>2, PublishedTyped DEF Quiet, CachedInv, RouterTypeOK
  <1>4. PICK p : p = owner'[k.grain]
    OBVIOUS
  <1>5. /\ p \in PlacementRecord /\ serving[p.node].session = p.session
        /\ UNCHANGED <<now, serving>>
    BY <1>1, <1>3, <1>4, OwnerServes DEF Logged
  <1>6. PICK start \in k.start .. now :
          \E route : /\ route = [p |-> p, until |-> start + (serving[p.node].deadline - now)]
                     /\ request' = [request EXCEPT ![t].pc = "store", ![t].route = route]
    BY <1>4 DEF Routed
  <1>7. PICK route :
           /\ route = [p |-> p, until |-> start + (serving[p.node].deadline - now)]
           /\ request' = [request EXCEPT ![t].pc = "store", ![t].route = route]
    BY <1>6
  <1>8. now \in Nat /\ k.start <= now /\ k.epoch <= epoch /\ epoch \in Nat
    BY <1>3 DEF CachedInv, RouterTypeOK, CacheTypeOK, OwnershipTypeOK, CoverInv, RequestOK
  <1>9. start \in Int /\ start <= now /\ serving[p.node].deadline \in Nat
    BY <1>1, <1>3, <1>5, <1>8, EmptyFields DEF OwnershipTypeOK, Sessions, PlacementRecord, Vacant
  <1>10. route.p = p /\ route.until \in Int /\ route.until <= serving[p.node].deadline
        /\ route \in Routes
    BY <1>5, <1>7, <1>8, <1>9 DEF Routes
  <1>11. Standing(k.grain, route)'
    BY <1>4, <1>5, <1>10 DEF Standing
  <1>12. PICK j : j = [k EXCEPT !.pc = "store", !.route = route]
    OBVIOUS
  <1>13. /\ j \in Requests /\ j.epoch = k.epoch /\ j.start = k.start /\ j.grain = k.grain
         /\ j.route = route
    BY <1>10, <1>12 DEF Requests
  <1>14. request' = [request EXCEPT ![t] = j]
    BY <1>7, <1>12 DEF CachedInv, RouterTypeOK
  <1>15. RequestOK(j)'
    BY <1>2, <1>5, <1>8, <1>10, <1>11, <1>13 DEF RequestOK, Covered, Quiet
  <1>16. CacheInv' /\ entries' = entries
    BY CacheKept DEF routerVars
  <1> QED BY <1>2, <1>13, <1>14, <1>15, <1>16, RequestMoves

LEMMA AllocateKeepsInv ==
    ASSUME CachedInv, NEW t \in Thread, NEW k \in Requests, k = request[t], AskAllocate(t)
    PROVE  CachedInv'
  <1>1. k.grain \in Grain
    BY DEF Requests
  <1>2. Quiet
    <2>1. CASE UNCHANGED <<ownershipVars, stream>>
      BY <2>1 DEF Quiet, Published, ownershipVars, routerVars, AskAllocate
    <2>2. ASSUME NEW n \in Node, NEW id \in PlacementID, Logged(Claim(k.grain, id, n))
          PROVE  Quiet
      BY <1>1, <2>2
      DEF Quiet, Published, ContractStep, NewOwner, Logged, routerVars, AskAllocate
    <2> QED BY <2>1, <2>2 DEF AskAllocate
  <1>3. PICK p \in Placements : p = owner'[k.grain]
    BY <1>1, <1>2, PublishedTyped DEF Quiet, CachedInv, OwnershipTypeOK
  <1>4. PICK j : j = [k EXCEPT !.pc = "confirm", !.p = p]
    OBVIOUS
  <1>5. /\ j \in Requests /\ j.epoch = k.epoch /\ j.start = k.start /\ j.pc # "store"
    BY <1>4 DEF Requests
  <1>6. request' = [request EXCEPT ![t] = j]
    BY <1>3, <1>4 DEF AskAllocate, CachedInv, RouterTypeOK
  <1>7. RequestOK(j)
    BY <1>5 DEF CachedInv, CoverInv, RequestOK
  <1>8. RequestOK(j)'
    BY <1>2, <1>7, RequestKept
  <1>9. CacheInv' /\ entries' = entries
    BY CacheKept DEF routerVars, AskAllocate
  <1> QED BY <1>2, <1>5, <1>6, <1>8, <1>9, RequestMoves

LEMMA IdleOK == RequestOK(NoRequest) /\ RequestOK(NoRequest)'
  BY EmptyFields DEF RequestOK

LEMMA StoreKeepsInv ==
    ASSUME CachedInv, NEW t \in Thread, NEW k \in Requests, k = request[t], StoreRoute(t)
    PROVE  CachedInv'
  <1>1. Quiet /\ request' = [request EXCEPT ![t] = NoRequest] /\ RequestOK(NoRequest)'
    BY IdleOK DEF Quiet, Published, StoreRoute, ownershipVars
  <1>2. CASE UNCHANGED <<entries, byNode>>
    <2>1. CacheInv'
      BY <1>2, CacheKept DEF StoreRoute
    <2> QED BY <1>1, <1>2, <2>1, RequestMoves
  <1>3. CASE EpochAllows(k) /\ SetCachedPlacement(k.grain, k.route) /\ ~degraded
    <2>1. k.pc = "store" /\ k.grain \in Grain /\ CacheInv /\ RequestOK(k)
      BY DEF StoreRoute, Requests, CachedInv, RouterTypeOK, CacheInv, CoverInv
    <2>2. k.route \in Routes /\ Covered(k.grain, k.route)
      BY <1>3, <2>1 DEF RequestOK
    <2>3. CacheInv'
      BY <1>3, <2>1, <2>2, SetKeepsIndex DEF StoreRoute
    <2>4. entries' = [entries EXCEPT ![k.grain] = k.route]
      BY <1>3 DEF SetCachedPlacement
    <2>5. \A g \in Grain : entries'[g] = entries[g] \/ Covered(g, entries'[g])
      BY <2>1, <2>2, <2>4 DEF CacheInv, CacheTypeOK
    <2> QED BY <1>1, <2>3, <2>5, RequestMoves
  <1> QED BY <1>2, <1>3 DEF StoreRoute, SetCachedPlacement

LEMMA RequestStepKeepsInv ==
    ASSUME CachedInv, NEW t \in Thread, RequestStep(t)
    PROVE  CachedInv'
  <1>1. request[t] \in {NoRequest} \cup Requests /\ NoRequest.pc = "idle"
    BY EmptyFields DEF CachedInv, RouterTypeOK
  <1>2. ASSUME NEW g \in Grain, BeginLookup(t, g)
        PROVE  CachedInv'
    BY <1>2, BeginsKeepInv DEF BeginLookup
  <1>3. ASSUME NEW g \in Grain, NEW group \in Group,
               BeginResolve(t, g, group) \/ BeginAllocate(t, g, group)
        PROVE  CachedInv'
    BY <1>3, BeginsKeepInv DEF BeginResolve, BeginAllocate, routerVars
  <1>4. CASE AskLookup(t)
    <2>1. PICK k \in Requests : k = request[t]
      BY <1>1, <1>4 DEF AskLookup
    <2>2. owner' = owner
      BY <1>4 DEF AskLookup, ownershipVars
    <2> QED BY <1>4, <2>1, <2>2, RoutedKeepsInv DEF AskLookup
  <1>5. CASE AskResolve(t)
    <2>1. PICK k \in Requests : k = request[t]
      BY <1>1, <1>5 DEF AskResolve
    <2> QED BY <1>5, <2>1, RoutedKeepsInv DEF AskResolve
  <1>6. CASE AskAllocate(t)
    <2>1. PICK k \in Requests : k = request[t]
      BY <1>1, <1>6 DEF AskAllocate
    <2> QED BY <1>6, <2>1, AllocateKeepsInv
  <1>7. CASE StoreRoute(t)
    <2>1. PICK k \in Requests : k = request[t]
      BY <1>1, <1>7 DEF StoreRoute
    <2> QED BY <1>7, <2>1, StoreKeepsInv
  <1>8. CASE GiveUp(t)
    <2>1. Quiet /\ CacheInv' /\ entries' = entries
      BY <1>8, CacheKept DEF GiveUp, Quiet, Published, ownershipVars, routerVars
    <2> QED BY <1>8, <2>1, IdleOK, RequestMoves DEF GiveUp
  <1> QED BY <1>2, <1>3, <1>4, <1>5, <1>6, <1>7, <1>8 DEF RequestStep

-----------------------------------------------------------------------------
(* Events that are handled, and degradation.                               *)

\* The router's own steps: the directory and the requests are left alone.
LEMMA RouterKeepsInv ==
    ASSUME CachedInv, UNCHANGED <<ownershipVars, request>>, CacheInv',
           stream' \in Seq(StreamEvents),
           \A g \in Grain, r \in Routes :
             entries'[g] = r => entries[g] = r /\ (Covered(g, r) => Covered(g, r)'),
           \A k \in Requests : RequestOK(k) => RequestOK(k)'
    PROVE  CachedInv'
  <1>1. RouterTypeOK'
    BY DEF CachedInv, RouterTypeOK, OwnershipTypeOK, ownershipVars, CacheInv
  <1>2. ASSUME NEW g \in Grain, entries'[g] # NoRoute
        PROVE  Covered(g, entries[g])'
    <2>1. PICK r \in Routes : r = entries'[g]
      BY <1>1, <1>2 DEF RouterTypeOK, CacheTypeOK
    <2>2. Covered(g, r)'
      BY <2>1, EmptyFields DEF CachedInv, CoverInv
    <2> QED BY <2>1, <2>2
  <1>3. ASSUME NEW t \in Thread
        PROVE  RequestOK(request[t])'
    <2>1. PICK k \in {NoRequest} \cup Requests : k = request[t] /\ k = request'[t]
      BY DEF CachedInv, RouterTypeOK
    <2>2. RequestOK(k)'
      BY <2>1, IdleOK DEF CachedInv, CoverInv
    <2> QED BY <2>1, <2>2
  <1> QED BY <1>1, <1>2, <1>3 DEF CachedInv, CoverInv, CacheInv

\* After an event, only an allocation announced by that very event may store.
LEMMA EpochGuards ==
    ASSUME CachedInv, UNCHANGED now, NEW event, Advance(event), NEW k \in Requests, RequestOK(k),
           event.type = "PlacementCreated" =>
             /\ degraded' = degraded
             /\ (k.route \in Routes /\ Covered(k.grain, k.route)) => Covered(k.grain, k.route)'
    PROVE  RequestOK(k)'
  <1>1. k.epoch \in Nat /\ epoch \in Nat
    BY DEF Requests, CachedInv, RouterTypeOK, CacheTypeOK
  <1>2. PICK e \in Nat : e = epoch
    BY <1>1
  <1>3. epoch' = e + 1 /\ lastEvent' = event /\ k.epoch <= e
    BY <1>2 DEF Advance, RequestOK
  <1>4. k.epoch <= e + 1 /\ k.epoch # e + 1 /\ (e + 1 = k.epoch + 1 => k.epoch = e)
    BY <1>1, <1>3
  <1>5. EpochAllows(k)' => event.type = "PlacementCreated" /\ EpochAllows(k)
    BY <1>2, <1>3, <1>4 DEF EpochAllows, matchesSynchronousCreated
  <1> QED BY <1>3, <1>4, <1>5 DEF RequestOK

\* Handling an event drops what it evicts and nothing that stays covered.
LEMMA HandlerDrops ==
    ASSUME CachedInv, NEW e, HandleEvent(e),
           e \in StreamEvents \/ e.type = "ManualCacheClear"
    PROVE  /\ CacheInv'
           /\ \A g \in Grain, r \in Routes :
                entries'[g] = r => entries[g] = r /\ ~Evicts(e, g, r.p.node)
           /\ UNCHANGED degraded
           /\ Advance(e) \/ (UNCHANGED <<epoch, lastEvent>> /\ e.type = "NodeRegistered")
  <1>1. CacheInv /\ degraded' = degraded /\ degraded \in BOOLEAN /\ epoch \in Nat
    BY DEF CachedInv, RouterTypeOK, CacheInv, CacheTypeOK, HandleEvent
  <1>2. /\ e.type \in PlacementEventTypes => e.grain \in Grain
        /\ e.type \in NodeEventTypes => e.node \in Node
    <2>1. PlacementEventTypes \cap NodeEventTypes = {}
          /\ "ManualCacheClear" \notin PlacementEventTypes \cup NodeEventTypes
      BY DEF PlacementEventTypes, NodeEventTypes
    <2> QED BY <2>1 DEF StreamEvents
  <1>3. ASSUME NEW gone \in SUBSET Grain, Advance(e),
               entries' = [g \in Grain |-> IF g \in gone THEN NoRoute ELSE entries[g]],
               byNode' = [n \in Node |-> byNode[n] \ gone],
               \A g \in Grain : Evicts(e, g, entries[g].p.node) => g \in gone
        PROVE  /\ CacheInv'
               /\ \A g \in Grain, r \in Routes :
                    entries'[g] = r => entries[g] = r /\ ~Evicts(e, g, r.p.node)
    <2>1. epoch' \in Nat
      BY <1>1, <1>3 DEF Advance
    <2>2. CacheInv'
      BY <1>1, <1>3, <2>1, DropKeepsIndex
    <2> QED BY <1>3, <2>2, EmptyFields
  <1>4. CASE e.type \in PlacementEventTypes /\ Advance(e) /\ DeleteCachedPlacement(e.grain)
    <2>1. \A g \in Grain : Evicts(e, g, entries[g].p.node) => g \in {e.grain}
      BY <1>4 DEF Evicts, PlacementEventTypes, NodeEvictingTypes
    <2>2. {e.grain} \in SUBSET Grain
      BY <1>2, <1>4
    <2>3. /\ entries' = [h \in Grain |-> IF h \in {e.grain} THEN NoRoute ELSE entries[h]]
          /\ byNode' = [n \in Node |-> byNode[n] \ {e.grain}]
      BY <1>1, <1>2, <1>4, DeleteDrops
    <2> QED BY <1>1, <1>3, <1>4, <2>1, <2>2, <2>3
  <1>5. ASSUME NEW nodes \in SUBSET Node, Advance(e), DeleteCachedPlacementsOf(nodes),
               e.type \in NodeEvictingTypes => e.node \in nodes,
               e.type \notin PlacementEventTypes
        PROVE  /\ CacheInv'
               /\ \A g \in Grain, r \in Routes :
                    entries'[g] = r => entries[g] = r /\ ~Evicts(e, g, r.p.node)
    <2> DEFINE gone == {g \in Grain : entries[g].p.node \in nodes}
    <2>1. \A g \in Grain : Evicts(e, g, entries[g].p.node) => g \in gone
      BY <1>5 DEF Evicts
    <2>2. /\ entries' = [h \in Grain |-> IF h \in gone THEN NoRoute ELSE entries[h]]
          /\ byNode' = [n \in Node |-> byNode[n] \ gone]
      BY <1>1, <1>5, DeleteDrops
    <2>3. gone \in SUBSET Grain
      OBVIOUS
    <2> HIDE DEF gone
    <2> QED BY <1>3, <1>5, <2>1, <2>2, <2>3
  <1>6. CASE e.type \in NodeEvictingTypes /\ Advance(e) /\ DeleteCachedPlacementsOf({e.node})
    <2>1. e.node \in Node /\ e.type \notin PlacementEventTypes
      BY <1>2, <1>6 DEF NodeEvictingTypes, NodeEventTypes, PlacementEventTypes
    <2> QED BY <1>1, <1>5, <1>6, <2>1
  <1>7. CASE /\ e.type = "NodeRestored" /\ Advance(e)
             /\ DeleteCachedPlacementsOf({n \in Node : GroupOf[n] = GroupOf[e.node]})
    <2>1. e.type \notin PlacementEventTypes /\ e.type \notin NodeEvictingTypes
      BY <1>7 DEF NodeEvictingTypes, PlacementEventTypes
    <2> QED BY <1>1, <1>5, <1>7, <2>1
  <1>8. CASE e.type = "NodeRegistered" /\ UNCHANGED <<entries, byNode, epoch, lastEvent>>
    <2>1. e.type \notin PlacementEventTypes /\ e.type \notin NodeEvictingTypes
      BY <1>8 DEF NodeEvictingTypes, PlacementEventTypes
    <2>2. CacheInv'
      BY <1>1, <1>8, CacheKept
    <2> QED BY <1>1, <1>8, <2>1, <2>2 DEF Evicts
  <1>9. CASE e.type = "ManualCacheClear" /\ Advance(e) /\ ClearPlacementCache
    <2>1. \A g \in Grain : Evicts(e, g, entries[g].p.node) => g \in Grain
      OBVIOUS
    <2> QED BY <1>1, <1>3, <1>9, <2>1, DeleteDrops
  <1> QED BY <1>1, <1>4, <1>6, <1>7, <1>8, <1>9 DEF HandleEvent

LEMMA DeliverKeepsInv ==
    ASSUME CachedInv, Deliver
    PROVE  CachedInv'
  <1>1. PICK e : e = Head(stream)
    OBVIOUS
  <1>2. /\ stream \in Seq(StreamEvents) /\ stream # <<>> /\ HandleEvent(e)
        /\ stream' \in {stream, Tail(stream)} /\ UNCHANGED <<ownershipVars, request>>
    BY <1>1 DEF CachedInv, RouterTypeOK, Deliver
  <1>3. e \in StreamEvents /\ stream' \in Seq(StreamEvents)
    BY <1>1, <1>2, HeadTailProperties
  <1>4. ASSUME NEW g \in Grain, NEW r \in Routes, Covered(g, r)
        PROVE  Covered(g, r)' \/ (Evicts(e, g, r.p.node) /\ e.type # "PlacementCreated")
    BY <1>1, <1>2, <1>4, CoveredUntilHandled DEF CachedInv, ownershipVars
  <1>5. ASSUME NEW k \in Requests, RequestOK(k)
        PROVE  RequestOK(k)'
    <2>1. k.grain \in Grain /\ UNCHANGED <<now, degraded>>
      BY <1>2, <1>3, HandlerDrops DEF Requests, ownershipVars
    <2>2. CASE Advance(e)
      BY <1>4, <1>5, <2>1, <2>2, EpochGuards
    <2>3. CASE UNCHANGED <<epoch, lastEvent>> /\ e.type = "NodeRegistered"
      <3>1. k.route \in Routes /\ Covered(k.grain, k.route) => Covered(k.grain, k.route)'
        BY <1>4, <2>1, <2>3 DEF Evicts, PlacementEventTypes, NodeEvictingTypes
      <3> QED BY <1>5, <2>1, <2>3, <3>1 DEF RequestOK, EpochAllows, matchesSynchronousCreated
    <2> QED BY <1>2, <1>3, <2>2, <2>3, HandlerDrops
  <1>6. /\ CacheInv'
        /\ \A g \in Grain, r \in Routes :
             entries'[g] = r => entries[g] = r /\ (Covered(g, r) => Covered(g, r)')
    BY <1>2, <1>3, <1>4, HandlerDrops
  <1> QED BY <1>2, <1>3, <1>5, <1>6, RouterKeepsInv

\* The cache is emptied, by whatever announces it; the events stay where they are.
LEMMA ClearKeepsInv ==
    ASSUME CachedInv, NEW event, Advance(event), event.type # "PlacementCreated",
           ClearPlacementCache, degraded' \in BOOLEAN,
           UNCHANGED <<ownershipVars, request, stream>>
    PROVE  CachedInv'
  <1>1. CacheInv /\ epoch' \in Nat /\ stream' \in Seq(StreamEvents) /\ UNCHANGED now
    BY DEF CachedInv, RouterTypeOK, CacheInv, CacheTypeOK, Advance, ownershipVars
  <1>2. /\ entries' = [h \in Grain |-> IF h \in Grain THEN NoRoute ELSE entries[h]]
        /\ byNode' = [n \in Node |-> byNode[n] \ Grain]
    BY <1>1, DeleteDrops
  <1>3. CacheInv'
    BY <1>1, <1>2, DropKeepsIndex
  <1>4. \A g \in Grain, r \in Routes : entries'[g] # r
    BY <1>2, EmptyFields
  <1>5. \A k \in Requests : RequestOK(k) => RequestOK(k)'
    BY <1>1, EpochGuards
  <1> QED BY <1>1, <1>3, <1>4, <1>5, RouterKeepsInv

LEMMA LossKeepsInv ==
    ASSUME CachedInv, LoseEvents
    PROVE  CachedInv'
  <1>1. /\ degraded /\ degraded' /\ entries' = EmptyEntries /\ UNCHANGED <<ownershipVars, request>>
        /\ CacheInv' /\ stream' \in Seq(StreamEvents) /\ UNCHANGED <<now, epoch>>
    BY CacheKept
    DEF LoseEvents, CachedInv, CacheIndexCoherent, routerVars, ownershipVars
  <1>2. \A g \in Grain, r \in Routes : entries'[g] # r
    BY <1>1, EmptyFields DEF EmptyEntries
  <1>3. \A k \in Requests : RequestOK(k) => RequestOK(k)'
    BY <1>1 DEF RequestOK
  <1> QED BY <1>1, <1>2, <1>3, RouterKeepsInv

LEMMA CachedInvInit == CachedInit => CachedInv
  <1> SUFFICES ASSUME CachedInit
               PROVE  CachedInv
    OBVIOUS
  <1>1. OwnershipTypeOK
    BY DEF CachedInit, OwnershipInit, OwnershipTypeOK, Placements
  <1>2. entries = EmptyEntries /\ ~degraded
    BY DEF CachedInit
  <1>3. CacheTypeOK
    BY DEF CachedInit, CacheTypeOK, EmptyEntries, EmptyByNode
  <1>4. RouterTypeOK
    BY <1>1, <1>3 DEF CachedInit, RouterTypeOK
  <1>5. CacheIndexCoherent
    BY EmptyFields DEF CachedInit, CacheIndexCoherent, EmptyEntries, EmptyByNode
  <1>6. CoverInv
    BY IdleOK DEF CachedInit, CoverInv, EmptyEntries
  <1> QED BY <1>4, <1>5, <1>6 DEF CachedInv

LEMMA CachedInvNext == CachedInv /\ [CachedNext]_cachedVars => CachedInv'
  <1> SUFFICES ASSUME CachedInv, [CachedNext]_cachedVars
               PROVE  CachedInv'
    OBVIOUS
  <1>1. CASE UNCHANGED cachedVars
    BY <1>1
    DEF cachedVars, ownershipVars, routerVars, CachedInv, RouterTypeOK, OwnershipTypeOK,
        CacheTypeOK, CacheIndexCoherent, CoverInv, RequestOK, EpochAllows,
        matchesSynchronousCreated, Covered, Standing, Announced
  <1>2. CASE ManualCacheClear
    <2>1. PICK e : e = [type |-> "ManualCacheClear"]
      OBVIOUS
    <2>2. /\ Advance(e) /\ e.type # "PlacementCreated" /\ ClearPlacementCache
          /\ degraded' = degraded /\ UNCHANGED <<ownershipVars, request, stream>>
      BY <1>2, <2>1
      DEF ManualCacheClear, HandleEvent, PlacementEventTypes, NodeEvictingTypes
    <2> QED BY <2>2, ClearKeepsInv DEF CachedInv, RouterTypeOK, CacheTypeOK
  <1>3. CASE Degrade \/ RecoverRouter
    BY <1>3, EmptyFields, ClearKeepsInv DEF Degrade, RecoverRouter, ClearPlacementCache
  <1> QED
    BY <1>1, <1>2, <1>3, DirectoryKeepsInv, RequestStepKeepsInv, DeliverKeepsInv, LossKeepsInv
    DEF CachedNext

LEMMA CachedInvariance == CachedSpec => []CachedInv
  BY CachedInvInit, CachedInvNext, PTL DEF CachedSpec

-----------------------------------------------------------------------------
\* The reverse index lists exactly the cached routes of every node, and a
\* degraded cache is empty (cache.go).
THEOREM CacheIndexIsCoherent == CachedSpec => []CacheIndexCoherent
  <1>1. CachedInv => CacheIndexCoherent
    BY DEF CachedInv
  <1> QED BY <1>1, CachedInvariance, PTL

\* Whatever goroutines, events, redeliveries and degradations come between: a
\* route the cache would serve is the directory's, its owner healthy, or an event
\* that evicts it is on its way (the epoch of cached_router.go).
THEOREM CacheIsCoherent == CachedSpec => []CacheCoherent
  <1>1. CachedInv => CacheCoherent
    <2> SUFFICES ASSUME CachedInv, NEW g \in Grain, Usable(GetCachedPlacement(g)),
                        ~ \E i \in DOMAIN stream : Evicts(stream[i], g, entries[g].p.node)
                 PROVE  owner[g] = entries[g].p /\ Trusted(owner[g])
      BY DEF CacheCoherent
    <2>1. entries[g] # NoRoute /\ now < entries[g].until
      BY DEF Usable, GetCachedPlacement
    <2>2. entries[g] \in Routes /\ now \in Nat /\ stream \in Seq(StreamEvents)
      BY <2>1 DEF CachedInv, RouterTypeOK, CacheTypeOK, OwnershipTypeOK
    <2>3. Standing(g, entries[g])
      BY <2>1, <2>2 DEF CachedInv, CoverInv, Covered, Announced
    <2>4. entries[g].p.node \in Node /\ entries[g].p.session \in Session
          /\ entries[g].p # NoPlacement /\ entries[g].until \in Int
      BY <2>2, EmptyFields DEF Routes
    <2>5. serving[entries[g].p.node] # Vacant
          /\ serving[entries[g].p.node].deadline \in Nat
      BY <2>3, <2>4, EmptyFields
      DEF Standing, CachedInv, RouterTypeOK, OwnershipTypeOK, Sessions
    <2>6. serving[entries[g].p.node].deadline > now
      BY <2>1, <2>2, <2>3, <2>4, <2>5 DEF Standing
    <2> QED BY <2>3, <2>4, <2>5, <2>6 DEF Standing, Trusted, Alive
  <1> QED BY <1>1, CachedInvariance, PTL
=============================================================================
