------------------------- MODULE PlacementDirectory -------------------------
(***************************************************************************)
(* The Redis directory at the grain of its Lua scripts                     *)
(* (src/redis/lua/placement on top of src/redis/lua/node).  A script runs  *)
(* atomically, so a step is one script that changed something; a script    *)
(* that returns an answer or an error without writing is a stuttering      *)
(* step.  The caller passes what it read before the script runs: raw is    *)
(* the placement of its GET, compared with the stored one byte for byte.   *)
(* RedisDirectory lets time pass between the GET and the script.           *)
(***************************************************************************)
EXTENDS NodeRegistry

CONSTANTS GroupOf,      \* GroupOf[n]: the type/group part of an identity
          MaxSequence,  \* largest value of the sequence counter (2^53 - 1 in the code)
          MaxVersion    \* bound: owner sessions one lifetime is refreshed through

Group == {GroupOf[n] : n \in Node}

ASSUME PlacementAssumption ==
    /\ MaxSequence \in Nat \ {0}
    /\ MaxVersion \in Nat
    /\ DOMAIN GroupOf = Node

VARIABLES placement,  \* the placement stored for each grain
          index,      \* index[n][g]: score of g in the ZSET of n, 0 when absent
          seq,        \* the sequence counter that numbers index entries
          spent       \* identifiers already given to a lifetime

placementVars == <<placement, index, seq, spent>>
directoryVars == <<registryVars, placementVars>>

-----------------------------------------------------------------------------
(* Guards the scripts share.                                               *)

Placed(g) == placement[g] # NoPlacement

\* Mutant of CounterReadable: off by one.
CounterReadableAtLimit == seq <= MaxSequence

\* read_counter answers only below the limit, so that INCR cannot pass it.
CounterReadable == seq < MaxSequence

\* Mutant of Schedulable: the invalid mark is not looked at.
SchedulableThoughInvalid(n) == /\ node[n].status = "active"
                               /\ lease[n] = node[n].expire
                               /\ lease[n] > now

\* May be given a grain: active, not marked invalid, lease not expired.
Schedulable(n) == /\ node[n].status = "active"
                  /\ n \notin invalid
                  /\ lease[n] = node[n].expire
                  /\ lease[n] > now

\* The nodes a scheduling strategy chooses from.
Candidates(group) == {n \in members : GroupOf[n] = group /\ Schedulable(n)}

\* The owner of p can serve some session of its node, not necessarily p's own.
OwnerUsable(p) == Healthy(p.node, node[p.node].session)

\* What a router gets back from Lookup: a route only while the owner is healthy.
Routable(p) == p # NoPlacement /\ Healthy(p.node, p.session)

-----------------------------------------------------------------------------
DirectoryInit ==
    /\ RegistryInit
    /\ placement = [g \in Grain |-> NoPlacement]
    /\ index = [n \in Node |-> [g \in Grain |-> 0]]
    /\ seq = 0
    /\ spent = {}

\* Mutant of Store: the grain stays in the index of its old owner.
StoreBesideOldEntry(g, old, p) ==
    /\ CounterReadable
    /\ seq' = seq + 1
    /\ placement' = [placement EXCEPT ![g] = p]
    /\ index' = [index EXCEPT ![p.node][g] = seq + 1]

\* Store p for g, file it under its new owner and take it off the old one.
Store(g, old, p) ==
    /\ CounterReadable
    /\ seq' = seq + 1
    /\ placement' = [placement EXCEPT ![g] = p]
    /\ index' = [n \in Node |->
                   [index[n] EXCEPT ![g] = IF n = p.node THEN seq + 1
                                           ELSE IF n = old.node THEN 0 ELSE @]]

\* NewPlacementID draws 128 random bits: never an identifier seen before.  NoID
\* stands for the draw when the bounded supply is used up.
FreshIDs == IF spent = PlacementID THEN {NoID} ELSE PlacementID \ spent

\* A first placement; the strategy's choice is left open.
Create(g, group, id) ==
    /\ id # NoID
    /\ \E n \in Candidates(group) :
         LET p == [id |-> id, node |-> n, session |-> node[n].session, version |-> 1]
         IN /\ Store(g, NoPlacement, p)
            /\ spent' = spent \cup {id}
            /\ emitted' = PlacementEvent("PlacementCreated", g, p)
            /\ UNCHANGED <<now, node, members, lease, invalid>>

\* An existing placement is answered or refused, never changed.
Allocate(g, group, id) ==
    /\ ~Placed(g)
    /\ Create(g, group, id)

\* Mutants of RefreshSession: the version stays; the snapshot is not compared.
RefreshSameVersion(g, group, raw) ==
    /\ placement[g] = raw /\ raw # NoPlacement
    /\ GroupOf[raw.node] = group
    /\ OwnerUsable(raw)
    /\ node[raw.node].session # raw.session
    /\ LET p == [raw EXCEPT !.session = node[raw.node].session]
       IN /\ placement' = [placement EXCEPT ![g] = p]
          /\ emitted' = PlacementEvent("PlacementRecovered", g, p)
    /\ UNCHANGED <<now, node, members, lease, invalid, index, seq, spent>>

RefreshStaleSession(g, group, raw) ==
    /\ Placed(g) /\ raw # NoPlacement
    /\ GroupOf[raw.node] = group
    /\ OwnerUsable(raw)
    /\ node[raw.node].session # raw.session
    /\ raw.version < MaxVersion
    /\ LET p == [raw EXCEPT !.session = node[raw.node].session, !.version = @ + 1]
       IN /\ placement' = [placement EXCEPT ![g] = p]
          /\ emitted' = PlacementEvent("PlacementRecovered", g, p)
    /\ UNCHANGED <<now, node, members, lease, invalid, index, seq, spent>>

\* The stored node is alive under a new session: the route is refreshed in place.
RefreshSession(g, group, raw) ==
    /\ placement[g] = raw /\ raw # NoPlacement
    /\ GroupOf[raw.node] = group
    /\ OwnerUsable(raw)
    /\ node[raw.node].session # raw.session
    /\ raw.version < MaxVersion
    /\ LET p == Succession(raw, raw.node, node[raw.node].session)
       IN /\ placement' = [placement EXCEPT ![g] = p]
          /\ emitted' = PlacementEvent("PlacementRecovered", g, p)
    /\ UNCHANGED <<now, node, members, lease, invalid, index, seq, spent>>

\* Mutant of MoveFromInvalid: the snapshot is not compared.
MoveStalePlacement(g, group, raw) ==
    /\ Placed(g) /\ raw # NoPlacement
    /\ GroupOf[raw.node] = group
    /\ ~OwnerUsable(raw)
    /\ raw.node \in invalid
    /\ \E n \in Candidates(group) :
         LET p == [raw EXCEPT !.node = n, !.session = node[n].session, !.version = @ + 1]
         IN /\ Store(g, raw, p)
            /\ emitted' = PlacementEvent("PlacementRecovered", g, p)
    /\ UNCHANGED <<now, node, members, lease, invalid, spent>>

\* An owner that cannot serve is abandoned only when an operator has marked it
\* invalid; the lifetime keeps its identifier and gets its next version.
MoveFromInvalid(g, group, raw) ==
    /\ placement[g] = raw /\ raw # NoPlacement
    /\ GroupOf[raw.node] = group
    /\ ~OwnerUsable(raw)
    /\ raw.node \in invalid
    /\ \E n \in Candidates(group) :
         LET p == Succession(raw, n, node[n].session)
         IN /\ Store(g, raw, p)
            /\ emitted' = PlacementEvent("PlacementRecovered", g, p)
    /\ UNCHANGED <<now, node, members, lease, invalid, spent>>

ResolveRoute(g, group, id, raw) ==
    \/ placement[g] = raw /\ raw = NoPlacement /\ Create(g, group, id)
    \/ RefreshSession(g, group, raw)
    \/ MoveFromInvalid(g, group, raw)

\* Mutant of Addressed: the snapshot is not compared with the stored record.
AddressedBySnapshot(g, raw, cmd) ==
    /\ raw # NoPlacement
    /\ Placed(g)
    /\ raw.id = cmd.id /\ raw.version = cmd.version
    /\ CounterReadable

\* What mutate.lua checks for every mode: the record the client read is still
\* the stored one and is the one the command names.
Addressed(g, raw, cmd) ==
    /\ raw # NoPlacement
    /\ placement[g] = raw
    /\ raw.id = cmd.id /\ raw.version = cmd.version
    /\ CounterReadable

\* The session of the owner gives the grain up; its lease need not be valid.
Release(g, raw, cmd) ==
    /\ Addressed(g, raw, cmd)
    /\ raw.node = cmd.node
    /\ Exists(raw.node)
    /\ raw.session = cmd.session /\ node[raw.node].session = cmd.session
    /\ placement' = [placement EXCEPT ![g] = NoPlacement]
    /\ index' = [index EXCEPT ![raw.node][g] = 0]
    /\ emitted' = PlacementEvent("PlacementReleased", g, [raw EXCEPT !.version = @ + 1])
    /\ UNCHANGED <<now, node, members, lease, invalid, seq, spent>>

\* Mutant of Reassign: the version is not advanced.
ReassignSameVersion(g, raw, target, event) ==
    /\ Schedulable(target)
    /\ LET p == [raw EXCEPT !.node = target, !.session = node[target].session]
       IN /\ Store(g, raw, p)
          /\ emitted' = PlacementEvent(event, g, p)
    /\ UNCHANGED <<now, node, members, lease, invalid, spent>>

\* Transfer and Recover name the new owner; its group is not compared.
Reassign(g, raw, target, event) ==
    /\ Schedulable(target)
    /\ LET p == Succession(raw, target, node[target].session)
       IN /\ Store(g, raw, p)
          /\ emitted' = PlacementEvent(event, g, p)
    /\ UNCHANGED <<now, node, members, lease, invalid, spent>>

\* from = NoNode is a command without FromNodeIdentity.
Transfer(g, raw, cmd, from, target) ==
    /\ Addressed(g, raw, cmd)
    /\ from \in {NoNode, raw.node}
    /\ Reassign(g, raw, target, "PlacementTransferred")

\* Mutant of Recover: a healthy owner may lose its grain.
RecoverFromAnyOwner(g, raw, cmd, target) ==
    /\ Addressed(g, raw, cmd)
    /\ Reassign(g, raw, target, "PlacementRecovered")

Recover(g, raw, cmd, target) ==
    /\ Addressed(g, raw, cmd)
    /\ ~Healthy(raw.node, raw.session)
    /\ Reassign(g, raw, target, "PlacementRecovered")

\* The owner's heartbeat for a grain: an entry of the audit stream, nothing else.
RenewPlacement(g, raw, cmd) ==
    /\ raw # NoPlacement /\ placement[g] = raw
    /\ raw.id = cmd.id /\ raw.version = cmd.version
    /\ raw.node = cmd.node /\ raw.session = cmd.session
    /\ Healthy(raw.node, cmd.session)
    /\ emitted' = PlacementEvent("PlacementRenewed", g, raw)
    /\ UNCHANGED <<now, node, members, lease, invalid, placementVars>>

\* Mutant of CompleteDrain: ZCARD is not asked.
CompleteDrainUnchecked(n, s) == Remove(n, s) /\ UNCHANGED placementVars

\* UnregisterNode that refuses while the node still has index entries.
CompleteDrain(n, s) ==
    /\ \A g \in Grain : index[n][g] = 0
    /\ Remove(n, s)
    /\ UNCHANGED placementVars

RegistryStep == RegistryNext /\ UNCHANGED placementVars

PlacementStep ==
    \E g \in Grain :
      \/ \E group \in Group, id \in FreshIDs :
           \/ Allocate(g, group, id)
           \/ ResolveRoute(g, group, id, placement[g])
      \/ Release(g, placement[g], placement[g])
      \/ RenewPlacement(g, placement[g], placement[g])
      \/ \E target \in Node :
           \/ Transfer(g, placement[g], placement[g], NoNode, target)
           \/ Recover(g, placement[g], placement[g], target)

DirectoryNext ==
    \/ RegistryStep
    \/ \E n \in Node, s \in Session : CompleteDrain(n, s)
    \/ PlacementStep

DirectorySpec == DirectoryInit /\ [][DirectoryNext]_directoryVars

\* A script does not ask whether its identifier has named a lifetime before.  The
\* callers draw a fresh one for each creation, but the creation may run twice.
Recreate ==
    \E g \in Grain, group \in Group, id \in spent : Allocate(g, group, id)

RepeatingDirectoryNext == DirectoryNext \/ Recreate

RepeatingDirectorySpec == DirectoryInit /\ [][RepeatingDirectoryNext]_directoryVars

-----------------------------------------------------------------------------
(* Properties.                                                             *)

\* Every variable keeps its shape, and the counter stays within its limit.
DirectoryTypeOK ==
    /\ RegistryTypeOK
    /\ placement \in [Grain -> PlacementRecord \cup {NoPlacement}]
    /\ index \in [Node -> [Grain -> Nat]]
    /\ seq \in 0 .. MaxSequence
    /\ spent \subseteq PlacementID

\* The per-node index lists exactly the placements stored on the node, under
\* scores that are unique and were handed out by the counter.  Scale-in depends
\* on it twice: CompleteDrain trusts ZCARD, and FindByNode refuses a page whose
\* scores do not increase strictly.
IndexCoherent ==
    /\ \A n \in Node, g \in Grain : index[n][g] # 0 <=> placement[g].node = n
    /\ \A n, m \in Node, g, h \in Grain :
         index[n][g] # 0 /\ index[n][g] = index[m][h] => n = m /\ g = h
    /\ \A n \in Node, g \in Grain : index[n][g] <= seq

\* The session that owns g is still the session of its node and not offline.
Attended(g) ==
    Placed(g) => /\ node[placement[g].node].session = placement[g].session
                 /\ Live(placement[g].node)

\* Rule 8 of docs/ontology.md: no script withdraws a route that a cache may
\* hold - another owner, no owner, or an owner whose session ended - without
\* appending an event that evicts it.  Only the passing of time is silent, and
\* ValidUntil covers that.
RouteLossAnnounced ==
    [][\A g \in Grain :
         (Placed(g) /\ Attended(g) /\ ~(placement'[g] = placement[g] /\ Attended(g)'))
           => Evicts(emitted', g, placement[g].node)]_directoryVars

\* A completed drain leaves no placement behind on the node it removes.
DrainLeavesNothing ==
    [][\A n \in Node, s \in Session :
         CompleteDrain(n, s) => \A g \in Grain : placement[g].node # n]_directoryVars

\* A node marked invalid or draining only loses grains, so that moving its
\* placements away one by one comes to an end.
UnfitNodeOnlyShrinks ==
    [][\A n \in Node :
         (n \in invalid \/ node[n].status = "draining")
           => \A g \in Grain : placement'[g].node = n => placement[g].node = n]_directoryVars

\* The abstract contract: the session serving each node, read off its record.
Serving == [n \in Node |-> IF node[n].status \in {"active", "draining"}
                            THEN [session |-> node[n].session, deadline |-> node[n].expire]
                            ELSE [session |-> NoSession, deadline |-> 0]]

Contract == INSTANCE Ownership WITH serving <- Serving, owner <- placement,
                                    announced <- emitted

\* Rules 1, 3, 4 and 8: the scripts implement Ownership, the promise that
\* routers and owners build on.
OwnershipContract == Contract!OwnershipSpec

\* The same, but for creations that run twice.
RepeatingContract == Contract!RepeatingSpec
=============================================================================
