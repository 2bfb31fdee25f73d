----------------------------- MODULE Ownership ------------------------------
(***************************************************************************)
(* What a directory (src/directory.go, src/node_registry.go) promises to   *)
(* routers and owners, with nothing of how; docs/ontology.md states it as  *)
(* rules 1, 3, 4 and 8.                                                    *)
(*                                                                         *)
(* A node is served by at most one session, which holds a lease; a grain   *)
(* has at most one owner, a session of a node.  An owner with a valid      *)
(* lease loses a grain only by an explicit transfer or by a release; one   *)
(* without may be succeeded.  Every new owner is alive at that moment, an  *)
(* identifier names one lifetime and versions count its owners.  A lease   *)
(* is never shortened, and every change but the passing of time is         *)
(* announced by an event of its own.                                       *)
(*                                                                         *)
(* RepeatingSpec is the same contract of a directory whose creations may   *)
(* run twice: an identifier may name a second lifetime.                    *)
(***************************************************************************)
EXTENDS Events

VARIABLES now,       \* the clock leases are measured with
          serving,   \* the session serving each node and its deadline, or Vacant
          owner,     \* the placement of each grain, or NoPlacement
          spent,     \* identifiers already used
          announced  \* the event of the last step, or NoEvent

ownershipVars == <<now, serving, owner, spent, announced>>

Vacant == [session |-> NoSession, deadline |-> 0]

Alive(n) == serving[n] # Vacant /\ serving[n].deadline > now

\* A router may be sent to p's owner.
Trusted(p) == /\ p # NoPlacement
              /\ Alive(p.node)
              /\ serving[p.node].session = p.session

OwnershipInit == /\ now = 0
                 /\ serving = [n \in Node |-> Vacant]
                 /\ owner = [g \in Grain |-> NoPlacement]
                 /\ spent = {}
                 /\ announced = NoEvent

-----------------------------------------------------------------------------
(* Sessions.                                                               *)

ClockMoves(t) == /\ now' = t
                 /\ announced' = NoEvent
                 /\ UNCHANGED <<serving, owner, spent>>

Extend(n, d) ==
    /\ Alive(n)
    /\ d >= serving[n].deadline
    /\ serving' = [serving EXCEPT ![n].deadline = d]
    /\ announced' = NoEvent
    /\ UNCHANGED <<now, owner, spent>>

\* A session takes a vacant node, or takes it over from another session.
Serve(n, s, d) ==
    /\ d > now
    /\ serving[n].session # s
    /\ serving' = [serving EXCEPT ![n] = [session |-> s, deadline |-> d]]
    /\ \/ announced' = NodeEvent("NodeReplaced", n)
       \/ serving[n] = Vacant /\ announced' = NodeEvent("NodeRegistered", n)
    /\ UNCHANGED <<now, owner, spent>>

\* A session leaves by itself, or is declared gone after its deadline.
Leave(n) ==
    /\ serving[n] # Vacant
    /\ serving' = [serving EXCEPT ![n] = Vacant]
    /\ \/ announced' = NodeEvent("NodeUnregistered", n)
       \/ ~Alive(n) /\ announced' = NodeEvent("NodeLeaseExpired", n)
    /\ UNCHANGED <<now, owner, spent>>

\* News that change neither a session nor an owner.
Notice(n) ==
    /\ \E type \in {"NodeDraining", "NodeMarkedInvalid", "NodeRestored",
                    "NodeUnregistered"} : announced' = NodeEvent(type, n)
    /\ UNCHANGED <<now, serving, owner, spent>>

Audit(g) ==
    /\ Trusted(owner[g])
    /\ announced' = PlacementEvent("PlacementRenewed", g, owner[g])
    /\ UNCHANGED <<now, serving, owner, spent>>

-----------------------------------------------------------------------------
(* Owners.                                                                 *)

Becomes(g, p, event) ==
    /\ owner' = [owner EXCEPT ![g] = p]
    /\ announced' = PlacementEvent(event, g, p)
    /\ UNCHANGED <<now, serving>>

Claim(g, id, n) ==
    /\ owner[g] = NoPlacement
    /\ id \in PlacementID \ spent
    /\ Alive(n)
    /\ Becomes(g, [id |-> id, node |-> n, session |-> serving[n].session, version |-> 1],
               "PlacementCreated")
    /\ spent' = spent \cup {id}

\* A creation that runs a second time, after its first lifetime has ended.
Reclaim(g, id, n) ==
    /\ owner[g] = NoPlacement
    /\ id \in spent
    /\ Alive(n)
    /\ Becomes(g, [id |-> id, node |-> n, session |-> serving[n].session, version |-> 1],
               "PlacementCreated")
    /\ UNCHANGED spent

\* The same lifetime under a new owner, one version later.
Succeed(g, n, event) ==
    /\ owner[g] # NoPlacement
    /\ Alive(n)
    /\ Becomes(g, Succession(owner[g], n, serving[n].session), event)
    /\ UNCHANGED spent

HandOver(g, n) == Succeed(g, n, "PlacementTransferred")

TakeOver(g, n) == ~Trusted(owner[g]) /\ Succeed(g, n, "PlacementRecovered")

GiveBack(g) ==
    /\ owner[g] # NoPlacement
    /\ owner' = [owner EXCEPT ![g] = NoPlacement]
    /\ announced' = PlacementEvent("PlacementReleased", g,
                                   [owner[g] EXCEPT !.version = @ + 1])
    /\ UNCHANGED <<now, serving, spent>>

\* Everything that leaves the owners alone ...
SessionNext ==
    \/ now' \in Nat /\ ClockMoves(now')
    \/ \E n \in Node :
         \/ serving'[n].deadline \in Nat /\ Extend(n, serving'[n].deadline)
         \/ \E s \in Session :
              serving'[n].deadline \in Nat /\ Serve(n, s, serving'[n].deadline)
         \/ Leave(n)
         \/ Notice(n)

\* ... and everything that may change one.
OwnerNext ==
    \E g \in Grain :
      \/ \E n \in Node : \/ \E id \in PlacementID : Claim(g, id, n)
                         \/ HandOver(g, n)
                         \/ TakeOver(g, n)
      \/ GiveBack(g)
      \/ Audit(g)

OwnershipNext == SessionNext \/ OwnerNext

OwnershipSpec == OwnershipInit /\ [][OwnershipNext]_ownershipVars

RepeatingNext ==
    OwnershipNext \/ \E g \in Grain, id \in PlacementID, n \in Node : Reclaim(g, id, n)

RepeatingSpec == OwnershipInit /\ [][RepeatingNext]_ownershipVars
=============================================================================
