---------------------------- MODULE LeaseScanner ----------------------------
(***************************************************************************)
(* The lease scanner (src/redis/node_lease.go): every process may run a    *)
(* RunNodeLeaseLoop.  One round reads the lowest entries of the lease      *)
(* index, then the record of each, then runs expire_node.lua for each with *)
(* the score and record it read.  Renewals, replacements, removals and     *)
(* other scanners go on between any two of these round trips.  The first   *)
(* error ends the loop for good.                                           *)
(***************************************************************************)
EXTENDS NodeRegistry, Sequences, FiniteSets

CONSTANTS Scanner,    \* running loops
          batchSize   \* candidates per round

ASSUME ScannerAssumption == batchSize \in Nat \ {0}

VARIABLES
    phase,       \* of each loop: "wait", "read", "expire" or "stopped"
    candidates,  \* read from the index, record not yet read: [node, score]
    snapshots    \* ready to be expired: [node, score, record]

scannerVars == <<phase, candidates, snapshots>>
scanVars == <<registryVars, scannerVars>>

-----------------------------------------------------------------------------
ScannerInit == /\ RegistryInit
               /\ phase = [k \in Scanner |-> "wait"]
               /\ candidates = [k \in Scanner |-> <<>>]
               /\ snapshots = [k \in Scanner |-> <<>>]

\* Mutant of LowestFirst: the latest deadlines first.
HighestFirst(q) ==
    LET listed == {n \in Node : lease[n] # 0}
        picked == {q[i].node : i \in DOMAIN q}
    IN /\ Len(q) = IF Cardinality(listed) < batchSize THEN Cardinality(listed) ELSE batchSize
       /\ \A i, j \in DOMAIN q : i < j => q[i].score >= q[j].score /\ q[i].node # q[j].node
       /\ \A i \in DOMAIN q : q[i].node \in listed /\ q[i].score = lease[q[i].node]
       /\ \A n \in listed \ picked, m \in picked : lease[m] >= lease[n]

\* The first entries of the index in score order; entries of equal score are
\* ordered by name, of which nothing is known here.
LowestFirst(q) ==
    LET listed == {n \in Node : lease[n] # 0}
        picked == {q[i].node : i \in DOMAIN q}
    IN /\ Len(q) = IF Cardinality(listed) < batchSize THEN Cardinality(listed) ELSE batchSize
       /\ \A i, j \in DOMAIN q : i < j => q[i].score <= q[j].score /\ q[i].node # q[j].node
       /\ \A i \in DOMAIN q : q[i].node \in listed /\ q[i].score = lease[q[i].node]
       /\ \A n \in listed \ picked, m \in picked : lease[m] <= lease[n]

\* ZRANGEBYSCORE -inf +inf LIMIT 0 batchSize: due or not.
RangeByScore(k) ==
    /\ phase[k] = "wait"
    /\ \E len \in 1 .. batchSize :
         \E q \in [1 .. len -> {[node |-> n, score |-> lease[n]] : n \in Node}] :
           /\ LowestFirst(q)
           /\ candidates' = [candidates EXCEPT ![k] = q]
    /\ phase' = [phase EXCEPT ![k] = "read"]
    /\ UNCHANGED <<registryVars, snapshots>>

\* The GET of one candidate.
Read(k) ==
    /\ phase[k] = "read" /\ candidates[k] # <<>>
    /\ LET c == Head(candidates[k])
           s == [node |-> c.node, score |-> c.score, record |-> node[c.node]]
       IN snapshots' = [snapshots EXCEPT ![k] = Append(@, s)]
    /\ candidates' = [candidates EXCEPT ![k] = Tail(@)]
    /\ phase' = [phase EXCEPT ![k] = IF Len(candidates[k]) = 1 THEN "expire" ELSE "read"]
    /\ UNCHANGED registryVars

\* One EVAL; a candidate that is stale or not due is passed over.
Expire(k) ==
    /\ phase[k] = "expire"
    /\ LET s == Head(snapshots[k]) IN
         \/ ExpireNodeLease(s.node, s.score, s.record)
         \/ /\ \/ lease[s.node] # s.score
               \/ node[s.node] # s.record
               \/ s.score > now
            /\ UNCHANGED registryVars
    /\ snapshots' = [snapshots EXCEPT ![k] = Tail(@)]
    /\ phase' = [phase EXCEPT ![k] = IF Len(snapshots[k]) = 1 THEN "wait" ELSE "expire"]
    /\ UNCHANGED candidates

\* Any Redis error is returned by ExpireNodeLeases and ends RunNodeLeaseLoop.
Stop(k) ==
    /\ phase[k] # "stopped"
    /\ phase' = [phase EXCEPT ![k] = "stopped"]
    /\ candidates' = [candidates EXCEPT ![k] = <<>>]
    /\ snapshots' = [snapshots EXCEPT ![k] = <<>>]
    /\ UNCHANGED registryVars

ScanStep(k) == RangeByScore(k) \/ Read(k) \/ Expire(k)

\* Everything else the registry does.  A scanner of another process shows in its
\* expiries only, and ScansAreAtomic says what those amount to.
OtherStep ==
    /\ \/ Tick
       \/ StepBack
       \/ \E n \in Node :
            \/ \E s \in Session : \/ RegisterNode(n, s)
                                  \/ RenewNode(n, s)
                                  \/ ReplaceNodeSession(n, s)
                                  \/ UnregisterNode(n, s)
            \/ DrainNode(n)
            \/ MarkNodeInvalid(n)
            \/ RestoreNode(n)
            \/ ExpireNodeLease(n, lease[n], node[n])
    /\ UNCHANGED scannerVars

ScannerNext == OtherStep \/ \E k \in Scanner : ScanStep(k) \/ Stop(k)

\* The ticker of a loop that has not returned keeps firing, and every call of it
\* returns, with an answer or an error.  Nothing is assumed of nodes and operators.
ScannerSpec == /\ ScannerInit /\ [][ScannerNext]_scanVars
               /\ \A k \in Scanner : WF_scanVars(ScanStep(k))

-----------------------------------------------------------------------------
(* Properties.                                                             *)

\* Scanners of many processes, with snapshots of any age, expire leases only as
\* the registry's own atomic expiry could.
ScansAreAtomic == RegistrySpec

\* Every step that declares a session offline finds its current deadline
\* passed: a renewal between the scan and the script is never overridden.
RenewalWins ==
    [][\A n \in Node :
         (Live(n) /\ node'[n].status = "offline" /\ node'[n].session = node[n].session)
           => node[n].expire <= now /\ lease[n] <= now]_scanVars

\* As long as one loop of this process goes on, a session whose deadline has
\* passed does not stay in place for ever, however small the batches are and
\* whatever other nodes do: due entries come first in the index.
DueLeaseExpires ==
    \A n \in Node :
      (Live(n) /\ ~Unexpired(n))
        ~> (~(Live(n) /\ ~Unexpired(n)) \/ \A k \in Scanner : phase[k] = "stopped")
=============================================================================
