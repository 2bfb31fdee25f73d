---------------------------- MODULE NodeRegistry ----------------------------
(***************************************************************************)
(* The Redis half of the node directory: one atomic Lua script per         *)
(* operation (src/redis/lua/node, src/redis/lua/lease).  A node record     *)
(* carries the session that owns the identity, its status and its lease.   *)
(* Beside the records Redis keeps three derived structures: the members    *)
(* set of the group, a sorted set of lease deadlines and the set of names  *)
(* an operator has marked invalid.  Every script that changes what a       *)
(* router may rely on appends one domain event to the stream.              *)
(*                                                                         *)
(* A node identity stands for type/group/name, so the sets that the code   *)
(* keeps per type and group are sets of identities here.  Malformed keys   *)
(* (WRONGTYPE, INVALID_JSON, IDENTITY_MISMATCH) need a foreign writer and  *)
(* are left out; metrics belong to the scheduling strategy.                *)
(***************************************************************************)
EXTENDS Events

CONSTANTS TTL,              \* lease duration of every session, in clock ticks
          MaxTime,          \* bound: the clock stops here
          MaxLeaseVersion,  \* bound: renewals of one session
          ClockMayStepBack  \* whether Redis TIME may be set back

ASSUME RegistryAssumption ==
    /\ TTL \in Nat \ {0}
    /\ MaxTime \in Nat
    /\ MaxLeaseVersion \in Nat
    /\ ClockMayStepBack \in BOOLEAN

VARIABLES now,      \* Redis TIME
          node,     \* the node record stored under each node key
          members,  \* SET of the group: identities Allocate looks at
          lease,    \* ZSET of the group: lease deadline, 0 when not a member
          invalid,  \* SET of the identities marked invalid
          emitted   \* domain event appended by the last step, or NoEvent

registryVars == <<now, node, members, lease, invalid, emitted>>

-----------------------------------------------------------------------------
(* Records.                                                                *)

NodeRecord == [session : Session,
               status  : {"active", "draining", "offline"},
               version : Nat \ {0},
               expire  : Nat]

Absent == [session |-> NoSession, status |-> "absent", version |-> 0, expire |-> 0]

\* Mutant of Fresh: the TTL is subtracted.
BornExpired(s) == [session |-> s, status |-> "active", version |-> 1, expire |-> now - TTL]

\* A session that has just registered: first lease version, full TTL.
Fresh(s) == [session |-> s, status |-> "active", version |-> 1, expire |-> now + TTL]

\* Mutant of Exists: an offline record counts as none.
ExistsUntilOffline(n) == node[n].status \in {"active", "draining"}

Exists(n) == node[n].status # "absent"

Live(n) == node[n].status \in {"active", "draining"}

Unexpired(n) == node[n].expire > now

\* What every script asks of an owner before it trusts it: the recorded
\* session, a live status and a deadline in the lease index that has not passed.
Healthy(n, s) == /\ node[n].session = s
                 /\ Live(n)
                 /\ lease[n] = node[n].expire
                 /\ lease[n] > now

\* Every script that touches a record first compares its deadline with the
\* lease index (error LEASE_SCORE_MISMATCH).
ScoreAgrees(n) == IF Live(n) THEN lease[n] = node[n].expire
                             ELSE lease[n] \in {0, node[n].expire}

-----------------------------------------------------------------------------
RegistryInit ==
        /\ now = 0
        /\ node = [n \in Node |-> Absent]
        /\ members = {}
        /\ lease = [n \in Node |-> 0]
        /\ invalid = {}
        /\ emitted = NoEvent

\* A record written together with its index entries and announced.
Install(n, s, event) ==
    /\ node' = [node EXCEPT ![n] = Fresh(s)]
    /\ members' = members \cup {n}
    /\ lease' = [lease EXCEPT ![n] = now + TTL]
    /\ emitted' = NodeEvent(event, n)
    /\ UNCHANGED <<now, invalid>>

\* Only a first registration writes: an existing key is answered with its
\* remaining TTL (same live session) or with an error.
RegisterNode(n, s) ==
    /\ ~Exists(n)
    /\ Install(n, s, "NodeRegistered")

\* Mutant of RenewedDeadline: no clamp.
UnclampedDeadline(n) == now + TTL

\* A deadline never moves backwards, whatever Redis TIME does.
RenewedDeadline(n) == IF now + TTL < lease[n] THEN lease[n] ELSE now + TTL

Renewed(n) == [session |-> node[n].session, status |-> node[n].status,
               version |-> node[n].version + 1, expire |-> RenewedDeadline(n)]

RenewNode(n, s) ==
    /\ Exists(n) /\ node[n].session = s
    /\ Live(n) /\ ScoreAgrees(n)
    /\ Unexpired(n)
    /\ node[n].version < MaxLeaseVersion
    /\ node' = [node EXCEPT ![n] = Renewed(n)]
    /\ lease' = [lease EXCEPT ![n] = RenewedDeadline(n)]
    /\ emitted' = NoEvent
    /\ UNCHANGED <<now, members, invalid>>

\* Mutant of ReplaceNodeSession: announced like a first registration.
ReplaceAnnouncedAsNew(n, s) ==
    /\ Exists(n) => node[n].session # s /\ ScoreAgrees(n)
    /\ Install(n, s, "NodeRegistered")

\* A restarted process takes its identity over from any other session.
ReplaceNodeSession(n, s) ==
    /\ Exists(n) => node[n].session # s /\ ScoreAgrees(n)
    /\ Install(n, s, "NodeReplaced")

\* Mutant of Remove: the deadline stays in the lease index.
RemoveLeavingLease(n, s) ==
    /\ Exists(n) /\ node[n].session = s
    /\ ScoreAgrees(n)
    /\ node' = [node EXCEPT ![n] = Absent]
    /\ members' = members \ {n}
    /\ emitted' = NodeEvent("NodeUnregistered", n)
    /\ UNCHANGED <<now, lease, invalid>>

\* UnregisterNode and CompleteDrain share one script.
Remove(n, s) ==
    /\ Exists(n) /\ node[n].session = s
    /\ ScoreAgrees(n)
    /\ node' = [node EXCEPT ![n] = Absent]
    /\ members' = members \ {n}
    /\ lease' = [lease EXCEPT ![n] = 0]
    /\ emitted' = NodeEvent("NodeUnregistered", n)
    /\ UNCHANGED <<now, invalid>>

UnregisterNode(n, s) == Remove(n, s)

\* Draining is only possible after the name was marked invalid.  It keeps the
\* lease and the session: a draining owner still serves.
DrainNode(n) ==
    /\ Exists(n) /\ n \in invalid
    /\ Live(n) /\ ScoreAgrees(n)
    /\ node' = [node EXCEPT ![n].status = "draining"]
    /\ emitted' = NodeEvent("NodeDraining", n)
    /\ UNCHANGED <<now, members, lease, invalid>>

MarkNodeInvalid(n) ==
    /\ invalid' = invalid \cup {n}
    /\ emitted' = NodeEvent("NodeMarkedInvalid", n)
    /\ UNCHANGED <<now, node, members, lease>>

RestoreNode(n) ==
    /\ invalid' = invalid \ {n}
    /\ emitted' = NodeEvent("NodeRestored", n)
    /\ UNCHANGED <<now, node, members, lease>>

\* Mutants of DueAsScanned: the snapshot is not compared; being listed is enough.
DueInSnapshot(n, score, record) == lease[n] # 0 /\ Live(n) /\ score <= now

ListedAsScanned(n, score, record) ==
    /\ lease[n] # 0 /\ lease[n] = score
    /\ node[n] = record
    /\ node[n].expire = score
    /\ Live(n)

\* The scanner's snapshot still holds, and the deadline has passed.
DueAsScanned(n, score, record) ==
    /\ lease[n] # 0 /\ lease[n] = score
    /\ node[n] = record
    /\ node[n].expire = score
    /\ Live(n)
    /\ score <= now

\* The lease scanner's script for a candidate it read earlier: score and
\* record are the scanner's snapshot, compared before anything is written.
\* The script also drops index entries without a live record;
\* LeaseIndexCoherent shows there are none.
ExpireNodeLease(n, score, record) ==
    /\ DueAsScanned(n, score, record)
    /\ node' = [node EXCEPT ![n].status = "offline"]
    /\ lease' = [lease EXCEPT ![n] = 0]
    /\ emitted' = NodeEvent("NodeLeaseExpired", n)
    /\ UNCHANGED <<now, members, invalid>>

Tick == /\ now < MaxTime
        /\ now' = now + 1
        /\ emitted' = NoEvent
        /\ UNCHANGED <<node, members, lease, invalid>>

\* The server's wall clock is corrected backwards.
StepBack == /\ ClockMayStepBack
            /\ now > 0
            /\ now' = now - 1
            /\ emitted' = NoEvent
            /\ UNCHANGED <<node, members, lease, invalid>>

RegistryNext ==
    \/ Tick
    \/ StepBack
    \/ \E n \in Node :
         \/ \E s \in Session : \/ RegisterNode(n, s)
                               \/ RenewNode(n, s)
                               \/ ReplaceNodeSession(n, s)
                               \/ UnregisterNode(n, s)
         \/ DrainNode(n)
         \/ MarkNodeInvalid(n)
         \/ RestoreNode(n)
         \/ ExpireNodeLease(n, lease[n], node[n])

RegistrySpec == RegistryInit /\ [][RegistryNext]_registryVars

-----------------------------------------------------------------------------
(* Properties.                                                             *)

\* Every variable keeps its shape (the state Redis stores per key).
RegistryTypeOK ==
    /\ now \in Nat
    /\ node \in [Node -> NodeRecord \cup {Absent}]
    /\ members \subseteq Node
    /\ lease \in [Node -> Nat]
    /\ invalid \subseteq Node

\* The three keys a script writes together never disagree: a node is listed
\* for allocation exactly while its record exists, and stands in the lease
\* index with its own deadline exactly while it is active or draining.  Hence
\* the LEASE_SCORE_MISMATCH errors and the clean-up branches of
\* expire_node.lua are unreachable, and an offline node is never scanned again.
LeaseIndexCoherent ==
    \A n \in Node :
      /\ n \in members <=> Exists(n)
      /\ lease[n] = IF Live(n) THEN node[n].expire ELSE 0
      /\ Live(n) => node[n].expire > 0

\* While one session keeps its identity its deadline never moves backwards,
\* even when Redis TIME does: the promise behind every ValidUntil a process
\* computed from an earlier answer (renew.lua clamps the new deadline).
LeaseNeverShortened ==
    [][\A n \in Node :
         (Live(n) /\ Live(n)' /\ node'[n].session = node[n].session)
           => lease'[n] >= lease[n]]_registryVars

\* A session declared offline never comes back under the same identity by a
\* registration or a renewal that was still under way: only another session
\* or the removal of the record ends that state.
OfflineIsFinal ==
    [][\A n \in Node :
         node[n].status = "offline"
           => \/ node'[n] = node[n]
              \/ node'[n] = Absent
              \/ node'[n].session # node[n].session]_registryVars
=============================================================================
