------------------------ MODULE NodeRegistry_proofs ------------------------
(***************************************************************************)
(* The properties of NodeRegistry for any nodes, sessions, TTL and bounds, *)
(* whatever the clock does.  The inductive invariant is type correctness   *)
(* together with the coherence of record, members and lease index: every   *)
(* script guards itself by one of the three keys and writes all of them.   *)
(***************************************************************************)
EXTENDS NodeRegistry, TLAPS

RegistryInv == RegistryTypeOK /\ LeaseIndexCoherent

\* The deadline renew.lua writes is one the index may hold, and no earlier than
\* the one it held.
LEMMA RenewedDeadlineBounds ==
    ASSUME RegistryTypeOK, NEW n \in Node
    PROVE  /\ RenewedDeadline(n) \in Nat
           /\ RenewedDeadline(n) >= lease[n]
           /\ RenewedDeadline(n) >= now + TTL
  BY RegistryAssumption DEF RegistryTypeOK, RenewedDeadline

\* The record of a session that has just registered or taken over.
LEMMA FreshRecord ==
    ASSUME RegistryTypeOK, NEW s \in Session
    PROVE  Fresh(s) \in NodeRecord
  BY RegistryAssumption DEF RegistryTypeOK, Fresh, NodeRecord

\* A key that exists holds a record of a session; a missing one is Absent.
LEMMA RecordOfLive ==
    ASSUME RegistryTypeOK, NEW n \in Node, Live(n)
    PROVE  node[n] \in NodeRecord
  BY DEF RegistryTypeOK, Live, Absent

\* Writing a fresh session into all three keys.
LEMMA InstallKeepsInv ==
    ASSUME RegistryInv, NEW n \in Node, NEW s \in Session, NEW e, Install(n, s, e)
    PROVE  RegistryInv'
  <1>1. Fresh(s) \in NodeRecord
    BY FreshRecord DEF RegistryInv
  <1>2. RegistryTypeOK'
    BY <1>1, RegistryAssumption DEF RegistryInv, RegistryTypeOK, Install
  <1>3. LeaseIndexCoherent'
    <2> SUFFICES ASSUME NEW m \in Node
                 PROVE  /\ m \in members' <=> Exists(m)'
                        /\ lease'[m] = IF Live(m)' THEN node'[m].expire ELSE 0
                        /\ Live(m)' => node'[m].expire > 0
      BY DEF LeaseIndexCoherent
    <2>1. CASE m = n
      BY <2>1, RegistryAssumption
      DEF RegistryInv, RegistryTypeOK, Install, Fresh, Exists, Live
    <2>2. CASE m # n
      <3>1. node'[m] = node[m] /\ lease'[m] = lease[m] /\ (m \in members' <=> m \in members)
        BY <2>2 DEF RegistryInv, RegistryTypeOK, Install
      <3> QED BY <3>1 DEF RegistryInv, LeaseIndexCoherent, Exists, Live
    <2> QED BY <2>1, <2>2
  <1> QED BY <1>2, <1>3 DEF RegistryInv

\* Removing a node from all three keys.
LEMMA RemoveKeepsInv ==
    ASSUME RegistryInv, NEW n \in Node, NEW s \in Session, Remove(n, s)
    PROVE  RegistryInv'
  <1>1. RegistryTypeOK'
    BY DEF RegistryInv, RegistryTypeOK, Remove
  <1>2. LeaseIndexCoherent'
    BY DEF RegistryInv, RegistryTypeOK, LeaseIndexCoherent, Remove, Absent, Exists, Live
  <1> QED BY <1>1, <1>2 DEF RegistryInv

\* A renewal writes the clamped deadline into the record and into the index.
LEMMA RenewKeepsInv ==
    ASSUME RegistryInv, NEW n \in Node, NEW s \in Session, RenewNode(n, s)
    PROVE  RegistryInv'
  <1>1. RenewedDeadline(n) \in Nat /\ RenewedDeadline(n) >= lease[n]
    BY RenewedDeadlineBounds DEF RegistryInv
  <1>2. RegistryTypeOK'
    <2>1. node[n] \in NodeRecord
      BY RecordOfLive DEF RegistryInv, RenewNode
    <2>2. Renewed(n) \in NodeRecord
      BY <1>1, <2>1 DEF NodeRecord, Renewed
    <2>3. node' \in [Node -> NodeRecord \cup {Absent}]
      BY <2>2 DEF RegistryInv, RegistryTypeOK, RenewNode
    <2> QED BY <1>1, <2>3 DEF RegistryInv, RegistryTypeOK, RenewNode
  <1>3. LeaseIndexCoherent'
    <2>1. node'[n].expire = RenewedDeadline(n) /\ node'[n].version = node[n].version + 1
      BY DEF RegistryInv, RegistryTypeOK, RenewNode, Renewed
    <2>2. node'[n].status = node[n].status
      BY DEF RegistryInv, RegistryTypeOK, RenewNode, Renewed
    <2>3. \A m \in Node : m # n => node'[m] = node[m] /\ lease'[m] = lease[m]
      BY DEF RegistryInv, RegistryTypeOK, RenewNode
    <2>4. lease'[n] = RenewedDeadline(n) /\ Live(n) /\ members' = members
      BY DEF RegistryInv, RegistryTypeOK, RenewNode
    <2> QED BY <1>1, <2>1, <2>2, <2>3, <2>4
            DEF RegistryInv, RegistryTypeOK, NodeRecord, LeaseIndexCoherent, Exists, Live
  <1> QED BY <1>2, <1>3 DEF RegistryInv

\* A draining node keeps its deadline and stays in the index.
LEMMA DrainKeepsInv ==
    ASSUME RegistryInv, NEW n \in Node, DrainNode(n)
    PROVE  RegistryInv'
  <1>1. RegistryTypeOK'
    <2>1. node[n] \in NodeRecord
      BY RecordOfLive DEF RegistryInv, DrainNode
    <2>2. [node[n] EXCEPT !.status = "draining"] \in NodeRecord
      BY <2>1 DEF NodeRecord
    <2> QED BY <2>2 DEF RegistryInv, RegistryTypeOK, DrainNode
  <1>2. LeaseIndexCoherent'
    BY DEF RegistryInv, RegistryTypeOK, NodeRecord, LeaseIndexCoherent, DrainNode, Exists, Live
  <1> QED BY <1>1, <1>2 DEF RegistryInv

\* An expired node goes offline and leaves the index, whatever snapshot the
\* scanner compared with.
LEMMA ExpireKeepsInv ==
    ASSUME RegistryInv, NEW n \in Node, NEW score, NEW record,
           ExpireNodeLease(n, score, record)
    PROVE  RegistryInv'
  <1>1. RegistryTypeOK'
    <2>1. node[n] \in NodeRecord
      BY RecordOfLive DEF RegistryInv, ExpireNodeLease, DueAsScanned
    <2>2. [node[n] EXCEPT !.status = "offline"] \in NodeRecord
      BY <2>1 DEF NodeRecord
    <2> QED BY <2>2 DEF RegistryInv, RegistryTypeOK, ExpireNodeLease
  <1>2. LeaseIndexCoherent'
    BY DEF RegistryInv, RegistryTypeOK, NodeRecord, LeaseIndexCoherent, ExpireNodeLease,
           DueAsScanned, Exists, Live
  <1> QED BY <1>1, <1>2 DEF RegistryInv

\* Steps that leave the three keys alone.
LEMMA OtherKeepsInv ==
    ASSUME RegistryInv, now' \in Nat, UNCHANGED <<node, members, lease>>,
           invalid' \subseteq Node
    PROVE  RegistryInv'
  BY DEF RegistryInv, RegistryTypeOK, LeaseIndexCoherent, Exists, Live

\* An empty Redis satisfies the invariant.
LEMMA RegistryInvInit == RegistryInit => RegistryInv
  BY DEF RegistryInit, RegistryInv, RegistryTypeOK, LeaseIndexCoherent, Absent,
                      Exists, Live

\* Every script, and every move of the clock, preserves it.
LEMMA RegistryInvNext == RegistryInv /\ [RegistryNext]_registryVars => RegistryInv'
  <1> SUFFICES ASSUME RegistryInv, [RegistryNext]_registryVars
               PROVE  RegistryInv'
    OBVIOUS
  <1>0. now \in Nat /\ invalid \subseteq Node
    BY DEF RegistryInv, RegistryTypeOK
  <1>1. CASE Tick
    BY <1>0, <1>1, OtherKeepsInv DEF Tick
  <1>2. CASE StepBack
    BY <1>0, <1>2, OtherKeepsInv DEF StepBack
  <1>3. ASSUME NEW n \in Node, NEW s \in Session, RegisterNode(n, s)
        PROVE  RegistryInv'
    BY <1>3, InstallKeepsInv DEF RegisterNode
  <1>4. ASSUME NEW n \in Node, NEW s \in Session, RenewNode(n, s)
        PROVE  RegistryInv'
    BY <1>4, RenewKeepsInv
  <1>5. ASSUME NEW n \in Node, NEW s \in Session, ReplaceNodeSession(n, s)
        PROVE  RegistryInv'
    BY <1>5, InstallKeepsInv DEF ReplaceNodeSession
  <1>6. ASSUME NEW n \in Node, NEW s \in Session, UnregisterNode(n, s)
        PROVE  RegistryInv'
    BY <1>6, RemoveKeepsInv DEF UnregisterNode
  <1>7. ASSUME NEW n \in Node, DrainNode(n)
        PROVE  RegistryInv'
    BY <1>7, DrainKeepsInv
  <1>8. ASSUME NEW n \in Node, MarkNodeInvalid(n) \/ RestoreNode(n)
        PROVE  RegistryInv'
    BY <1>0, <1>8, OtherKeepsInv DEF MarkNodeInvalid, RestoreNode
  <1>9. ASSUME NEW n \in Node, ExpireNodeLease(n, lease[n], node[n])
        PROVE  RegistryInv'
    BY <1>9, ExpireKeepsInv
  <1>10. CASE UNCHANGED registryVars
    BY <1>0, <1>10, OtherKeepsInv DEF registryVars
  <1> QED BY <1>1, <1>2, <1>3, <1>4, <1>5, <1>6, <1>7, <1>8, <1>9, <1>10 DEF RegistryNext

\* The inductive invariant holds in every reachable state.
THEOREM RegistryInvariance == RegistrySpec => []RegistryInv
  BY RegistryInvInit, RegistryInvNext, PTL DEF RegistrySpec

-----------------------------------------------------------------------------
\* Every key keeps its shape, for every interleaving of the registry's scripts.
THEOREM RegistryTypeCorrect == RegistrySpec => []RegistryTypeOK
  <1>1. RegistryInv => RegistryTypeOK
    BY DEF RegistryInv
  <1> QED BY <1>1, RegistryInvariance, PTL

\* The members set, the lease index and the record of a node never disagree, so
\* the LEASE_SCORE_MISMATCH answers cannot occur.
THEOREM LeaseIndexCoherence == RegistrySpec => []LeaseIndexCoherent
  <1>1. RegistryInv => LeaseIndexCoherent
    BY DEF RegistryInv
  <1> QED BY <1>1, RegistryInvariance, PTL

-----------------------------------------------------------------------------
\* What LeaseNeverShortened and OfflineIsFinal ask of one step.
LeaseKept(n) ==
    (Live(n) /\ Live(n)' /\ node'[n].session = node[n].session)
      => lease'[n] >= lease[n]

OfflineKept(n) ==
    node[n].status = "offline"
      => \/ node'[n] = node[n]
         \/ node'[n] = Absent
         \/ node'[n].session # node[n].session

\* A node whose record and deadline a step leaves alone keeps both promises.
LEMMA UntouchedKept ==
    ASSUME RegistryInv, NEW n \in Node, node'[n] = node[n], lease'[n] = lease[n]
    PROVE  LeaseKept(n) /\ OfflineKept(n)
  BY DEF RegistryInv, RegistryTypeOK, LeaseKept, OfflineKept

\* A fresh session is only installed where another one, or none, was.
LEMMA InstallKept ==
    ASSUME RegistryInv, NEW n \in Node, NEW s \in Session, NEW e, Install(n, s, e),
           Exists(n) => node[n].session # s,
           NEW m \in Node
    PROVE  LeaseKept(m) /\ OfflineKept(m)
  <1>1. CASE m = n
    <2>1. node'[m] = Fresh(s)
      BY <1>1 DEF RegistryInv, RegistryTypeOK, Install
    <2>2. Exists(m) => node'[m].session # node[m].session
      BY <1>1, <2>1 DEF Fresh
    <2>3. (Live(m) => Exists(m)) /\ (node[m].status = "offline" => Exists(m))
      BY DEF Live, Exists
    <2> QED BY <2>2, <2>3 DEF LeaseKept, OfflineKept
  <1>2. CASE m # n
    BY <1>2, UntouchedKept DEF RegistryInv, RegistryTypeOK, Install
  <1> QED BY <1>1, <1>2

\* A renewal is refused to a session that is offline and never lowers a deadline.
LEMMA RenewKept ==
    ASSUME RegistryInv, NEW n \in Node, NEW s \in Session, RenewNode(n, s),
           NEW m \in Node
    PROVE  LeaseKept(m) /\ OfflineKept(m)
  <1>1. CASE m = n
    <2>1. lease'[m] >= lease[m]
      BY <1>1, RenewedDeadlineBounds DEF RegistryInv, RegistryTypeOK, RenewNode
    <2>2. node[m].status # "offline"
      BY <1>1 DEF RenewNode, Live
    <2> QED BY <2>1, <2>2 DEF LeaseKept, OfflineKept
  <1>2. CASE m # n
    BY <1>2, UntouchedKept DEF RegistryInv, RegistryTypeOK, RenewNode
  <1> QED BY <1>1, <1>2

\* The scripts that take a session away end its lease; none revives a session.
LEMMA EndingKept ==
    ASSUME RegistryInv, NEW n \in Node, NEW m \in Node,
           \/ \E s \in Session : Remove(n, s)
           \/ DrainNode(n)
           \/ \E score, record : ExpireNodeLease(n, score, record)
    PROVE  LeaseKept(m) /\ OfflineKept(m)
  <1>1. CASE m # n
    BY <1>1, UntouchedKept
    DEF RegistryInv, RegistryTypeOK, Remove, DrainNode, ExpireNodeLease
  <1>2. ASSUME m = n, NEW s \in Session, Remove(n, s)
        PROVE  LeaseKept(m) /\ OfflineKept(m)
    <2>1. node'[m] = Absent
      BY <1>2 DEF RegistryInv, RegistryTypeOK, Remove
    <2> QED BY <2>1 DEF LeaseKept, OfflineKept, Live, Absent
  <1>3. CASE m = n /\ DrainNode(n)
    BY <1>3 DEF RegistryInv, RegistryTypeOK, DrainNode, Live, LeaseKept, OfflineKept
  <1>4. ASSUME m = n, NEW score, NEW record, ExpireNodeLease(n, score, record)
        PROVE  LeaseKept(m) /\ OfflineKept(m)
    <2>1. node'[m].status = "offline" /\ node[m].status # "offline"
      BY <1>4 DEF RegistryInv, RegistryTypeOK, NodeRecord, ExpireNodeLease, DueAsScanned, Live
    <2> QED BY <2>1 DEF LeaseKept, OfflineKept, Live
  <1> QED BY <1>1, <1>2, <1>3, <1>4

\* Every step of the registry keeps both promises for every node.
LEMMA StepKept ==
    ASSUME RegistryInv, [RegistryNext]_registryVars, NEW m \in Node
    PROVE  LeaseKept(m) /\ OfflineKept(m)
  <1>1. CASE UNCHANGED <<node, lease>>
    BY <1>1, UntouchedKept
  <1>2. ASSUME NEW n \in Node, NEW s \in Session, RegisterNode(n, s)
        PROVE  LeaseKept(m) /\ OfflineKept(m)
    BY <1>2, InstallKept DEF RegisterNode
  <1>3. ASSUME NEW n \in Node, NEW s \in Session, ReplaceNodeSession(n, s)
        PROVE  LeaseKept(m) /\ OfflineKept(m)
    BY <1>3, InstallKept DEF ReplaceNodeSession
  <1>4. ASSUME NEW n \in Node, NEW s \in Session, RenewNode(n, s)
        PROVE  LeaseKept(m) /\ OfflineKept(m)
    BY <1>4, RenewKept
  <1>5. ASSUME NEW n \in Node,
               \/ \E s \in Session : UnregisterNode(n, s)
               \/ DrainNode(n)
               \/ ExpireNodeLease(n, lease[n], node[n])
        PROVE  LeaseKept(m) /\ OfflineKept(m)
    BY <1>5, EndingKept DEF UnregisterNode
  <1> QED BY <1>1, <1>2, <1>3, <1>4, <1>5
          DEF RegistryNext, registryVars, Tick, StepBack, MarkNodeInvalid, RestoreNode

\* No interleaving of scripts, and no step of the clock, takes time away from a
\* session that keeps its identity (the clamp of renew.lua).
THEOREM DeadlinesNeverShortened == RegistrySpec => LeaseNeverShortened
  <1>1. ASSUME RegistryInv, [RegistryNext]_registryVars
        PROVE  [\A n \in Node : LeaseKept(n)]_registryVars
    BY <1>1, StepKept
  <1>2. RegistryInv /\ [RegistryNext]_registryVars
          => [\A n \in Node :
                (Live(n) /\ Live(n)' /\ node'[n].session = node[n].session)
                  => lease'[n] >= lease[n]]_registryVars
    BY <1>1 DEF LeaseKept
  <1> QED BY <1>2, RegistryInvariance, PTL DEF RegistrySpec, LeaseNeverShortened

\* A session declared offline stays so until it is replaced or removed
\* (the guards of register.lua and renew.lua).
THEOREM OfflineSessionsStayOffline == RegistrySpec => OfflineIsFinal
  <1>1. ASSUME RegistryInv, [RegistryNext]_registryVars
        PROVE  [\A n \in Node : OfflineKept(n)]_registryVars
    BY <1>1, StepKept
  <1>2. RegistryInv /\ [RegistryNext]_registryVars
          => [\A n \in Node :
                node[n].status = "offline"
                  => \/ node'[n] = node[n]
                     \/ node'[n] = Absent
                     \/ node'[n].session # node[n].session]_registryVars
    BY <1>1 DEF OfflineKept
  <1> QED BY <1>2, RegistryInvariance, PTL DEF RegistrySpec, OfflineIsFinal

-----------------------------------------------------------------------------
(* One step of a node, seen from the deadline of its lease.                *)

\* What a step may do to the record of n.
RecordStep(n) ==
    \/ node'[n] = node[n]
    \/ \E s \in Session : node'[n] = Fresh(s) /\ now' = now
    \/ node'[n] = Absent
    \/ /\ Live(n) /\ node'[n].session = node[n].session
       /\ \/ Live(n)' /\ node'[n].expire >= node[n].expire
                      /\ node'[n].expire <= now' + TTL
          \/ ~Live(n)' /\ node[n].expire <= now'

\* A step of the registry; the clock does not go back.
RegistrySteps == RegistryNext /\ now' >= now

LEMMA RecordSteps ==
    ASSUME RegistryInv, \A n \in Node : Live(n) => node[n].expire <= now + TTL,
           RegistrySteps, NEW n \in Node
    PROVE  RecordStep(n)
  <1> USE DEF RegistryInv, RegistryTypeOK
  <1>1. ASSUME NEW m \in Node, m # n, NEW r, node' = [node EXCEPT ![m] = r]
        PROVE  node'[n] = node[n]
    BY <1>1
  <1>2. ASSUME NEW s \in Session, NEW e, Install(n, s, e)
        PROVE  RecordStep(n)
    BY <1>2 DEF Install, RecordStep
  <1>3. ASSUME NEW s \in Session, Remove(n, s)
        PROVE  RecordStep(n)
    BY <1>3 DEF Remove, RecordStep
  <1>4. ASSUME NEW s \in Session, RenewNode(n, s)
        PROVE  RecordStep(n)
    <2>1. Live(n) /\ lease[n] = node[n].expire /\ now' = now
      BY <1>4 DEF RenewNode, LeaseIndexCoherent
    <2>2. node'[n] = Renewed(n)
      BY <1>4 DEF RenewNode
    <2>3. node[n] \in NodeRecord
      BY <2>1, RecordOfLive
    <2>4. RenewedDeadline(n) >= node[n].expire /\ RenewedDeadline(n) <= now + TTL
      BY <2>1, <2>3, RegistryAssumption DEF RenewedDeadline, NodeRecord
    <2>5. /\ node'[n].session = node[n].session /\ node'[n].status = node[n].status
          /\ node'[n].expire = RenewedDeadline(n)
      BY <2>2 DEF Renewed
    <2> QED BY <2>1, <2>4, <2>5 DEF RecordStep, Live
  <1>5. ASSUME DrainNode(n)
        PROVE  RecordStep(n)
    <2>1. Live(n) /\ now' = now
      BY <1>5 DEF DrainNode
    <2>2. node[n] \in NodeRecord
      BY <2>1, RecordOfLive
    <2>3. node'[n] = [node[n] EXCEPT !.status = "draining"]
      BY <1>5 DEF DrainNode
    <2>4. /\ node'[n].session = node[n].session /\ node'[n].status = "draining"
          /\ node'[n].expire = node[n].expire /\ node[n].expire \in Nat
      BY <2>2, <2>3 DEF NodeRecord
    <2> QED BY <2>1, <2>4 DEF RecordStep, Live
  <1>6. ASSUME ExpireNodeLease(n, lease[n], node[n])
        PROVE  RecordStep(n)
    <2>1. Live(n) /\ now' = now /\ node[n].expire <= now
      BY <1>6 DEF ExpireNodeLease, DueAsScanned
    <2>2. node[n] \in NodeRecord
      BY <2>1, RecordOfLive
    <2>3. node'[n] = [node[n] EXCEPT !.status = "offline"]
      BY <1>6 DEF ExpireNodeLease
    <2>4. node'[n].session = node[n].session /\ node'[n].status = "offline"
      BY <2>2, <2>3 DEF NodeRecord
    <2> QED BY <2>1, <2>4 DEF RecordStep, Live
  <1>7. ASSUME node' = node
        PROVE  RecordStep(n)
    BY <1>7 DEF RecordStep
  <1>8. ASSUME NEW m \in Node, m # n, NEW r, node' = [node EXCEPT ![m] = r]
        PROVE  RecordStep(n)
    BY <1>1, <1>8 DEF RecordStep
  <1> QED
    BY <1>2, <1>3, <1>4, <1>5, <1>6, <1>7, <1>8
    DEF RegistrySteps, RegistryNext, Tick, StepBack, RegisterNode, RenewNode,
        ReplaceNodeSession, UnregisterNode, Remove, Install, DrainNode,
        MarkNodeInvalid, RestoreNode, ExpireNodeLease

\* A lease is never longer than the TTL from now.
LEMMA LeaseBounded ==
    ASSUME RegistryInv, RegistryInv', NEW n \in Node, RecordStep(n), now' >= now,
           Live(n) => node[n].expire <= now + TTL, Live(n)'
    PROVE  node'[n].expire <= now' + TTL
  <1>1. now \in Nat /\ now' \in Nat /\ TTL \in Nat
    BY RegistryAssumption DEF RegistryInv, RegistryTypeOK
  <1>2. CASE node'[n] = node[n]
    <2>1. Live(n)
      BY <1>2 DEF Live
    <2>2. node[n].expire \in Nat
      BY <2>1, RecordOfLive DEF RegistryInv, NodeRecord
    <2> QED BY <1>1, <1>2, <2>1, <2>2
  <1>3. ASSUME NEW s \in Session, node'[n] = Fresh(s), now' = now
        PROVE  node'[n].expire <= now' + TTL
    BY <1>1, <1>3 DEF Fresh
  <1>4. node'[n] # Absent
    BY DEF Live, Absent
  <1> QED BY <1>2, <1>3, <1>4 DEF RecordStep

\* The deadline u is no later than the lease of session s of n, as long as it has
\* one; if the session was declared offline, u has passed.
Backed(n, s, u) ==
    /\ u <= now + TTL
    /\ node[n].session = s => u <= IF Live(n) THEN node[n].expire ELSE now

\* A deadline that is backed stays backed: the clamp of renew.lua.
LEMMA BackedKept ==
    ASSUME RegistryInv, RegistryInv', NEW n \in Node, NEW s \in Session, NEW u \in Int,
           RecordStep(n), now' >= now
    PROVE  Backed(n, s, u) => Backed(n, s, u)'
  <1> SUFFICES ASSUME u <= now + TTL,
                      node[n].session = s => u <= IF Live(n) THEN node[n].expire ELSE now
               PROVE  Backed(n, s, u)'
    BY DEF Backed
  <1>1. now \in Nat /\ now' \in Nat /\ TTL \in Nat
    BY RegistryAssumption DEF RegistryInv, RegistryTypeOK
  <1>2. Live(n) => node[n].expire \in Nat
    BY RecordOfLive DEF RegistryInv, NodeRecord
  <1>3. Live(n)' => node'[n].expire \in Nat
    <2>1. Live(n)' => node'[n] \in NodeRecord
      BY DEF RegistryInv, RegistryTypeOK, Live, Absent
    <2> QED BY <2>1 DEF NodeRecord
  <1>4. u <= now' + TTL
    <2>1. PICK t \in Nat : t = now'
      BY <1>1
    <2>2. t >= now
      BY <2>1
    <2>3. now \in Nat /\ TTL \in Nat
      BY <1>1
    <2>4. u <= t + TTL
      BY <2>2, <2>3
    <2> QED BY <2>1, <2>4
  <1>5. ASSUME node'[n].session = s
        PROVE  u <= IF Live(n)' THEN node'[n].expire ELSE now'
    <2>1. CASE node'[n] = node[n]
      BY <1>1, <1>2, <1>5, <2>1 DEF Live
    <2>2. ASSUME NEW t \in Session, node'[n] = Fresh(t), now' = now
          PROVE  u <= IF Live(n)' THEN node'[n].expire ELSE now'
      BY <1>1, <1>4, <2>2 DEF Fresh, Live
    <2>3. node'[n] # Absent
      BY <1>5, EventsAssumption DEF Absent
    <2>4. CASE /\ Live(n) /\ node'[n].session = node[n].session
               /\ \/ Live(n)' /\ node'[n].expire >= node[n].expire
                  \/ ~Live(n)' /\ node[n].expire <= now'
      <3>1. u <= node[n].expire
        BY <1>5, <2>4
      <3> QED BY <1>1, <1>2, <1>3, <2>4, <3>1
    <2>5. RecordStep(n)
      OBVIOUS
    <2> QED BY <2>1, <2>2, <2>3, <2>4, <2>5 DEF RecordStep
  <1> QED BY <1>4, <1>5 DEF Backed
=============================================================================
