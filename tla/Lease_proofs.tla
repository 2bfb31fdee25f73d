---------------------------- MODULE Lease_proofs ----------------------------
(***************************************************************************)
(* The two ends of a lease: the processes that hold it and the loops that  *)
(* end it.                                                                 *)
(*                                                                         *)
(* What a process believes about its lease is never more than Redis holds, *)
(* for any nodes, sessions and TTL and any number of scripts that run      *)
(* late.  The inductive invariant says of every deadline a process was     *)
(* granted, or has an answer under way for, that the record of its session *)
(* keeps it (Covered), or that it has passed if the session was declared   *)
(* offline.                                                                *)
(***************************************************************************)
EXTENDS NodeLease, LeaseScanner, NodeRegistry_proofs, SequenceTheorems

Grants == [version : Nat, until : Int]

Requests == {Idle} \cup [pc : {"sent"}, op : {"register", "renew", "replace"}, start : Nat]
              \cup [pc : {"answered"}, op : {"register", "renew", "replace"}, start : Nat,
                    version : Nat, remaining : Int]

LeaseTypeOK == /\ request \in [Session -> Requests]
               /\ grant \in [Session -> Grants]
               /\ \A m \in late : m.session \in Session

\* The deadline u is no later than the lease of session s, as long as s has one.
Covered(s, u) ==
    /\ u <= now + TTL
    /\ node[NodeOf[s]].session = s
         => u <= IF Live(NodeOf[s]) THEN node[NodeOf[s]].expire ELSE now

Awaited(s) ==
    /\ request[s] # Idle => request[s].start <= now
    /\ request[s].pc = "answered" => Covered(s, request[s].start + request[s].remaining)

LeaseInv == /\ RegistryInv
            /\ LeaseTypeOK
            /\ \A n \in Node : Live(n) => node[n].expire <= now + TTL
            /\ \A s \in Session : Covered(s, grant[s].until) /\ Awaited(s)

-----------------------------------------------------------------------------
(* The invariant.                                                          *)

\* A deadline that is covered stays covered.
LEMMA CoveredKept ==
    ASSUME RegistryInv, RegistryInv', NEW s \in Session, NEW u \in Int, Covered(s, u),
           RecordStep(NodeOf[s]), now' >= now
    PROVE  Covered(s, u)'
  <1>1. NodeOf[s] \in Node /\ Backed(NodeOf[s], s, u)
    BY LeaseAssumption DEF Covered, Backed
  <1>2. Backed(NodeOf[s], s, u)'
    BY <1>1, BackedKept
  <1> QED BY <1>2 DEF Covered, Backed

\* The lease a successful script answers with is that of its caller's session.
LEMMA SuccessGrants ==
    ASSUME RegistryInv, NEW s \in Session, NEW op, Succeeds(NodeOf[s], s, op)
    PROVE  /\ node'[NodeOf[s]].session = s /\ Live(NodeOf[s])' /\ now' = now
           /\ RegistrySteps \/ UNCHANGED registryVars
  <1> DEFINE n == NodeOf[s]
  <1>1. n \in Node
    BY LeaseAssumption
  <1>2. now \in Nat
    BY DEF RegistryInv, RegistryTypeOK
  <1>3. ASSUME NEW e, Install(n, s, e)
        PROVE  node'[n].session = s /\ Live(n)' /\ now' = now
    <2>1. node'[n] = Fresh(s)
      BY <1>1, <1>3 DEF Install, RegistryInv, RegistryTypeOK
    <2> QED BY <1>3, <2>1 DEF Install, Fresh, Live
  <1>4. CASE RegisterNode(n, s)
    BY <1>1, <1>2, <1>3, <1>4 DEF RegisterNode, RegistrySteps, RegistryNext
  <1>5. CASE ReplaceNodeSession(n, s)
    BY <1>1, <1>2, <1>3, <1>5 DEF ReplaceNodeSession, RegistrySteps, RegistryNext
  <1>6. CASE RenewNode(n, s)
    <2>1. node'[n] = Renewed(n)
      BY <1>1, <1>6 DEF RenewNode, RegistryInv, RegistryTypeOK
    <2>2. node'[n].session = s /\ Live(n)' /\ now' = now
      BY <1>6, <2>1 DEF RenewNode, Renewed, Live
    <2> QED BY <1>1, <1>2, <1>6, <2>2 DEF RegistrySteps, RegistryNext
  <1>7. CASE AlreadyRegistered(n, s)
    BY <1>7 DEF AlreadyRegistered, registryVars, Live
  <1> QED BY <1>4, <1>5, <1>6, <1>7 DEF Succeeds

LEMMA LeaseInvInit == LeaseInit => LeaseInv
  <1> SUFFICES ASSUME LeaseInit PROVE LeaseInv
    OBVIOUS
  <1>1. RegistryInv
    BY RegistryInvInit DEF LeaseInit
  <1>2. LeaseTypeOK
    BY DEF LeaseInit, LeaseTypeOK, Requests, Grants, NoGrant
  <1>3. \A n \in Node : node[n] = Absent /\ ~Live(n)
    BY DEF LeaseInit, RegistryInit, Live, Absent
  <1>4. ASSUME NEW s \in Session
        PROVE  Covered(s, grant[s].until) /\ Awaited(s)
    <2>1. NodeOf[s] \in Node
      BY LeaseAssumption
    <2>2. node[NodeOf[s]].session # s
      BY <1>3, <2>1, EventsAssumption DEF Absent
    <2>3. grant[s].until = 0 /\ now = 0 /\ request[s] = Idle
      BY DEF LeaseInit, RegistryInit, NoGrant
    <2> QED BY <2>2, <2>3, RegistryAssumption DEF Covered, Awaited, Idle
  <1> QED BY <1>1, <1>2, <1>3, <1>4 DEF LeaseInv

\* A step of the registry keeps everything it is asked to keep.
LEMMA PromisesKept ==
    ASSUME LeaseInv, RegistrySteps \/ UNCHANGED registryVars
    PROVE  /\ RegistryInv'
           /\ \A n \in Node : Live(n)' => node'[n].expire <= now' + TTL
           /\ now' >= now /\ now \in Nat /\ now' \in Nat
           /\ \A s \in Session, u \in Int : Covered(s, u) => Covered(s, u)'
  <1>1. RegistryInv'
    BY RegistryInvNext DEF LeaseInv, RegistrySteps
  <1>2. now \in Nat /\ now' \in Nat /\ now' >= now
    BY <1>1 DEF LeaseInv, RegistryInv, RegistryTypeOK, RegistrySteps, registryVars
  <1>3. \A n \in Node : RecordStep(n)
    <2>1. CASE RegistrySteps
      BY <2>1, RecordSteps DEF LeaseInv
    <2>2. CASE UNCHANGED registryVars
      BY <2>2 DEF registryVars, RecordStep
    <2> QED BY <2>1, <2>2
  <1>4. \A n \in Node : Live(n)' => node'[n].expire <= now' + TTL
    BY <1>1, <1>2, <1>3, LeaseBounded DEF LeaseInv
  <1>5. \A s \in Session, u \in Int : Covered(s, u) => Covered(s, u)'
    BY <1>1, <1>2, <1>3, CoveredKept, LeaseAssumption DEF LeaseInv
  <1> QED BY <1>1, <1>2, <1>4, <1>5

\* A process whose request and grant a step leaves alone keeps its promises.
LEMMA BystanderKept ==
    ASSUME LeaseInv, RegistrySteps \/ UNCHANGED registryVars, NEW s \in Session
    PROVE  /\ grant'[s] = grant[s] => Covered(s, grant[s].until)'
           /\ request'[s] = request[s] => Awaited(s)'
           /\ request'[s] = Idle => Awaited(s)'
  <1>1. /\ now' >= now /\ now \in Nat /\ now' \in Nat
        /\ \A u \in Int : Covered(s, u) => Covered(s, u)'
    BY PromisesKept
  <1>2. grant[s] \in Grants /\ request[s] \in Requests
    BY DEF LeaseInv, LeaseTypeOK
  <1>3. grant[s].until \in Int
    BY <1>2 DEF Grants
  <1>4. request[s] # Idle => request[s].start \in Nat
    BY <1>2 DEF Requests
  <1>5. request[s].pc = "answered" => request[s].start + request[s].remaining \in Int
    BY <1>2 DEF Requests, Idle
  <1>6. Covered(s, grant[s].until) /\ Awaited(s)
    BY DEF LeaseInv
  <1>7. grant'[s] = grant[s] => Covered(s, grant[s].until)'
    BY <1>1, <1>3, <1>6 DEF Covered
  <1>8. ASSUME request'[s] = request[s]
        PROVE  Awaited(s)'
    <2>1. request'[s] # Idle => request'[s].start <= now'
      BY <1>1, <1>4, <1>6, <1>8 DEF Awaited
    <2>2. ASSUME request'[s].pc = "answered"
          PROVE  Covered(s, request[s].start + request[s].remaining)'
      BY <1>1, <1>5, <1>6, <1>8, <2>2 DEF Awaited, Covered
    <2> QED BY <2>1, <2>2 DEF Awaited
  <1>9. request'[s] = Idle => Awaited(s)'
    BY DEF Awaited, Idle
  <1> QED BY <1>7, <1>8, <1>9

\* A step of one process keeps the invariant if it keeps that process' promises.
LEMMA ActorKeepsInv ==
    ASSUME LeaseInv, RegistrySteps \/ UNCHANGED registryVars, LeaseTypeOK',
           NEW s \in Session,
           \A t \in Session \ {s} : request'[t] = request[t] /\ grant'[t] = grant[t],
           Covered(s, grant[s].until)', Awaited(s)'
    PROVE  LeaseInv'
  <1>1. ASSUME NEW t \in Session
        PROVE  Covered(t, grant[t].until)' /\ Awaited(t)'
    BY BystanderKept
  <1> QED BY <1>1, PromisesKept DEF LeaseInv

\* What a process sends, and when, keeps its promises.
LEMMA SendingKeepsInv ==
    ASSUME LeaseInv, UNCHANGED registryVars, NEW s \in Session, NEW r \in Requests,
           request' = [request EXCEPT ![s] = r], grant' = grant,
           \A m \in late' : m.session \in Session,
           r = Idle \/ (r.pc = "sent" /\ r.start <= now)
    PROVE  LeaseInv'
  <1>1. LeaseTypeOK'
    BY DEF LeaseInv, LeaseTypeOK
  <1>2. request'[s] = r /\ \A t \in Session \ {s} : request'[t] = request[t]
    BY DEF LeaseInv, LeaseTypeOK
  <1>3. Covered(s, grant[s].until)'
    BY BystanderKept
  <1>4. Awaited(s)'
    <2>1. CASE r = Idle
      BY <1>2, <2>1, BystanderKept
    <2>2. CASE r.pc = "sent" /\ r.start <= now
      BY <1>2, <2>2 DEF Awaited, registryVars
    <2> QED BY <2>1, <2>2
  <1> QED BY <1>1, <1>2, <1>3, <1>4, ActorKeepsInv

LEMMA BeginKeepsInv ==
    ASSUME LeaseInv, NEW s \in Session, NEW op \in {"register", "renew", "replace"},
           Begin(s, op)
    PROVE  LeaseInv'
  <1> DEFINE r == [pc |-> "sent", op |-> op, start |-> now]
  <1>1. now \in Nat
    BY DEF LeaseInv, RegistryInv, RegistryTypeOK
  <1>2. r \in Requests /\ r.pc = "sent" /\ r.start <= now
    BY <1>1 DEF Requests
  <1>3. \A m \in late' : m.session \in Session
    BY DEF Begin, LeaseInv, LeaseTypeOK
  <1>4. request' = [request EXCEPT ![s] = r] /\ grant' = grant /\ UNCHANGED registryVars
    BY DEF Begin
  <1> HIDE DEF r
  <1> QED BY <1>2, <1>3, <1>4, SendingKeepsInv

\* The answer promises no more than the record of the session holds.
LEMMA RunKeepsInv ==
    ASSUME LeaseInv, NEW s \in Session, Run(s)
    PROVE  LeaseInv'
  <1> DEFINE n == NodeOf[s]
             r == [pc |-> "answered", op |-> request[s].op, start |-> request[s].start,
                   version |-> node'[n].version, remaining |-> Remaining(n)]
  <1>1. n \in Node
    BY LeaseAssumption
  <1>2. /\ node'[n].session = s /\ Live(n)' /\ now' = now
        /\ RegistrySteps \/ UNCHANGED registryVars
    BY SuccessGrants DEF Run, LeaseInv
  <1>3. RegistryInv' /\ now \in Nat /\ now' \in Nat /\ node'[n].expire <= now' + TTL
    BY <1>1, <1>2, PromisesKept
  <1>4. node'[n] \in NodeRecord
    BY <1>1, <1>2, <1>3 DEF RegistryInv, RegistryTypeOK, Live, Absent
  <1>5. node'[n].version \in Nat /\ node'[n].expire \in Nat
    BY <1>4 DEF NodeRecord
  <1>6. request[s] \in Requests /\ request[s].pc = "sent" /\ request[s] # Idle
    BY DEF Run, LeaseInv, LeaseTypeOK, Idle
  <1>7. /\ request[s].op \in {"register", "renew", "replace"}
        /\ request[s].start \in Nat /\ request[s].start <= now
    BY <1>6 DEF Requests, Idle, LeaseInv, Awaited
  <1>8. Remaining(n) = node'[n].expire - now /\ Remaining(n) \in Int
    BY <1>3, <1>5 DEF Remaining
  <1>9. request' = [request EXCEPT ![s] = r] /\ grant' = grant /\ late' = late
    BY DEF Run
  <1>10. r \in Requests
    BY <1>5, <1>7, <1>8 DEF Requests
  <1>11. r.pc = "answered" /\ r.start = request[s].start /\ r.remaining = Remaining(n)
    OBVIOUS
  <1> HIDE DEF r
  <1>12. LeaseTypeOK'
    BY <1>9, <1>10 DEF LeaseInv, LeaseTypeOK
  <1>13. request'[s] = r /\ \A t \in Session \ {s} : request'[t] = request[t]
    BY <1>9 DEF LeaseInv, LeaseTypeOK
  <1>14. request[s].start + Remaining(n) <= node'[n].expire
    BY <1>3, <1>5, <1>7, <1>8
  <1>15. /\ request[s].start + Remaining(n) \in Int
         /\ request[s].start + Remaining(n) <= now' + TTL
    BY <1>2, <1>3, <1>5, <1>7, <1>8, <1>14, RegistryAssumption
  <1>16. Awaited(s)'
    BY <1>2, <1>7, <1>11, <1>13, <1>14, <1>15 DEF Awaited, Covered
  <1>17. Covered(s, grant[s].until)'
    BY <1>2, <1>9, BystanderKept
  <1> QED BY <1>2, <1>9, <1>12, <1>13, <1>16, <1>17, ActorKeepsInv

\* The process makes the answer its grant.
LEMMA ReceiveKeepsInv ==
    ASSUME LeaseInv, NEW s \in Session, Receive(s)
    PROVE  LeaseInv'
  <1>1. request[s] \in Requests /\ request[s].pc = "answered"
    BY DEF Receive, LeaseInv, LeaseTypeOK
  <1>2. request[s].version \in Nat /\ request[s].start + request[s].remaining \in Int
    BY <1>1 DEF Requests, Idle
  <1>3. PICK u \in Int : u = request[s].start + request[s].remaining
    BY <1>2
  <1>4. PICK g \in Grants : g = [version |-> request[s].version, until |-> u]
    BY <1>2 DEF Grants
  <1>5. Covered(s, u)
    BY <1>1, <1>3 DEF LeaseInv, Awaited
  <1>6. /\ grant' = [grant EXCEPT ![s] = g] /\ request' = [request EXCEPT ![s] = Idle]
        /\ late' = late /\ UNCHANGED registryVars
    BY <1>3, <1>4 DEF Receive, GrantUntil
  <1>7. LeaseTypeOK'
    <2>1. Idle \in Requests
      BY DEF Requests
    <2> QED BY <1>6, <2>1 DEF LeaseInv, LeaseTypeOK
  <1>8. /\ grant'[s] = g /\ request'[s] = Idle
        /\ \A t \in Session \ {s} : request'[t] = request[t] /\ grant'[t] = grant[t]
    BY <1>6 DEF LeaseInv, LeaseTypeOK
  <1>9. Covered(s, u)'
    BY <1>5, <1>6, PromisesKept DEF Covered
  <1>10. Covered(s, grant[s].until)'
    BY <1>4, <1>8, <1>9 DEF Covered
  <1>11. Awaited(s)'
    BY <1>6, <1>8, BystanderKept
  <1> QED BY <1>6, <1>7, <1>8, <1>10, <1>11, ActorKeepsInv

\* Giving up, or sending again, keeps no promise that was not made.
LEMMA RetryKeepsInv ==
    ASSUME LeaseInv, NEW s \in Session, Resend(s) \/ Fail(s)
    PROVE  LeaseInv'
  <1>1. \A m \in late' : m.session \in Session
    BY DEF Resend, Fail, Abandoned, Script, LeaseInv, LeaseTypeOK
  <1>2. CASE Fail(s)
    BY <1>1, <1>2, SendingKeepsInv DEF Fail, Requests
  <1>3. CASE Resend(s)
    <2> DEFINE r == [pc |-> "sent", op |-> request[s].op, start |-> request[s].start]
    <2>1. request[s] \in Requests /\ request[s] # Idle
      BY <1>3 DEF Resend, LeaseInv, LeaseTypeOK
    <2>2. r \in Requests /\ r.start = request[s].start
      BY <2>1 DEF Requests
    <2>3. r.pc = "sent" /\ r.start <= now
      BY <2>1, <2>2 DEF LeaseInv, Awaited
    <2>4. request' = [request EXCEPT ![s] = r] /\ grant' = grant /\ UNCHANGED registryVars
      BY <1>3 DEF Resend
    <2> HIDE DEF r
    <2> QED BY <1>1, <2>2, <2>3, <2>4, SendingKeepsInv
  <1> QED BY <1>2, <1>3

LEMMA LeaveKeepsInv ==
    ASSUME LeaseInv, NEW s \in Session, Leave(s)
    PROVE  LeaseInv'
  <1> DEFINE n == NodeOf[s]
  <1>1. n \in Node /\ now \in Nat /\ now' = now
    BY LeaseAssumption DEF LeaseInv, RegistryInv, RegistryTypeOK, Leave, UnregisterNode, Remove
  <1>2. RegistrySteps
    BY <1>1 DEF Leave, RegistrySteps, RegistryNext
  <1>3. /\ grant'[s] \in {grant[s], NoGrant} /\ request' = request /\ late' = late
        /\ \A t \in Session \ {s} : grant'[t] = grant[t]
    BY DEF Leave, LeaseInv, LeaseTypeOK
  <1>4. LeaseTypeOK'
    BY DEF Leave, LeaseInv, LeaseTypeOK, Grants, NoGrant
  <1>5. node'[n] = Absent
    BY <1>1 DEF Leave, UnregisterNode, Remove, LeaseInv, RegistryInv, RegistryTypeOK
  <1>6. node'[n].session # s
    BY <1>5, EventsAssumption DEF Absent
  <1>7. grant'[s].until <= now' + TTL
    BY <1>1, <1>3, RegistryAssumption DEF NoGrant, LeaseInv, Covered
  <1>8. Covered(s, grant[s].until)'
    BY <1>6, <1>7 DEF Covered
  <1>9. Awaited(s)'
    BY <1>2, <1>3, BystanderKept
  <1> QED BY <1>2, <1>3, <1>4, <1>8, <1>9, ActorKeepsInv

\* Steps nobody waits for, and steps of others.
LEMMA ElsewhereKeepsInv ==
    ASSUME LeaseInv, RegistrySteps \/ UNCHANGED registryVars,
           UNCHANGED <<request, grant>>, late' \subseteq late
    PROVE  LeaseInv'
  <1>1. LeaseTypeOK'
    BY DEF LeaseInv, LeaseTypeOK
  <1>2. ASSUME NEW t \in Session
        PROVE  Covered(t, grant[t].until)' /\ Awaited(t)'
    BY BystanderKept
  <1> QED BY <1>1, <1>2, PromisesKept DEF LeaseInv

LEMMA LeaseInvNext == LeaseInv /\ [LeaseNext]_leaseVars => LeaseInv'
  <1> SUFFICES ASSUME LeaseInv, [LeaseNext]_leaseVars PROVE LeaseInv'
    OBVIOUS
  <1>1. ASSUME NEW m \in late, RunLate(m) \/ Drop(m)
        PROVE  LeaseInv'
    <2>1. m.session \in Session
      BY DEF LeaseInv, LeaseTypeOK
    <2>2. RegistrySteps \/ UNCHANGED registryVars
      BY <1>1, <2>1, SuccessGrants DEF RunLate, Drop, LeaseInv
    <2> QED BY <1>1, <2>2, ElsewhereKeepsInv DEF RunLate, Drop
  <1>2. CASE OthersStep
    <2>1. now \in Nat
      BY DEF LeaseInv, RegistryInv, RegistryTypeOK
    <2>2. RegistrySteps
      BY <1>2, <2>1
      DEF OthersStep, RegistrySteps, RegistryNext, Tick, DrainNode, MarkNodeInvalid,
          RestoreNode, ExpireNodeLease
    <2> QED BY <1>2, <2>2, ElsewhereKeepsInv DEF OthersStep, processVars
  <1>3. CASE UNCHANGED leaseVars
    BY <1>3, ElsewhereKeepsInv DEF leaseVars, processVars
  <1> QED
    BY <1>1, <1>2, <1>3, BeginKeepsInv, RunKeepsInv, ReceiveKeepsInv, RetryKeepsInv,
       LeaveKeepsInv
    DEF LeaseNext, ProcessStep

THEOREM LeaseInvariance == LeaseSpec => []LeaseInv
  BY LeaseInvInit, LeaseInvNext, PTL DEF LeaseSpec

\* Processes change the registry by its scripts alone, late ones and repeated ones
\* included, so whatever holds of the registry holds beside them.
THEOREM RegistryHoldsForProcesses ==
    LeaseSpec => /\ RegistrySpec
                 /\ []RegistryTypeOK /\ []LeaseIndexCoherent /\ OfflineIsFinal
  <1>1. LeaseInit => RegistryInit
    BY DEF LeaseInit
  <1>2. LeaseInv /\ [LeaseNext]_leaseVars => [RegistryNext]_registryVars
    <2> SUFFICES ASSUME LeaseInv, [LeaseNext]_leaseVars
                 PROVE  RegistryNext \/ UNCHANGED registryVars
      OBVIOUS
    <2>1. ASSUME NEW s \in Session, NEW op, Succeeds(NodeOf[s], s, op)
          PROVE  RegistryNext \/ UNCHANGED registryVars
      BY <2>1, SuccessGrants DEF LeaseInv, RegistrySteps
    <2>2. ASSUME NEW m \in late, RunLate(m)
          PROVE  RegistryNext \/ UNCHANGED registryVars
      BY <2>1, <2>2 DEF RunLate, LeaseInv, LeaseTypeOK
    <2>3. ASSUME NEW s \in Session, Leave(s)
          PROVE  RegistryNext
      BY <2>3, LeaseAssumption DEF Leave, RegistryNext
    <2>4. CASE OthersStep
      BY <2>4 DEF OthersStep, RegistryNext
    <2>5. ASSUME NEW s \in Session,
                 \/ \E op \in {"register", "renew", "replace"} : Begin(s, op)
                 \/ Receive(s) \/ Resend(s) \/ Fail(s)
          PROVE  UNCHANGED registryVars
      BY <2>5 DEF Begin, Receive, Resend, Fail
    <2>6. ASSUME NEW m \in late, Drop(m)
          PROVE  UNCHANGED registryVars
      BY <2>6 DEF Drop
    <2> QED BY <2>1, <2>2, <2>3, <2>4, <2>5, <2>6 DEF LeaseNext, ProcessStep, Run, leaseVars
  <1>3. LeaseSpec => RegistrySpec
    BY <1>1, <1>2, LeaseInvariance, PTL DEF LeaseSpec, RegistrySpec
  <1> QED
    BY <1>3, RegistryTypeCorrect, LeaseIndexCoherence, OfflineSessionsStayOffline, PTL

-----------------------------------------------------------------------------
\* A deadline that is covered and has not passed is backed by a lease.
LEMMA GrantedIsHealthy ==
    ASSUME LeaseInv, NEW s \in Session, Granted(s), node[NodeOf[s]].session = s
    PROVE  Healthy(NodeOf[s], s) /\ Live(NodeOf[s]) /\ lease[NodeOf[s]] > now
  <1> DEFINE n == NodeOf[s]
  <1>1. n \in Node /\ now \in Nat /\ grant[s].until \in Int
    BY LeaseAssumption DEF LeaseInv, LeaseTypeOK, Grants, RegistryInv, RegistryTypeOK
  <1>2. Covered(s, grant[s].until) /\ grant[s].until > now
    BY DEF LeaseInv, Granted
  <1>3. Live(n)
    BY <1>1, <1>2 DEF Covered
  <1>4. node[n].expire \in Nat
    BY <1>1, <1>3, RecordOfLive DEF LeaseInv, RegistryInv, NodeRecord
  <1>5. lease[n] = node[n].expire
    BY <1>1, <1>3 DEF LeaseInv, RegistryInv, LeaseIndexCoherent
  <1>6. lease[n] > now
    BY <1>1, <1>2, <1>3, <1>4, <1>5 DEF Covered
  <1> QED BY <1>3, <1>5, <1>6 DEF Healthy

\* The deadline a process computes is conservative, however late the answers and
\* however often the scripts run (GrantConservative).
THEOREM GrantsAreConservative == LeaseSpec => []GrantConservative
  <1>1. LeaseInv => GrantConservative
    BY GrantedIsHealthy DEF GrantConservative
  <1> QED BY <1>1, LeaseInvariance, PTL

\* A step that ends a live identity before its deadline announces a replacement or
\* a removal of that node.
LEMMA EarlyEndIsAnnounced ==
    ASSUME RegistryInv, RegistrySteps, NEW n \in Node, Live(n), lease[n] > now,
           ~(node'[n].session = node[n].session /\ Live(n)')
    PROVE  emitted' \in {NodeEvent("NodeReplaced", n), NodeEvent("NodeUnregistered", n)}
  <1> USE DEF RegistryInv, RegistryTypeOK
  <1>1. node'[n] # node[n]
    BY DEF Live
  <1>2. ASSUME NEW m \in Node, NEW r, node' = [node EXCEPT ![m] = r]
        PROVE  m = n /\ node'[n] = r
    BY <1>1, <1>2
  <1>3. node[n] \in NodeRecord /\ now \in Nat /\ Exists(n)
    BY RecordOfLive, EventsAssumption DEF Live, Exists, Absent
  <1>4. ASSUME NEW m \in Node, NEW s \in Session, RenewNode(m, s)
        PROVE  FALSE
    <2>1. m = n /\ node'[n] = Renewed(n)
      BY <1>2, <1>4 DEF RenewNode
    <2> QED BY <2>1 DEF Renewed, Live
  <1>5. ASSUME NEW m \in Node, DrainNode(m)
        PROVE  FALSE
    <2>1. m = n /\ node'[n] = [node[n] EXCEPT !.status = "draining"]
      BY <1>2, <1>5 DEF DrainNode
    <2> QED BY <1>3, <2>1 DEF NodeRecord, Live
  <1>6. ASSUME NEW m \in Node, ExpireNodeLease(m, lease[m], node[m])
        PROVE  FALSE
    <2>1. m = n
      BY <1>2, <1>6 DEF ExpireNodeLease
    <2>2. lease[n] <= now /\ lease[n] \in Nat
      BY <1>6, <2>1 DEF ExpireNodeLease, DueAsScanned
    <2> QED BY <1>3, <2>2
  <1>7. ASSUME NEW m \in Node, NEW s \in Session, NEW e, Install(m, s, e)
        PROVE  m = n /\ emitted' = NodeEvent(e, n)
    BY <1>2, <1>7 DEF Install
  <1>8. ASSUME NEW m \in Node, NEW s \in Session, RegisterNode(m, s)
        PROVE  FALSE
    BY <1>3, <1>7, <1>8 DEF RegisterNode
  <1>9. ASSUME NEW m \in Node, NEW s \in Session, ReplaceNodeSession(m, s)
        PROVE  emitted' = NodeEvent("NodeReplaced", n)
    BY <1>7, <1>9 DEF ReplaceNodeSession
  <1>10. ASSUME NEW m \in Node, NEW s \in Session, UnregisterNode(m, s)
         PROVE  emitted' = NodeEvent("NodeUnregistered", n)
    BY <1>2, <1>10 DEF UnregisterNode, Remove
  <1> QED
    BY <1>1, <1>4, <1>5, <1>6, <1>8, <1>9, <1>10
    DEF RegistrySteps, RegistryNext, Tick, StepBack, MarkNodeInvalid, RestoreNode

LEMMA StepsAreRegistrySteps ==
    ASSUME LeaseInv, [LeaseNext]_leaseVars
    PROVE  RegistrySteps \/ UNCHANGED registryVars
  <1> USE DEF LeaseInv, RegistryInv, RegistryTypeOK
  <1>1. ASSUME NEW s \in Session, Run(s)
        PROVE  RegistrySteps \/ UNCHANGED registryVars
    BY <1>1, SuccessGrants DEF Run
  <1>2. ASSUME NEW m \in late, RunLate(m)
        PROVE  RegistrySteps \/ UNCHANGED registryVars
    <2>1. m.session \in Session
      BY DEF LeaseTypeOK
    <2> QED BY <1>2, <2>1, SuccessGrants DEF RunLate
  <1>3. ASSUME NEW s \in Session, Leave(s)
        PROVE  RegistrySteps
    <2>1. NodeOf[s] \in Node /\ now' = now
      BY <1>3, LeaseAssumption DEF Leave, UnregisterNode, Remove
    <2> QED BY <1>3, <2>1 DEF Leave, RegistrySteps, RegistryNext
  <1>4. CASE OthersStep
    BY <1>4
    DEF OthersStep, RegistrySteps, RegistryNext, Tick, DrainNode, MarkNodeInvalid,
        RestoreNode, ExpireNodeLease
  <1> QED
    BY <1>1, <1>2, <1>3, <1>4
    DEF LeaseNext, ProcessStep, Begin, Receive, Resend, Fail, Drop, leaseVars

\* A process with a valid grant loses its node by a decision that is announced,
\* and never by the passing of time (GrantLostByDecision).
THEOREM GrantsEndByDecision == LeaseSpec => GrantLostByDecision
  <1> DEFINE Kept(s) ==
        LET n == NodeOf[s] IN
        (Granted(s) /\ node[n].session = s /\ Live(n) /\ ~(node'[n].session = s /\ Live(n)'))
          => emitted' \in {NodeEvent("NodeReplaced", n), NodeEvent("NodeUnregistered", n)}
  <1>1. ASSUME LeaseInv, [LeaseNext]_leaseVars, NEW s \in Session
        PROVE  Kept(s)
    <2> DEFINE n == NodeOf[s]
    <2> SUFFICES ASSUME Granted(s), node[n].session = s, Live(n),
                        ~(node'[n].session = s /\ Live(n)')
                 PROVE  emitted' \in {NodeEvent("NodeReplaced", n),
                                      NodeEvent("NodeUnregistered", n)}
      OBVIOUS
    <2>1. n \in Node /\ lease[n] > now
      BY <1>1, GrantedIsHealthy, LeaseAssumption
    <2>2. CASE RegistrySteps
      BY <1>1, <2>1, <2>2, EarlyEndIsAnnounced DEF LeaseInv
    <2>3. CASE UNCHANGED registryVars
      BY <2>3 DEF registryVars, Live
    <2> QED BY <1>1, <2>2, <2>3, StepsAreRegistrySteps
  <1>2. LeaseInv /\ [LeaseNext]_leaseVars => [\A s \in Session : Kept(s)]_leaseVars
    BY <1>1
  <1> QED BY <1>2, LeaseInvariance, PTL DEF LeaseSpec, GrantLostByDecision
-----------------------------------------------------------------------------
(* Scanners whose snapshots are of any age do to the registry what its own *)
(* atomic expiry could do, for any nodes, sessions, loops and batch size.  *)
(* The invariant only says what a loop carries: entries of nodes, at least *)
(* one as long as it has something to do with them.  The rest is done by   *)
(* the guard of the script, which compares the snapshot before it writes.  *)


Candidate == [node : Node, score : Nat]

Snapshot == [node : Node, score : Nat, record : NodeRecord \cup {Absent}]

CarriesNodes ==
    /\ phase \in [Scanner -> {"wait", "read", "expire", "stopped"}]
    /\ candidates \in [Scanner -> Seq(Candidate)]
    /\ snapshots \in [Scanner -> Seq(Snapshot)]
    /\ \A k \in Scanner : phase[k] = "expire" => snapshots[k] # <<>>

ScannerInv == RegistryInv /\ CarriesNodes

-----------------------------------------------------------------------------
(* What a step of a loop is to the registry.                               *)

\* An entry the script accepts is the registry's own, so its expiry is the one
\* the registry could have done by itself.
LEMMA ExpireIsAtomic ==
    ASSUME NEW k \in Scanner, ScannerInv, Expire(k)
    PROVE  [RegistryNext]_registryVars
  <1> DEFINE s == Head(snapshots[k])
  <1>1. s \in Snapshot
    BY DEF ScannerInv, CarriesNodes, Expire
  <1>2. s.node \in Node
    BY <1>1 DEF Snapshot
  <1>3. CASE ExpireNodeLease(s.node, s.score, s.record)
    <2>1. s.score = lease[s.node] /\ s.record = node[s.node]
      BY <1>3 DEF ExpireNodeLease, DueAsScanned
    <2>2. ExpireNodeLease(s.node, lease[s.node], node[s.node])
      BY <1>3, <2>1
    <2> QED BY <1>2, <2>2 DEF RegistryNext
  <1>4. CASE UNCHANGED registryVars
    BY <1>4
  <1> QED BY <1>3, <1>4 DEF Expire

\* Every other step of a loop leaves the registry alone.
LEMMA StepIsRegistryStep ==
    ASSUME ScannerInv, [ScannerNext]_scanVars
    PROVE  [RegistryNext]_registryVars
  <1>1. CASE OtherStep
    BY <1>1 DEF OtherStep, RegistryNext
  <1>2. ASSUME NEW k \in Scanner, ScanStep(k) \/ Stop(k)
        PROVE  [RegistryNext]_registryVars
    BY <1>2, ExpireIsAtomic DEF ScanStep, RangeByScore, Read, Stop
  <1>3. CASE UNCHANGED scanVars
    BY <1>3 DEF scanVars
  <1> QED BY <1>1, <1>2, <1>3 DEF ScannerNext

-----------------------------------------------------------------------------
(* What the loops carry.                                                   *)

LEMMA RangeCarries ==
    ASSUME NEW k \in Scanner, ScannerInv, RangeByScore(k)
    PROVE  CarriesNodes'
  <1>1. PICK len \in 1 .. batchSize :
          \E q \in [1 .. len -> {[node |-> n, score |-> lease[n]] : n \in Node}] :
            candidates' = [candidates EXCEPT ![k] = q]
    BY DEF RangeByScore
  <1>2. PICK q \in [1 .. len -> {[node |-> n, score |-> lease[n]] : n \in Node}] :
          candidates' = [candidates EXCEPT ![k] = q]
    BY <1>1
  <1>3. \A n \in Node : [node |-> n, score |-> lease[n]] \in Candidate
    BY DEF ScannerInv, RegistryInv, RegistryTypeOK, Candidate
  <1>4. q \in [1 .. len -> Candidate]
    BY <1>2, <1>3
  <1>5. q \in Seq(Candidate)
    BY <1>4, ScannerAssumption
  <1> QED BY <1>2, <1>5 DEF ScannerInv, CarriesNodes, RangeByScore

LEMMA ReadCarries ==
    ASSUME NEW k \in Scanner, ScannerInv, Read(k)
    PROVE  CarriesNodes'
  <1> DEFINE c == Head(candidates[k])
             s == [node |-> c.node, score |-> c.score, record |-> node[c.node]]
  <1>1. c \in Candidate
    BY DEF ScannerInv, CarriesNodes, Read
  <1>2. s \in Snapshot
    BY <1>1 DEF Candidate, Snapshot, ScannerInv, RegistryInv, RegistryTypeOK
  <1>3. snapshots[k] \in Seq(Snapshot) /\ candidates[k] \in Seq(Candidate)
    BY DEF ScannerInv, CarriesNodes
  <1>4. Append(snapshots[k], s) \in Seq(Snapshot) /\ Append(snapshots[k], s) # <<>>
    BY <1>2, <1>3
  <1>5. Tail(candidates[k]) \in Seq(Candidate)
    BY <1>3 DEF Read
  <1>6. /\ snapshots' = [snapshots EXCEPT ![k] = Append(@, s)]
        /\ candidates' = [candidates EXCEPT ![k] = Tail(@)]
    BY DEF Read
  <1> QED BY <1>4, <1>5, <1>6 DEF ScannerInv, CarriesNodes, Read

LEMMA ExpireCarries ==
    ASSUME NEW k \in Scanner, ScannerInv, Expire(k)
    PROVE  CarriesNodes'
  <1>1. snapshots[k] \in Seq(Snapshot) /\ snapshots[k] # <<>>
    BY DEF ScannerInv, CarriesNodes, Expire
  <1>2. Tail(snapshots[k]) \in Seq(Snapshot)
    BY <1>1
  <1>3. Len(snapshots[k]) # 1 => Tail(snapshots[k]) # <<>>
    <2>1. Len(snapshots[k]) \in Nat \ {0}
      BY <1>1, EmptySeq
    <2>2. Len(Tail(snapshots[k])) = Len(snapshots[k]) - 1
      BY <1>1, HeadTailProperties
    <2>3. Len(snapshots[k]) # 1 => Len(Tail(snapshots[k])) # 0
      BY <2>1, <2>2
    <2>4. Len(<<>>) = 0
      OBVIOUS
    <2> QED BY <2>3, <2>4, Zenon
  <1>4. /\ snapshots' = [snapshots EXCEPT ![k] = Tail(@)]
        /\ phase' = [phase EXCEPT ![k] = IF Len(snapshots[k]) = 1 THEN "wait" ELSE "expire"]
        /\ UNCHANGED candidates
    BY DEF Expire
  <1> QED BY <1>2, <1>3, <1>4 DEF ScannerInv, CarriesNodes

LEMMA ScannerInvInit == ScannerInit => ScannerInv
  BY RegistryInvInit DEF ScannerInit, ScannerInv, CarriesNodes

LEMMA ScannerInvNext == ScannerInv /\ [ScannerNext]_scanVars => ScannerInv'
  <1> SUFFICES ASSUME ScannerInv, [ScannerNext]_scanVars
               PROVE  ScannerInv'
    OBVIOUS
  <1>1. RegistryInv'
    BY StepIsRegistryStep, RegistryInvNext DEF ScannerInv
  <1>2. ASSUME UNCHANGED scannerVars
        PROVE  CarriesNodes'
    BY <1>2 DEF scannerVars, ScannerInv, CarriesNodes
  <1>3. ASSUME NEW k \in Scanner, Stop(k)
        PROVE  CarriesNodes'
    BY <1>3 DEF Stop, ScannerInv, CarriesNodes
  <1>4. CarriesNodes'
    BY <1>2, <1>3, RangeCarries, ReadCarries, ExpireCarries
    DEF ScannerNext, ScanStep, OtherStep, scanVars, ScannerInv, CarriesNodes, scannerVars
  <1> QED BY <1>1, <1>4 DEF ScannerInv

THEOREM ScannerInvariance == ScannerSpec => []ScannerInv
  BY ScannerInvInit, ScannerInvNext, PTL DEF ScannerSpec

-----------------------------------------------------------------------------
\* However many scanners work with however old snapshots (node_lease.go), the
\* registry they share behaves as if each expiry were one atomic step.
THEOREM ScannersAreAtomic == ScannerSpec => ScansAreAtomic
  <1>1. ScannerInit => RegistryInit
    BY DEF ScannerInit
  <1>2. ScannerInv /\ [ScannerNext]_scanVars => [RegistryNext]_registryVars
    BY StepIsRegistryStep
  <1> QED BY <1>1, <1>2, ScannerInvariance, PTL
          DEF ScannerSpec, ScansAreAtomic, RegistrySpec

-----------------------------------------------------------------------------
\* The registry declares a session offline only after the deadline that is in
\* force at that moment.
DueOnly(n) ==
    (Live(n) /\ node'[n].status = "offline" /\ node'[n].session = node[n].session)
      => node[n].expire <= now /\ lease[n] <= now

LEMMA OnlyDueGoOffline ==
    ASSUME RegistryInv, [RegistryNext]_registryVars, NEW n \in Node
    PROVE  DueOnly(n)
  <1> USE DEF RegistryInv, RegistryTypeOK
  <1>1. ASSUME node'[n] = node[n]
        PROVE  DueOnly(n)
    BY <1>1 DEF DueOnly, Live
  <1>2. ASSUME NEW m \in Node, m # n, NEW r, node' = [node EXCEPT ![m] = r]
        PROVE  DueOnly(n)
    BY <1>1, <1>2
  <1>3. ASSUME NEW r, node' = [node EXCEPT ![n] = r], r.status # "offline"
        PROVE  DueOnly(n)
    BY <1>3 DEF DueOnly
  <1>4. ASSUME NEW s \in Session, NEW e, Install(n, s, e)
        PROVE  DueOnly(n)
    <2>1. node' = [node EXCEPT ![n] = Fresh(s)] /\ Fresh(s).status # "offline"
      BY <1>4 DEF Install, Fresh
    <2> QED BY <1>3, <2>1
  <1>5. ASSUME NEW s \in Session, RenewNode(n, s)
        PROVE  DueOnly(n)
    <2>1. node' = [node EXCEPT ![n] = Renewed(n)] /\ Renewed(n).status # "offline"
      BY <1>5 DEF RenewNode, Renewed, Live
    <2> QED BY <1>3, <2>1
  <1>6. ASSUME NEW s \in Session, Remove(n, s)
        PROVE  DueOnly(n)
    <2>1. node' = [node EXCEPT ![n] = Absent] /\ Absent.status # "offline"
      BY <1>6 DEF Remove, Absent
    <2> QED BY <1>3, <2>1
  <1>7. ASSUME DrainNode(n)
        PROVE  DueOnly(n)
    <2>1. node[n] \in NodeRecord
      BY <1>7, RecordOfLive DEF DrainNode
    <2>2. node'[n].status = "draining"
      BY <1>7, <2>1 DEF DrainNode, NodeRecord
    <2> QED BY <2>2 DEF DueOnly
  <1>8. ASSUME ExpireNodeLease(n, lease[n], node[n])
        PROVE  DueOnly(n)
    BY <1>8 DEF ExpireNodeLease, DueAsScanned, DueOnly
  <1> QED
    BY <1>1, <1>2, <1>4, <1>5, <1>6, <1>7, <1>8
    DEF RegistryNext, registryVars, Tick, StepBack, RegisterNode, RenewNode,
        ReplaceNodeSession, UnregisterNode, Remove, Install, DrainNode,
        MarkNodeInvalid, RestoreNode, ExpireNodeLease

\* A renewal between a scan and its script is never overridden (the comparisons
\* of expire_node.lua), whatever the batch size and the number of loops.
THEOREM RenewalsWin == ScannerSpec => RenewalWins
  <1>1. ASSUME ScannerInv, [ScannerNext]_scanVars
        PROVE  \A n \in Node : DueOnly(n)
    BY <1>1, StepIsRegistryStep, OnlyDueGoOffline DEF ScannerInv
  <1>2. ScannerInv /\ [ScannerNext]_scanVars
          => [\A n \in Node :
                (Live(n) /\ node'[n].status = "offline" /\ node'[n].session = node[n].session)
                  => node[n].expire <= now /\ lease[n] <= now]_scanVars
    BY <1>1 DEF DueOnly
  <1> QED BY <1>2, ScannerInvariance, PTL DEF ScannerSpec, RenewalWins
=============================================================================
