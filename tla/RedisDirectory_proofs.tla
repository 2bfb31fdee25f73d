------------------------ MODULE RedisDirectory_proofs ------------------------
(***************************************************************************)
(* Clients that GET a placement and EVAL a script later, for any number of *)
(* clients, operations, rounds and identifiers.  What a script that writes *)
(* may do to its grain is one of three things (WritesEffect): create its   *)
(* first placement, pass the lifetime on, or end it.  From this and what a *)
(* call carries (ClientTypeOK) follow the invariants: the directory stays  *)
(* coherent (CoherentInv), an identifier belongs to one grain and, with    *)
(* the version, to one owner (Lineage), what a mutation replaced is gone   *)
(* for good (Gone), and no deadline passes the lease it came from          *)
(* (Backed).  ResendOps is arbitrary: Lineage and Gone say nothing of the  *)
(* versions of an identifier whose creation ran again (reused).            *)
(***************************************************************************)
EXTENDS RedisDirectory, PlacementDirectory_proofs

Placements == PlacementRecord \cup {NoPlacement}

\* A script with its arguments.
Evals == {k \in [pc : {"eval"}, op : Ops, grain : Grain, group : Group \cup {""},
                 target : Node \cup {NoNode}, cmd : Placements,
                 id : PlacementID \cup {NoID}, raw : Placements, start : Nat,
                 attempt : Nat, resent : BOOLEAN] :
             /\ k.op \in {"allocate", "resolve"} => k.group \in Group
             /\ k.op \in {"transfer", "recover"} => k.target \in Node
             /\ k.resent => k.op \in ResendOps
             /\ k.id # NoID => k.resent}

\* Its answer, and the script once more where go-redis may repeat it.
Answers == {k \in [pc : {"answered"}, op : Ops, grain : Grain, start : Nat,
                   p : Placements, remaining : Int, again : Evals \cup {Idle}] :
             /\ k.op # "release" => k.p \in PlacementRecord
             /\ k.again # Idle => /\ k.again.resent
                                 /\ k.again.op = k.op /\ k.again.grain = k.grain}

Rereads == [pc : {"reread"}, grain : Grain, group : Group, attempt : Nat]

ClientTypeOK ==
    /\ call \in [Client -> {Idle} \cup Evals \cup Answers \cup Rereads]
    /\ held \in [Client -> {Nothing} \cup [grain : Grain, p : PlacementRecord, until : Int]]
    /\ reused \subseteq PlacementID

CoherentInv == DirectoryInv /\ ClientTypeOK

-----------------------------------------------------------------------------
(* What a script does to the grain it writes.                              *)

\* The first placement of a lifetime, under identifier id.
Created(g, id) ==
    /\ placement[g] = NoPlacement /\ id \in PlacementID
    /\ spent' = spent \cup {id}
    /\ \E n \in Node :
         /\ Healthy(n, node[n].session)
         /\ placement' = [placement EXCEPT ![g] = [id |-> id, node |-> n,
                                                   session |-> node[n].session,
                                                   version |-> 1]]

\* The same lifetime, one version later, under an owner that serves.
Succeeded(g) ==
    /\ placement[g] # NoPlacement
    /\ spent' = spent
    /\ \E n \in Node :
         /\ Healthy(n, node[n].session)
         /\ placement' = [placement EXCEPT ![g] = Succession(placement[g], n, node[n].session)]

Ended(g) ==
    /\ placement[g] # NoPlacement
    /\ spent' = spent
    /\ placement' = [placement EXCEPT ![g] = NoPlacement]

LEMMA CreateEffect ==
    ASSUME DirectoryInv, NEW g \in Grain, NEW group, NEW id, placement[g] = NoPlacement,
           Create(g, group, id), id \in PlacementID \cup {NoID}
    PROVE  Created(g, id) /\ DirectoryInv' /\ UNCHANGED <<now, node, members, lease, invalid>>
  <1>1. PICK n \in Candidates(group) :
          Store(g, NoPlacement, [id |-> id, node |-> n, session |-> node[n].session,
                                 version |-> 1])
    BY DEF Create
  <1>2. n \in Node /\ Healthy(n, node[n].session)
    BY CandidateIsLive DEF DirectoryInv, Schedulable, Live, Healthy
  <1>3. id \in PlacementID /\ spent' = spent \cup {id}
    BY DEF Create
  <1>4. Created(g, id)
    BY <1>1, <1>2, <1>3 DEF Created, Store
  <1> QED BY <1>4, CreateKeepsInv DEF Create, Placed

LEMMA RefreshEffect ==
    ASSUME DirectoryInv, NEW g \in Grain, NEW group, RefreshSession(g, group, placement[g])
    PROVE  Succeeded(g) /\ DirectoryInv' /\ UNCHANGED <<now, node, members, lease, invalid>>
  <1>1. placement[g].node \in Node
    BY StoredRecord DEF DirectoryInv, RefreshSession, PlacementRecord
  <1>2. Succeeded(g)
    BY <1>1 DEF RefreshSession, Succeeded, OwnerUsable
  <1> QED BY <1>2, RefreshKeepsInv DEF RefreshSession

LEMMA MoveEffect ==
    ASSUME DirectoryInv, NEW g \in Grain, NEW group, MoveFromInvalid(g, group, placement[g])
    PROVE  Succeeded(g) /\ DirectoryInv' /\ UNCHANGED <<now, node, members, lease, invalid>>
  <1>1. PICK n \in Candidates(group) :
          Store(g, placement[g], Succession(placement[g], n, node[n].session))
    BY DEF MoveFromInvalid
  <1>2. n \in Node /\ Healthy(n, node[n].session)
    BY CandidateIsLive DEF DirectoryInv, Schedulable, Live, Healthy
  <1>3. Succeeded(g)
    BY <1>1, <1>2 DEF Succeeded, Store, MoveFromInvalid
  <1> QED BY <1>3, MoveKeepsInv DEF MoveFromInvalid

LEMMA ReassignEffect ==
    ASSUME DirectoryInv, NEW g \in Grain, NEW target \in Node, NEW event,
           placement[g] # NoPlacement, Reassign(g, placement[g], target, event)
    PROVE  Succeeded(g) /\ DirectoryInv' /\ UNCHANGED <<now, node, members, lease, invalid>>
  <1>1. Healthy(target, node[target].session)
    BY DEF Reassign, Schedulable, Live, Healthy
  <1>2. Succeeded(g)
    BY <1>1 DEF Succeeded, Store, Reassign
  <1> QED BY <1>2, ReassignKeepsInv DEF Reassign

LEMMA ReleaseEffect ==
    ASSUME DirectoryInv, NEW g \in Grain, NEW cmd, Release(g, placement[g], cmd)
    PROVE  Ended(g) /\ DirectoryInv' /\ UNCHANGED <<now, node, members, lease, invalid>>
  BY ReleaseKeepsInv DEF Release, Addressed, Ended

\* All that a script of a call may write.
WritesEffect(k, id) ==
    \/ k.op \in {"allocate", "resolve"} /\ Created(k.grain, id)
    \/ k.op \in {"resolve", "transfer", "recover"} /\ k.raw = placement[k.grain]
         /\ Succeeded(k.grain)
    \/ k.op = "release" /\ k.raw = placement[k.grain] /\ Ended(k.grain)

LEMMA ScriptsWrite ==
    ASSUME DirectoryInv, NEW k \in Evals, NEW id \in PlacementID \cup {NoID}, Writes(k, id)
    PROVE  /\ WritesEffect(k, id)
           /\ DirectoryInv'
           /\ UNCHANGED <<now, node, members, lease, invalid>>
  <1>1. k.grain \in Grain
    BY DEF Evals
  <1>2. CASE k.op = "allocate" /\ Allocate(k.grain, k.group, id)
    BY <1>1, <1>2, CreateEffect DEF Allocate, Placed, WritesEffect
  <1>3. CASE k.op = "resolve" /\ ResolveRoute(k.grain, k.group, id, k.raw)
    <2>1. CASE placement[k.grain] = k.raw /\ k.raw = NoPlacement
               /\ Create(k.grain, k.group, id)
      BY <1>1, <1>3, <2>1, CreateEffect DEF WritesEffect
    <2>2. CASE RefreshSession(k.grain, k.group, k.raw)
      <3>1. k.raw = placement[k.grain]
        BY <2>2 DEF RefreshSession
      <3> QED BY <1>1, <1>3, <2>2, <3>1, RefreshEffect DEF WritesEffect
    <2>3. CASE MoveFromInvalid(k.grain, k.group, k.raw)
      <3>1. k.raw = placement[k.grain]
        BY <2>3 DEF MoveFromInvalid
      <3> QED BY <1>1, <1>3, <2>3, <3>1, MoveEffect DEF WritesEffect
    <2> QED BY <1>3, <2>1, <2>2, <2>3 DEF ResolveRoute
  <1>4. CASE k.op = "release" /\ Release(k.grain, k.raw, k.cmd)
    <2>1. k.raw = placement[k.grain]
      BY <1>4 DEF Release, Addressed
    <2> QED BY <1>1, <1>4, <2>1, ReleaseEffect DEF WritesEffect
  <1>5. ASSUME k.op \in {"transfer", "recover"}, NEW event,
               Addressed(k.grain, k.raw, k.cmd),
               Reassign(k.grain, k.raw, k.target, event)
        PROVE  /\ WritesEffect(k, id)
               /\ DirectoryInv'
               /\ UNCHANGED <<now, node, members, lease, invalid>>
    <2>1. k.raw = placement[k.grain] /\ placement[k.grain] # NoPlacement /\ k.target \in Node
      BY <1>5 DEF Addressed, Evals
    <2> QED BY <1>1, <1>5, <2>1, ReassignEffect DEF WritesEffect
  <1>6. CASE k.op = "transfer" /\ Transfer(k.grain, k.raw, k.cmd, k.cmd.node, k.target)
    BY <1>5, <1>6 DEF Transfer
  <1>7. CASE k.op = "recover" /\ Recover(k.grain, k.raw, k.cmd, k.target)
    BY <1>5, <1>7 DEF Recover
  <1> QED BY <1>2, <1>3, <1>4, <1>6, <1>7 DEF Writes

-----------------------------------------------------------------------------
(* The shape of a client's step.                                           *)

\* A GET: the call holds its snapshot and the script has not been sent.
Started(c) ==
    \E k \in Evals : /\ call' = [call EXCEPT ![c] = k]
                     /\ ~k.resent /\ k.id = NoID /\ k.start = now
                     /\ UNCHANGED <<storedVars, held>>

\* A call that ends, or begins again, without an answer.
Dropped(c) ==
    \E k \in {Idle} \cup Rereads : /\ call' = [call EXCEPT ![c] = k]
                                   /\ UNCHANGED <<storedVars, held>>

LEMMA Phases ==
    /\ Idle.pc = "idle"
    /\ \A k \in Evals : k.pc = "eval"
    /\ \A k \in Answers : k.pc = "answered"
    /\ \A k \in Rereads : k.pc = "reread"
  <1>1. Idle.pc = "idle"
    BY DEF Idle
  <1>2. \A k \in Evals : k.pc = "eval"
    BY DEF Evals
  <1>3. \A k \in Answers : k.pc = "answered"
    BY DEF Answers
  <1>4. \A k \in Rereads : k.pc = "reread"
    BY DEF Rereads
  <1> QED BY <1>1, <1>2, <1>3, <1>4

\* The phase of a call tells what it carries.
LEMMA CallPhase ==
    ASSUME CoherentInv, NEW c \in Client
    PROVE  /\ call[c].pc = "eval" <=> call[c] \in Evals
           /\ call[c].pc = "answered" <=> call[c] \in Answers
           /\ call[c].pc = "reread" <=> call[c] \in Rereads
           /\ call[c].pc \in {"eval", "answered", "reread"} <=> call[c] # Idle
  BY Phases DEF CoherentInv, ClientTypeOK

LEMMA SnapshotStarts ==
    ASSUME CoherentInv, NEW c \in Client, NEW op, NEW g \in Grain, NEW group \in Group \cup {""},
           NEW target \in Node \cup {NoNode}, NEW cmd \in Placements, NEW attempt \in Nat,
           op \in {"allocate", "resolve"} => group \in Group,
           op \in {"transfer", "recover"} => target \in Node,
           Snapshot(c, op, g, group, target, cmd, attempt)
    PROVE  Started(c)
  <1> DEFINE k == [pc |-> "eval", op |-> op, grain |-> g, group |-> group,
                   target |-> target, cmd |-> cmd, id |-> NoID,
                   raw |-> placement[g], start |-> now,
                   attempt |-> attempt, resent |-> FALSE]
  <1>1. op \in Ops
    BY ClientAssumption DEF Snapshot
  <1>2. placement[g] \in Placements /\ now \in Nat
    BY DEF CoherentInv, DirectoryInv, RegistryInv, RegistryTypeOK, PlacementTypeOK, Placements
  <1>3. k \in Evals
    BY <1>1, <1>2 DEF Evals
  <1> QED BY <1>3 DEF Snapshot, Started

LEMMA ClientStepShape ==
    ASSUME CoherentInv, NEW c \in Client, ClientStep(c)
    PROVE  Started(c) \/ Dropped(c) \/ Eval(c) \/ Resend(c) \/ Receive(c)
  <1>1. /\ call[c] \in {Idle} \cup Evals \cup Answers \cup Rereads
        /\ held[c] \in {Nothing} \cup [grain : Grain, p : PlacementRecord, until : Int]
    BY DEF CoherentInv, ClientTypeOK
  <1>2. NoPlacement \in Placements
    BY DEF Placements
  <1>3. ASSUME NEW g \in Grain, StartLookup(c, g)
        PROVE  Started(c)
    BY <1>2, <1>3, SnapshotStarts DEF StartLookup
  <1>4. ASSUME NEW g \in Grain, NEW group \in Group,
               StartAllocate(c, g, group) \/ StartResolve(c, g, group)
        PROVE  Started(c)
    BY <1>2, <1>4, SnapshotStarts DEF StartAllocate, StartResolve
  <1>5. ASSUME NEW op, NEW target \in Node \cup {NoNode}, StartMutate(c, op, target),
               op = "release" \/ (op \in {"transfer", "recover"} /\ target \in Node)
        PROVE  Started(c)
    <2>1. held[c].grain \in Grain /\ held[c].p \in Placements
      BY <1>1, <1>5 DEF StartMutate, Placements
    <2> QED BY <1>5, <2>1, SnapshotStarts DEF StartMutate
  <1>6. CASE Reread(c)
    <2>1. call[c] \in Rereads
      BY <1>6, CallPhase DEF Reread
    <2> QED BY <1>2, <1>6, <2>1, SnapshotStarts DEF Reread, Rereads
  <1>7. CASE Conflict(c)
    <2>1. call[c] \in Evals /\ call[c].op = "resolve"
      BY <1>7, CallPhase DEF Conflict
    <2>2. call[c].grain \in Grain /\ call[c].group \in Group /\ call[c].attempt \in Nat
      BY <2>1 DEF Evals
    <2>3. [pc |-> "reread", grain |-> call[c].grain, group |-> call[c].group,
           attempt |-> call[c].attempt + 1] \in Rereads
      BY <2>2 DEF Rereads
    <2> QED BY <1>7, <2>3 DEF Conflict, Dropped
  <1>8. CASE Fail(c)
    BY <1>8 DEF Fail, Dropped
  <1> QED BY <1>3, <1>4, <1>5, <1>6, <1>7, <1>8 DEF ClientStep

\* What an EVAL that gets as far as its answer does.
LEMMA EvalShape ==
    ASSUME CoherentInv, NEW c \in Client, Eval(c)
    PROVE  /\ call[c] \in Evals
           /\ DirectoryInv'
           /\ UNCHANGED <<now, node, members, lease, invalid, held>>
           /\ \E id \in PlacementID \cup {NoID} :
                /\ Answered(c, call[c], id)
                /\ \/ id \in IDs(call[c]) /\ Writes(call[c], id) /\ WritesEffect(call[c], id)
                   \/ id = call[c].id /\ Reports(call[c])
  <1> DEFINE k == call[c]
  <1>1. k \in Evals
    BY CallPhase DEF Eval
  <1>2. IDs(k) \subseteq PlacementID \cup {NoID} /\ k.id \in PlacementID \cup {NoID}
    BY <1>1 DEF IDs, FreshIDs, Evals
  <1>3. ASSUME NEW id \in IDs(k), Writes(k, id), Answered(c, k, id)
        PROVE  /\ WritesEffect(k, id)
               /\ DirectoryInv'
               /\ UNCHANGED <<now, node, members, lease, invalid>>
    BY <1>1, <1>2, <1>3, ScriptsWrite DEF CoherentInv
  <1>4. ASSUME Reports(k)
        PROVE  DirectoryInv' /\ UNCHANGED <<now, node, members, lease, invalid>>
    <2>1. UNCHANGED directoryVars
      BY <1>4 DEF Reports
    <2>2. RegistryInv'
      BY <2>1, OtherKeepsInv
      DEF CoherentInv, DirectoryInv, RegistryInv, RegistryTypeOK, directoryVars, registryVars
    <2> QED BY <2>1, <2>2, RegistryStepKeepsInv
        DEF CoherentInv, directoryVars, registryVars
  <1> QED BY <1>1, <1>2, <1>3, <1>4 DEF Eval

\* The answer carries what is stored after the script.
AnswerOf(k, id, start) ==
    LET p == placement'[k.grain] IN
    [pc |-> "answered", op |-> k.op, grain |-> k.grain, start |-> start, p |-> p,
     remaining |-> IF p = NoPlacement THEN 0 ELSE lease[p.node] - now,
     again |-> IF k.op \in ResendOps THEN Again(k, id, start) ELSE Idle]

LEMMA AnswerRecord ==
    ASSUME CoherentInv, DirectoryInv', NEW k \in Evals, k.op # "release",
           NEW id, WritesEffect(k, id) \/ Reports(k)
    PROVE  placement'[k.grain] \in PlacementRecord
  <1>1. /\ placement \in [Grain -> Placements] /\ placement' \in [Grain -> Placements]
        /\ k.grain \in Grain
    BY DEF CoherentInv, DirectoryInv, PlacementTypeOK, Placements, Evals
  <1>2. CASE Reports(k)
    BY <1>1, <1>2 DEF Reports, Placed, Placements, directoryVars, placementVars
  <1>3. CASE Created(k.grain, id)
    <2>1. PICK n \in Node :
            placement'[k.grain] = [id |-> id, node |-> n, session |-> node[n].session,
                                   version |-> 1]
      BY <1>1, <1>3 DEF Created
    <2>2. placement'[k.grain] # NoPlacement
      BY <1>3, <2>1, EventsAssumption DEF Created, NoPlacement
    <2> QED BY <1>1, <2>2 DEF Placements
  <1>4. CASE Succeeded(k.grain)
    <2>1. PICK n \in Node :
            placement'[k.grain] = Succession(placement[k.grain], n, node[n].session)
      BY <1>1, <1>4 DEF Succeeded
    <2>2. placement'[k.grain] # NoPlacement
      BY <2>1, EventsAssumption DEF NoPlacement, Succession
    <2> QED BY <1>1, <2>2 DEF Placements
  <1> QED BY <1>2, <1>3, <1>4 DEF WritesEffect

LEMMA AnswerTyped ==
    ASSUME CoherentInv, DirectoryInv', NEW k \in Evals, NEW id \in PlacementID \cup {NoID},
           WritesEffect(k, id) \/ Reports(k), NEW start \in RequestStart(k)
    PROVE  AnswerOf(k, id, start) \in Answers /\ start \in Nat
  <1>1. k.grain \in Grain /\ k.op \in Ops /\ k.start \in Nat
    BY DEF Evals
  <1>2. now \in Nat /\ lease \in [Node -> Nat]
    BY DEF CoherentInv, DirectoryInv, RegistryInv, RegistryTypeOK
  <1>3. start \in Nat
    BY <1>1, <1>2 DEF RequestStart
  <1>4. placement'[k.grain] \in Placements
    BY <1>1 DEF DirectoryInv, PlacementTypeOK, Placements
  <1>5. ASSUME NEW p \in Placements
        PROVE  (IF p = NoPlacement THEN 0 ELSE lease[p.node] - now) \in Int
    BY <1>2 DEF Placements, PlacementRecord
  <1>6. ASSUME k.op \in ResendOps
        PROVE  Again(k, id, start) \in Evals
    BY <1>3, <1>6 DEF Again, Evals
  <1>7. ASSUME NEW r \in Evals \cup {Idle}, NEW p \in Placements, NEW left \in Int,
               r # Idle => r.resent /\ r.op = k.op /\ r.grain = k.grain,
               k.op # "release" => p \in PlacementRecord
        PROVE  [pc |-> "answered", op |-> k.op, grain |-> k.grain, start |-> start, p |-> p,
                remaining |-> left, again |-> r] \in Answers
    BY <1>1, <1>3, <1>7 DEF Answers
  <1>8. CASE k.op \in ResendOps
    <2>1. PICK r : r = Again(k, id, start)
      OBVIOUS
    <2>2. r.resent /\ r.op = k.op /\ r.grain = k.grain
      BY <2>1 DEF Again, Evals
    <2> QED BY <1>3, <1>4, <1>5, <1>6, <1>7, <1>8, <2>1, <2>2, AnswerRecord DEF AnswerOf
  <1>9. CASE k.op \notin ResendOps
    BY <1>3, <1>4, <1>5, <1>7, <1>9, AnswerRecord DEF AnswerOf
  <1> QED BY <1>8, <1>9

\* The script of a resent call is the one the answer kept; a received one
\* leaves what it was told.
LEMMA ReceiveShape ==
    ASSUME CoherentInv, NEW c \in Client, Receive(c)
    PROVE  /\ call[c] \in Answers
           /\ call' = [call EXCEPT ![c] = Idle]
           /\ UNCHANGED storedVars
           /\ \/ held' = held
              \/ held' = [held EXCEPT ![c] = Nothing]
              \/ \E until \in Int :
                   /\ call[c].op # "release"
                   /\ held' = [held EXCEPT ![c] = [grain |-> call[c].grain, p |-> call[c].p,
                                                   until |-> until]]
                   /\ \/ until = 0
                      \/ until = ValidUntil(call[c]) /\ call[c].op \in {"lookup", "resolve"}
  <1>1. call[c] \in Answers
    BY CallPhase DEF Receive
  <1>2. ValidUntil(call[c]) \in Int
    BY <1>1 DEF ValidUntil, Answers
  <1> QED BY <1>1, <1>2 DEF Receive

LEMMA ResendShape ==
    ASSUME CoherentInv, NEW c \in Client, Resend(c)
    PROVE  /\ call[c] \in Answers
           /\ call[c].again \in Evals /\ call[c].again.resent
           /\ call' = [call EXCEPT ![c] = call[c].again]
           /\ UNCHANGED <<storedVars, held>>
  <1>1. call[c] \in Answers
    BY CallPhase DEF Resend
  <1> QED BY <1>1 DEF Resend, Answers

-----------------------------------------------------------------------------
(* The directory stays coherent under any clients.                         *)

\* A step that is not a client's: the registry's, or a completed drain.
LEMMA OtherStepShape ==
    ASSUME CoherentInv, NodeSideStep \/ UNCHANGED redisVars
    PROVE  /\ DirectoryInv'
           /\ UNCHANGED <<placement, spent, reused, call, held>>
           /\ [RegistryNext]_registryVars
  <1>1. CASE NodeSideStep
    <2>1. [RepeatingDirectoryNext]_directoryVars
      BY <1>1 DEF NodeSideStep, DirectoryNext, RepeatingDirectoryNext
    <2>2. UNCHANGED <<placement, spent, reused, call, held>>
      BY <1>1 DEF NodeSideStep, RegistryStep, CompleteDrain, clientVars, placementVars
    <2>3. RegistryNext
      BY <1>1 DEF NodeSideStep, RegistryStep, CompleteDrain, UnregisterNode, RegistryNext
    <2> QED BY <2>1, <2>2, <2>3, DirectoryInvNext DEF CoherentInv
  <1>2. CASE UNCHANGED redisVars
    <2>1. UNCHANGED directoryVars /\ UNCHANGED <<placement, spent, reused, call, held>>
      BY <1>2 DEF redisVars, storedVars, clientVars, directoryVars, placementVars
    <2>2. DirectoryInv'
      BY <2>1, DirectoryInvNext DEF CoherentInv
    <2> QED BY <2>1, <2>2 DEF directoryVars
  <1> QED BY <1>1, <1>2

LEMMA CoherentInit == RedisInit => CoherentInv
  <1> SUFFICES ASSUME RedisInit
               PROVE  CoherentInv
    OBVIOUS
  <1>1. DirectoryInv
    BY DirectoryInvInit DEF RedisInit
  <1>2. ClientTypeOK
    BY DEF RedisInit, ClientTypeOK
  <1> QED BY <1>1, <1>2 DEF CoherentInv

LEMMA ClientStepKeepsInv ==
    ASSUME CoherentInv, NEW c \in Client, ClientStep(c)
    PROVE  CoherentInv'
  <1>1. call \in [Client -> {Idle} \cup Evals \cup Answers \cup Rereads]
    BY DEF CoherentInv, ClientTypeOK
  <1>2. ASSUME UNCHANGED storedVars
        PROVE  DirectoryInv' /\ reused' \subseteq PlacementID
    BY <1>2, DirectoryInvNext DEF CoherentInv, ClientTypeOK, storedVars
  <1>3. ASSUME NEW k \in {Idle} \cup Evals \cup Answers \cup Rereads,
               call' = [call EXCEPT ![c] = k], UNCHANGED held, reused' \subseteq PlacementID
        PROVE  ClientTypeOK'
    BY <1>3 DEF CoherentInv, ClientTypeOK
  <1>4. CASE Started(c)
    BY <1>2, <1>3, <1>4 DEF Started, CoherentInv
  <1>5. CASE Dropped(c)
    BY <1>2, <1>3, <1>5 DEF Dropped, CoherentInv
  <1>6. CASE Eval(c)
    <2>1. /\ call[c] \in Evals /\ DirectoryInv' /\ UNCHANGED held
          /\ \E id \in PlacementID \cup {NoID} :
               Answered(c, call[c], id) /\ (WritesEffect(call[c], id) \/ Reports(call[c]))
      BY <1>6, EvalShape
    <2>2. PICK id \in PlacementID \cup {NoID}, start \in RequestStart(call[c]) :
            /\ call' = [call EXCEPT ![c] = AnswerOf(call[c], id, start)]
            /\ WritesEffect(call[c], id) \/ Reports(call[c])
      BY <2>1 DEF Answered, AnswerOf
    <2>3. AnswerOf(call[c], id, start) \in Answers
      BY <2>1, <2>2, AnswerTyped
    <2>4. reused' \subseteq PlacementID
      BY <1>6 DEF Eval, CoherentInv, ClientTypeOK, DirectoryInv, PlacementTypeOK
    <2> QED BY <1>3, <2>1, <2>2, <2>3, <2>4 DEF CoherentInv
  <1>7. CASE Resend(c)
    BY <1>2, <1>3, <1>7, ResendShape DEF CoherentInv
  <1>8. CASE Receive(c)
    <2>1. call[c].grain \in Grain /\ (call[c].op # "release" => call[c].p \in PlacementRecord)
      BY <1>8, ReceiveShape DEF Answers
    <2>2. \A until \in Int : call[c].op # "release" =>
            [grain |-> call[c].grain, p |-> call[c].p, until |-> until]
                               \in [grain : Grain, p : PlacementRecord, until : Int]
      BY <2>1
    <2>3. held' \in [Client -> {Nothing} \cup [grain : Grain, p : PlacementRecord, until : Int]]
      BY <1>8, <2>2, ReceiveShape DEF CoherentInv, ClientTypeOK
    <2>4. ClientTypeOK'
      BY <1>1, <1>2, <1>8, <2>3, ReceiveShape DEF ClientTypeOK
    <2> QED BY <1>2, <1>8, <2>4, ReceiveShape DEF CoherentInv
  <1> QED BY <1>4, <1>5, <1>6, <1>7, <1>8, ClientStepShape

LEMMA CoherentNext == CoherentInv /\ [RedisNext]_redisVars => CoherentInv'
  <1>1. ASSUME CoherentInv, NodeSideStep \/ UNCHANGED redisVars
        PROVE  CoherentInv'
    BY <1>1, OtherStepShape DEF CoherentInv, ClientTypeOK
  <1> QED BY <1>1, ClientStepKeepsInv DEF RedisNext

LEMMA CoherentInvariance == RedisSpec => []CoherentInv
  BY CoherentInit, CoherentNext, PTL DEF RedisSpec

\* The per-node index lists exactly the stored placements under any number of
\* clients, also when go-redis sends any script again (ResendOps is arbitrary).
THEOREM IndexCoherenceUnderClients == RedisSpec => []IndexCoherent
  <1>1. CoherentInv => IndexCoherent
    BY DEF CoherentInv, DirectoryInv
  <1> QED BY <1>1, CoherentInvariance, PTL

-----------------------------------------------------------------------------
(* An identifier belongs to one grain, and with the version to one owner.  *)

\* p is, or was told to some process as, the placement of g.
Told(g, p) ==
    \/ placement[g] = p
    \/ \E c \in Client : held[c].grain = g /\ held[c].p = p
    \/ \E c \in Client : call[c].pc = "answered" /\ call[c].grain = g /\ call[c].p = p

\* k is, or may still become again, a request to create g under id.
Asks(k, g, id) ==
    \/ k \in Evals /\ k.grain = g /\ k.id = id
    \/ k \in Answers /\ k.again \in Evals /\ k.again.grain = g /\ k.again.id = id

\* Somebody still knows id as an identifier of g.
Uses(g, id) == \/ \E p \in PlacementRecord : Told(g, p) /\ p.id = id
               \/ \E c \in Client : Asks(call[c], g, id)

\* A lifetime of g begins under id: a fresh one, or one that g had before.
Begun(g, id) ==
    /\ Created(g, id)
    /\ reused' = reused \cup ({id} \cap spent)
    /\ id \in spent => Uses(g, id)

\* What a step does to the placements.
Moved == \/ UNCHANGED <<placement, spent, reused>>
         \/ \E g \in Grain : \/ \E id \in PlacementID : Begun(g, id)
                             \/ Succeeded(g) /\ UNCHANGED reused
                             \/ Ended(g) /\ UNCHANGED reused

\* Only the creation of a lifetime writes under an identifier of its own.
LEMMA ReusedWhenBegun ==
    ASSUME CoherentInv, CoherentInv', NEW c \in Client, Eval(c), NEW k \in Evals, k = call[c],
           NEW id \in PlacementID \cup {NoID}, WritesEffect(k, id) \/ Reports(k)
    PROVE  \/ /\ k.op \in {"allocate", "resolve"} /\ Created(k.grain, id)
              /\ id \in PlacementID /\ reused' = reused \cup ({id} \cap spent)
           \/ /\ UNCHANGED reused
              /\ Succeeded(k.grain) \/ Ended(k.grain) \/ UNCHANGED <<placement, spent>>
  <1>1. k.grain \in Grain /\ placement \in [Grain -> Placements]
    BY DEF Evals, CoherentInv, DirectoryInv, PlacementTypeOK, Placements
  <1>2. CASE Placed(k.grain)
    <2>1. UNCHANGED reused
      BY <1>2 DEF Eval
    <2> QED BY <1>2, <2>1 DEF WritesEffect, Created, Placed, Reports, directoryVars, placementVars
  <1>3. CASE ~Placed(k.grain)
    <2>1. k.op \in {"allocate", "resolve"} /\ Created(k.grain, id)
      BY <1>3 DEF WritesEffect, Reports, Placed, Succeeded, Ended
    <2>2. id \in PlacementID /\ placement'[k.grain].id = id
      BY <1>1, <2>1 DEF Created
    <2> QED BY <1>3, <2>1, <2>2 DEF Eval
  <1> QED BY <1>2, <1>3

LEMMA StepMoves ==
    ASSUME CoherentInv, CoherentInv', [RedisNext]_redisVars
    PROVE  Moved
  <1>1. CASE NodeSideStep \/ UNCHANGED redisVars
    BY <1>1, OtherStepShape DEF Moved
  <1>2. ASSUME NEW c \in Client, ClientStep(c)
        PROVE  Moved
    <2>1. ASSUME UNCHANGED storedVars
          PROVE  Moved
      BY <2>1 DEF storedVars, directoryVars, placementVars, Moved
    <2>2. CASE Eval(c)
      <3>1. PICK k \in Evals : k = call[c]
        BY <2>2, EvalShape
      <3>2. PICK id \in PlacementID \cup {NoID} :
              \/ id \in IDs(k) /\ WritesEffect(k, id)
              \/ Reports(k)
        BY <2>2, <3>1, EvalShape
      <3>3. k.grain \in Grain
        BY DEF Evals
      <3>4. CASE \/ Reports(k)
                 \/ /\ UNCHANGED reused
                    /\ Succeeded(k.grain) \/ Ended(k.grain) \/ UNCHANGED <<placement, spent>>
        <4>1. Reports(k) => UNCHANGED <<placement, spent, reused>>
          BY <2>2, <3>1 DEF Reports, Eval, directoryVars, placementVars
        <4> QED BY <3>3, <3>4, <4>1 DEF Moved
      <3>5. CASE /\ ~Reports(k)
                 /\ k.op \in {"allocate", "resolve"} /\ Created(k.grain, id)
                 /\ id \in PlacementID /\ reused' = reused \cup ({id} \cap spent)
        <4>1. id \in spent => id = k.id
          BY <3>2, <3>5, EventsAssumption DEF IDs, FreshIDs
        <4>2. id \in spent => Uses(k.grain, id)
          BY <3>1, <4>1 DEF Uses, Asks
        <4> QED BY <3>3, <3>5, <4>2 DEF Begun, Moved
      <3> QED BY <2>2, <3>1, <3>2, <3>4, <3>5, ReusedWhenBegun
    <2> QED BY <1>2, <2>1, <2>2, ClientStepShape, ResendShape, ReceiveShape
        DEF Started, Dropped
  <1> QED BY <1>1, <1>2 DEF RedisNext

\* It is no newer than what is stored under its identifier.
Known(g, p) ==
    (p.id \notin reused /\ placement[g].id = p.id) => p.version <= placement[g].version

Lifetimes ==
    /\ \A g \in Grain, id \in PlacementID : Uses(g, id) => id \in spent
    /\ \A g, h \in Grain, id \in PlacementID : Uses(g, id) /\ Uses(h, id) => g = h

Lineage ==
    /\ Lifetimes
    /\ \A g \in Grain, p \in PlacementRecord : Told(g, p) => Known(g, p)
    /\ \A g \in Grain, p, q \in PlacementRecord :
         (Told(g, p) /\ Told(g, q) /\ p.id = q.id /\ p.id \notin reused /\ p.version = q.version)
           => p = q

\* A process is told nothing but what is stored when its script runs.
LEMMA ToldStep ==
    ASSUME CoherentInv, [RedisNext]_redisVars,
           NEW g \in Grain, NEW p \in PlacementRecord, Told(g, p)', placement'[g] # p
    PROVE  Told(g, p)
  <1>1. /\ call \in [Client -> {Idle} \cup Evals \cup Answers \cup Rereads]
        /\ held \in [Client -> {Nothing} \cup [grain : Grain, p : PlacementRecord, until : Int]]
    BY DEF CoherentInv, ClientTypeOK
  <1>2. ASSUME UNCHANGED <<call, held>>
        PROVE  Told(g, p)
    BY <1>2 DEF Told
  <1>3. ASSUME NEW c \in Client, NEW k, call' = [call EXCEPT ![c] = k],
               k.pc = "answered" => k.p = placement'[k.grain],
               held' = held
        PROVE  Told(g, p)
    BY <1>1, <1>3 DEF Told
  <1>4. ASSUME NEW c \in Client, ClientStep(c)
        PROVE  Told(g, p)
    <2>1. \A k \in {Idle} \cup Evals \cup Rereads : k.pc # "answered"
      BY Phases
    <2>2. CASE Started(c) \/ Dropped(c)
      BY <1>3, <2>1, <2>2 DEF Started, Dropped
    <2>3. CASE Eval(c)
      <3>1. PICK id \in PlacementID \cup {NoID} : Answered(c, call[c], id) /\ held' = held
        BY <2>3, EvalShape
      <3>2. PICK start \in RequestStart(call[c]) :
              call' = [call EXCEPT ![c] = AnswerOf(call[c], id, start)]
        BY <3>1 DEF Answered, AnswerOf
      <3>3. AnswerOf(call[c], id, start).p = placement'[AnswerOf(call[c], id, start).grain]
        BY DEF AnswerOf
      <3> HIDE DEF AnswerOf
      <3> QED BY <1>3, <3>1, <3>2, <3>3
    <2>4. CASE Resend(c)
      BY <1>3, <2>1, <2>4, ResendShape
    <2>5. CASE Receive(c)
      <3>1. /\ call[c].pc = "answered" /\ call' = [call EXCEPT ![c] = Idle]
            /\ Idle.pc = "idle"
        BY <2>5, ReceiveShape DEF Receive, Idle
      <3>2. ASSUME NEW h, held' = [held EXCEPT ![c] = h],
                   h = Nothing \/ (h.grain = call[c].grain /\ h.p = call[c].p)
            PROVE  Told(g, p)
        <4>1. ~(Nothing.grain = g /\ Nothing.p = p)
          BY EventsAssumption DEF Nothing, PlacementRecord, NoPlacement
        <4> QED BY <1>1, <3>1, <3>2, <4>1 DEF Told
      <3>3. CASE held' = held
        BY <1>1, <3>1, <3>3 DEF Told
      <3>4. ASSUME NEW until \in Int,
                   held' = [held EXCEPT ![c] = [grain |-> call[c].grain, p |-> call[c].p,
                                                until |-> until]]
            PROVE  Told(g, p)
        BY <3>2, <3>4
      <3> QED BY <2>5, <3>2, <3>3, <3>4, ReceiveShape
    <2> QED BY <1>4, <2>2, <2>3, <2>4, <2>5, ClientStepShape
  <1> QED BY <1>2, <1>4, OtherStepShape DEF RedisNext

\* An identifier comes into use when a lifetime begins under it.
LEMMA UsesStep ==
    ASSUME CoherentInv, CoherentInv', [RedisNext]_redisVars,
           NEW g \in Grain, NEW id \in PlacementID, Uses(g, id)'
    PROVE  Uses(g, id) \/ (id \notin spent /\ Created(g, id))
  <1>1. /\ call \in [Client -> {Idle} \cup Evals \cup Answers \cup Rereads]
        /\ placement \in [Grain -> Placements] /\ placement' \in [Grain -> Placements]
    BY DEF CoherentInv, ClientTypeOK, DirectoryInv, PlacementTypeOK, Placements
  <1>2. id # NoID
    BY EventsAssumption
  <1>3. CASE \E p \in PlacementRecord : Told(g, p)' /\ p.id = id
    <2>1. PICK p \in PlacementRecord : Told(g, p)' /\ p.id = id
      BY <1>3
    <2>2. CASE Told(g, p)
      BY <2>1, <2>2 DEF Uses
    <2>3. CASE ~Told(g, p)
      <3>1. placement'[g] = p /\ placement'[g] # placement[g] /\ p # NoPlacement
        BY <2>1, <2>3, ToldStep, EventsAssumption DEF Told, PlacementRecord, NoPlacement
      <3>2. ASSUME NEW h \in Grain, NEW i \in PlacementID, Begun(h, i)
            PROVE  g = h /\ i = id
        BY <1>1, <2>1, <3>1, <3>2 DEF Begun, Created
      <3>3. ASSUME NEW h \in Grain, Succeeded(h)
            PROVE  Uses(g, id)
        <4>1. g = h /\ placement[g] \in PlacementRecord /\ placement[g].id = id
          BY <1>1, <2>1, <3>1, <3>3 DEF Succeeded, Succession, Placements
        <4> QED BY <4>1 DEF Uses, Told
      <3>4. ASSUME NEW h \in Grain, Ended(h)
            PROVE  FALSE
        BY <1>1, <3>1, <3>4 DEF Ended
      <3>5. Moved
        BY StepMoves
      <3> QED BY <3>1, <3>2, <3>3, <3>4, <3>5 DEF Moved, Begun
    <2> QED BY <2>2, <2>3
  <1>4. ASSUME NEW d \in Client, Asks(call[d], g, id)'
        PROVE  Uses(g, id) \/ (id \notin spent /\ Created(g, id))
    <2>1. CASE call'[d] = call[d]
      BY <1>4, <2>1 DEF Asks, Uses
    <2>2. ASSUME NEW c \in Client, ClientStep(c), call'[d] # call[d]
          PROVE  Uses(g, id) \/ (id \notin spent /\ Created(g, id))
      <3>1. ASSUME NEW k, call' = [call EXCEPT ![c] = k]
            PROVE  d = c /\ Asks(k, g, id)
        BY <1>1, <1>4, <2>2, <3>1 DEF Asks
      <3>2. CASE Started(c)
        <4>1. PICK k \in Evals : call' = [call EXCEPT ![c] = k] /\ k.id = NoID
          BY <3>2 DEF Started
        <4>2. Asks(k, g, id)
          BY <3>1, <4>1
        <4> QED BY <1>2, <4>1, <4>2, Phases DEF Asks
      <3>3. CASE Dropped(c) \/ Receive(c)
        <4>1. PICK k \in {Idle} \cup Rereads : call' = [call EXCEPT ![c] = k]
          BY <3>3, ReceiveShape DEF Dropped
        <4>2. Asks(k, g, id)
          BY <3>1, <4>1
        <4> QED BY <4>2, Phases DEF Asks
      <3>4. CASE Resend(c)
        <4>1. call[c] \in Answers /\ call[c].again \in Evals
          BY <3>4, ResendShape
        <4>2. Asks(call[c].again, g, id)
          BY <3>1, <3>4, ResendShape
        <4>3. Asks(call[c], g, id)
          BY <4>1, <4>2, Phases DEF Asks
        <4> QED BY <4>3 DEF Uses
      <3>5. CASE Eval(c)
        <4>1. PICK k \in Evals : k = call[c]
          BY <3>5, EvalShape
        <4>2. PICK i \in PlacementID \cup {NoID} :
                /\ Answered(c, k, i)
                /\ \/ i \in IDs(k) /\ WritesEffect(k, i)
                   \/ i = k.id /\ Reports(k)
          BY <3>5, <4>1, EvalShape
        <4>3. PICK start \in RequestStart(k) :
                call' = [call EXCEPT ![c] = AnswerOf(k, i, start)]
          BY <4>2 DEF Answered, AnswerOf
        <4>4. PICK a : a = AnswerOf(k, i, start)
          OBVIOUS
        <4>5. a \in Answers /\ Asks(a, g, id)
          BY <3>1, <4>2, <4>3, <4>4, AnswerTyped DEF CoherentInv
        <4>6. PICK r : r = a.again
          OBVIOUS
        <4>7. r \in Evals /\ r.grain = g /\ r.id = id
          BY <4>5, <4>6, Phases DEF Asks
        <4>8. r = Again(k, i, start)
          BY <4>4, <4>6, <4>7, Phases DEF AnswerOf
        <4>9. r.grain = k.grain /\ r.id = IF i \in spent' THEN i ELSE NoID
          BY <4>8 DEF Again, Evals
        <4>10. k.grain = g /\ i = id /\ id \in spent'
          BY <1>2, <4>7, <4>9
        <4>11. CASE id = k.id
          BY <4>1, <4>10, <4>11 DEF Uses, Asks
        <4>12. CASE id # k.id
          <5>1. id \notin spent /\ WritesEffect(k, id)
            BY <1>2, <4>2, <4>10, <4>12 DEF IDs, FreshIDs
          <5>2. Created(g, id)
            BY <4>10, <5>1 DEF WritesEffect, Succeeded, Ended
          <5> QED BY <5>1, <5>2
        <4> QED BY <4>11, <4>12
      <3> QED BY <2>2, <3>2, <3>3, <3>4, <3>5, ClientStepShape
    <2> QED BY <2>1, <2>2, OtherStepShape DEF RedisNext
  <1> QED BY <1>3, <1>4 DEF Uses

LEMMA LifetimesKept ==
    ASSUME CoherentInv, CoherentInv', [RedisNext]_redisVars, Lifetimes
    PROVE  Lifetimes' /\ spent \subseteq spent' /\ reused \subseteq reused'
  <1>1. spent \subseteq spent' /\ reused \subseteq reused'
    BY StepMoves DEF Moved, Begun, Created, Succeeded, Ended
  <1>2. placement \in [Grain -> Placements]
    BY DEF CoherentInv, DirectoryInv, PlacementTypeOK, Placements
  <1>3. ASSUME NEW g \in Grain, NEW id \in PlacementID, Uses(g, id)'
        PROVE  id \in spent'
    BY <1>1, <1>3, UsesStep DEF Lifetimes, Created
  <1>4. ASSUME NEW g \in Grain, NEW h \in Grain, NEW id \in PlacementID,
               Uses(g, id)', Uses(h, id)'
        PROVE  g = h
    <2>1. ASSUME Created(g, id), Created(h, id)
          PROVE  g = h
      <3>1. PICK n \in Node :
              placement' = [placement EXCEPT ![g] = [id |-> id, node |-> n,
                                                     session |-> node[n].session, version |-> 1]]
        BY <2>1 DEF Created
      <3>2. PICK m \in Node :
              placement' = [placement EXCEPT ![h] = [id |-> id, node |-> m,
                                                     session |-> node[m].session, version |-> 1]]
        BY <2>1 DEF Created
      <3>3. placement'[g].id = id /\ placement'[h].id = id
        BY <1>2, <3>1, <3>2
      <3>4. placement[h].id # id
        BY <2>1, EventsAssumption DEF Created, NoPlacement
      <3> QED BY <1>2, <3>1, <3>3, <3>4
    <2> QED BY <1>4, <2>1, UsesStep DEF Lifetimes
  <1> QED BY <1>1, <1>3, <1>4 DEF Lifetimes

\* What was known stays known.
LEMMA KnownKept ==
    ASSUME CoherentInv, CoherentInv', Moved,
           NEW g \in Grain, NEW p \in PlacementRecord, p.id \in spent, Known(g, p)
    PROVE  Known(g, p)'
  <1>1. /\ placement \in [Grain -> Placements] /\ placement' \in [Grain -> Placements]
        /\ spent \subseteq PlacementID
    BY DEF CoherentInv, DirectoryInv, PlacementTypeOK, Placements
  <1>2. p.id \in PlacementID /\ p.version \in Nat /\ NoPlacement.id \notin PlacementID
    BY EventsAssumption DEF PlacementRecord, NoPlacement
  <1>3. CASE UNCHANGED <<placement, spent, reused>>
    BY <1>3 DEF Known
  <1>4. ASSUME NEW h \in Grain, NEW r, placement' = [placement EXCEPT ![h] = r],
               reused \subseteq reused',
               g = h => (p.id \notin reused' /\ r.id = p.id => p.version <= r.version)
        PROVE  Known(g, p)'
    BY <1>1, <1>4 DEF Known
  <1>5. ASSUME NEW h \in Grain, NEW id \in PlacementID, Begun(h, id)
        PROVE  Known(g, p)'
    <2>1. id = p.id => p.id \in reused'
      BY <1>5 DEF Begun
    <2> QED BY <1>4, <1>5, <2>1 DEF Begun, Created
  <1>6. ASSUME NEW h \in Grain, Succeeded(h), UNCHANGED reused
        PROVE  Known(g, p)'
    <2>1. placement[h] \in PlacementRecord
      BY <1>1, <1>6 DEF Succeeded, Placements
    <2>2. placement[h].version \in Nat
      BY <2>1 DEF PlacementRecord
    <2>3. PICK n \in Node :
            placement' = [placement EXCEPT ![h] = Succession(placement[h], n, node[n].session)]
      BY <1>6 DEF Succeeded
    <2>4. g = h => (p.id \notin reused /\ placement[h].id = p.id
                      => p.version <= placement[h].version + 1)
      BY <1>2, <2>2 DEF Known
    <2> QED BY <1>4, <1>6, <2>3, <2>4 DEF Succession
  <1>7. ASSUME NEW h \in Grain, Ended(h), UNCHANGED reused
        PROVE  Known(g, p)'
    BY <1>2, <1>4, <1>7 DEF Ended
  <1> QED BY <1>3, <1>5, <1>6, <1>7 DEF Moved

\* A record that was not told before is the first of its lifetime or follows the
\* one stored so far; it is known, and older than nothing that was told.
LEMMA NewOwner ==
    ASSUME CoherentInv, CoherentInv', Moved, Lineage,
           NEW g \in Grain, NEW p \in PlacementRecord, placement'[g] = p, placement[g] # p,
           p.id \notin reused'
    PROVE  \A q \in PlacementRecord : Told(g, q) /\ q.id = p.id => q.version < p.version
  <1>1. /\ placement \in [Grain -> Placements] /\ placement' \in [Grain -> Placements]
        /\ p # NoPlacement
    BY EventsAssumption
    DEF CoherentInv, DirectoryInv, PlacementTypeOK, Placements, PlacementRecord, NoPlacement
  <1>2. ASSUME NEW h \in Grain, NEW r, placement' = [placement EXCEPT ![h] = r]
        PROVE  g = h /\ p = r
    BY <1>1, <1>2
  <1>3. ASSUME NEW h \in Grain, NEW id \in PlacementID, Begun(h, id),
               NEW q \in PlacementRecord, Told(g, q)
        PROVE  q.id # p.id
    <2>1. p.id = id /\ id \notin spent
      BY <1>2, <1>3 DEF Begun, Created
    <2>2. q.id \in PlacementID /\ Uses(g, q.id)
      BY <1>3 DEF PlacementRecord, Uses
    <2> QED BY <2>1, <2>2 DEF Lineage, Lifetimes
  <1>4. ASSUME NEW h \in Grain, Succeeded(h), UNCHANGED reused,
               NEW q \in PlacementRecord, Told(g, q), q.id = p.id
        PROVE  q.version < p.version
    <2>1. /\ placement[g] # NoPlacement
          /\ p.id = placement[g].id
          /\ p.version = placement[g].version + 1
      BY <1>2, <1>4 DEF Succeeded, Succession
    <2>2. placement[g] \in PlacementRecord
      BY <1>1, <2>1 DEF Placements
    <2>3. q.version <= placement[g].version
      BY <1>4, <2>1 DEF Lineage, Known
    <2>4. q.version \in Nat /\ placement[g].version \in Nat
      BY <2>2 DEF PlacementRecord
    <2> QED BY <2>1, <2>3, <2>4
  <1>5. ASSUME NEW h \in Grain, Ended(h)
        PROVE  FALSE
    BY <1>1, <1>2, <1>5 DEF Ended
  <1> QED BY <1>3, <1>4, <1>5 DEF Moved

LEMMA LineageKept ==
    ASSUME CoherentInv, CoherentInv', [RedisNext]_redisVars, Lineage
    PROVE  Lineage'
  <1>1. Moved
    BY StepMoves
  <1>2. Lifetimes' /\ spent \subseteq spent' /\ reused \subseteq reused'
    BY LifetimesKept DEF Lineage
  <1>3. ASSUME NEW g \in Grain, NEW p \in PlacementRecord, Told(g, p)'
        PROVE  \/ Told(g, p)
               \/ placement'[g] = p /\ placement[g] # p
    BY <1>3, ToldStep DEF Told
  <1>4. ASSUME NEW g \in Grain, NEW p \in PlacementRecord, Told(g, p)
        PROVE  p.id \in spent
    BY <1>4 DEF Lineage, Lifetimes, Uses, PlacementRecord
  <1>5. ASSUME NEW g \in Grain, NEW p \in PlacementRecord, Told(g, p)'
        PROVE  Known(g, p)'
    <2>1. CASE Told(g, p)
      BY <1>1, <1>4, <2>1, KnownKept DEF Lineage
    <2>2. CASE placement'[g] = p
      BY <2>2 DEF Known, PlacementRecord
    <2> QED BY <1>3, <1>5, <2>1, <2>2
  <1>6. ASSUME NEW g \in Grain, NEW p \in PlacementRecord, NEW q \in PlacementRecord,
               Told(g, p)', Told(g, q)', p.id = q.id, p.id \notin reused', p.version = q.version
        PROVE  p = q
    <2>1. p.version \in Nat /\ q.version \in Nat
      BY DEF PlacementRecord
    <2>2. CASE Told(g, p) /\ Told(g, q)
      BY <1>2, <1>6, <2>2 DEF Lineage
    <2>3. CASE Told(g, p) /\ placement'[g] = q /\ placement[g] # q
      BY <1>1, <1>6, <2>1, <2>3, NewOwner
    <2>4. CASE Told(g, q) /\ placement'[g] = p /\ placement[g] # p
      BY <1>1, <1>6, <2>1, <2>4, NewOwner
    <2>5. CASE placement'[g] = p /\ placement'[g] = q
      BY <2>5
    <2> QED BY <1>3, <1>6, <2>2, <2>3, <2>4, <2>5
  <1> QED BY <1>2, <1>5, <1>6 DEF Lineage

LEMMA LineageInit == RedisInit => Lineage
  <1> SUFFICES ASSUME RedisInit
               PROVE  Lineage
    OBVIOUS
  <1>1. ASSUME NEW g \in Grain, NEW p \in PlacementRecord
        PROVE  ~Told(g, p)
    <2>1. p # NoPlacement /\ Nothing.p = NoPlacement
      BY EventsAssumption DEF PlacementRecord, NoPlacement, Nothing
    <2>2. \A c \in Client : call[c].pc # "answered" /\ held[c].p # p
      BY <2>1, Phases DEF RedisInit
    <2> QED BY <2>1, <2>2 DEF RedisInit, DirectoryInit, Told
  <1>2. ASSUME NEW g \in Grain, NEW id \in PlacementID, NEW c \in Client
        PROVE  ~Asks(call[c], g, id)
    BY Phases DEF RedisInit, Asks
  <1> QED BY <1>1, <1>2 DEF Lineage, Lifetimes, Uses

LEMMA LineageInvariance == RedisSpec => [](CoherentInv /\ Lineage)
  <1>1. RedisInit => CoherentInv /\ Lineage
    BY CoherentInit, LineageInit
  <1>2. CoherentInv /\ Lineage /\ [RedisNext]_redisVars => (CoherentInv /\ Lineage)'
    BY CoherentNext, LineageKept
  <1> QED BY <1>1, <1>2, PTL DEF RedisSpec

\* An identifier never names placements of two grains; with the version it names
\* one owner, because every store under an identifier advances the version, and
\* only a creation that runs again starts over.
THEOREM VersionsNameOneOwner == RedisSpec => []VersionNamesOneOwner
  <1>1. CoherentInv /\ Lineage => VersionNamesOneOwner
    <2> SUFFICES ASSUME CoherentInv, Lineage, NEW c \in Client, NEW d \in Client,
                        held[c] # Nothing, held[d] # Nothing, held[c].p.id = held[d].p.id
                 PROVE  /\ held[c].grain = held[d].grain
                        /\ held[c].p.id \notin reused /\ held[c].p.version = held[d].p.version
                             => held[c].p = held[d].p
      BY DEF VersionNamesOneOwner
    <2>1. /\ held[c].grain \in Grain /\ held[c].p \in PlacementRecord
          /\ held[d].grain \in Grain /\ held[d].p \in PlacementRecord
      BY DEF CoherentInv, ClientTypeOK
    <2>2. held[c].p.id \in PlacementID
      BY <2>1 DEF PlacementRecord
    <2>3. Told(held[c].grain, held[c].p) /\ Told(held[d].grain, held[d].p)
      BY DEF Told
    <2>4. held[c].grain = held[d].grain
      BY <2>1, <2>2, <2>3 DEF Uses, Lineage, Lifetimes
    <2> QED BY <2>1, <2>3, <2>4 DEF Lineage
  <1> QED BY <1>1, LineageInvariance, PTL

\* No lifetime begins under the identifier of an earlier one but by a script that
\* go-redis sent again: the request of an Allocate or ResolveRoute that had created
\* the earlier lifetime of the same grain.
THEOREM OnlyRepeatsReuse ==
    RedisSpec => [][\A g \in Grain :
                      (~Placed(g) /\ Placed(g)' /\ placement'[g].id \in spent)
                        => \E c \in Client :
                             /\ Eval(c) /\ call[c].resent
                             /\ call[c].op \in ResendOps \cap {"allocate", "resolve"}
                             /\ call[c].grain = g /\ call[c].id = placement'[g].id]_redisVars
  <1>1. ASSUME CoherentInv, CoherentInv', [RedisNext]_redisVars, NEW g \in Grain,
               ~Placed(g), Placed(g)', placement'[g].id \in spent
        PROVE  \E c \in Client :
                 /\ Eval(c) /\ call[c].resent
                 /\ call[c].op \in ResendOps \cap {"allocate", "resolve"}
                 /\ call[c].grain = g /\ call[c].id = placement'[g].id
    <2>1. placement'[g] # placement[g] /\ placement \in [Grain -> Placements]
      BY <1>1 DEF Placed, CoherentInv, DirectoryInv, PlacementTypeOK, Placements
    <2>2. PICK c \in Client : Eval(c)
      <3>1. ASSUME NEW c \in Client, ClientStep(c), ~Eval(c)
            PROVE  UNCHANGED storedVars
        BY <1>1, <3>1, ClientStepShape, ResendShape, ReceiveShape DEF Started, Dropped
      <3> QED BY <1>1, <2>1, <3>1, OtherStepShape
          DEF RedisNext, storedVars, directoryVars, placementVars
    <2>3. PICK k \in Evals : k = call[c]
      BY <1>1, <2>2, EvalShape
    <2>4. PICK id \in PlacementID \cup {NoID} :
            \/ id \in IDs(k) /\ WritesEffect(k, id)
            \/ Reports(k)
      BY <1>1, <2>2, <2>3, EvalShape
    <2>5. ~Reports(k)
      BY <2>1 DEF Reports, directoryVars, placementVars
    <2>6. k.grain = g /\ k.op \in {"allocate", "resolve"} /\ placement'[g].id = id
          /\ id \in PlacementID
      <3>1. CASE k.op \in {"allocate", "resolve"} /\ Created(k.grain, id)
        BY <2>1, <3>1 DEF Created
      <3>2. CASE Succeeded(k.grain) \/ Ended(k.grain)
        BY <1>1, <2>1, <3>2 DEF Succeeded, Ended, Placed
      <3> QED BY <2>4, <2>5, <3>1, <3>2 DEF WritesEffect
    <2>7. id = k.id /\ id # NoID
      BY <1>1, <2>4, <2>5, <2>6, EventsAssumption DEF IDs, FreshIDs
    <2>8. k.resent /\ k.op \in ResendOps
      BY <2>7 DEF Evals
    <2> QED BY <2>2, <2>3, <2>6, <2>7, <2>8
  <1>2. CoherentInv /\ CoherentInv' /\ [RedisNext]_redisVars
          => [\A g \in Grain :
                (~Placed(g) /\ Placed(g)' /\ placement'[g].id \in spent)
                  => \E c \in Client :
                       /\ Eval(c) /\ call[c].resent
                       /\ call[c].op \in ResendOps \cap {"allocate", "resolve"}
                       /\ call[c].grain = g /\ call[c].id = placement'[g].id]_redisVars
    BY <1>1
  <1> QED BY <1>2, CoherentInvariance, PTL DEF RedisSpec

\* Redis moves by whole scripts, each of which saw the placement it replaces: the
\* clients, snapshots, lost answers and repeated scripts and all, implement
\* PlacementDirectory, whose creations may run twice.
THEOREM ClientsImplementDirectory == RedisSpec => ScriptsSeeCurrentPlacement
  <1>1. RedisInit => DirectoryInit
    BY DEF RedisInit
  <1>2. CoherentInv /\ [RedisNext]_redisVars => [RepeatingDirectoryNext]_directoryVars
    <2> SUFFICES ASSUME CoherentInv, [RedisNext]_redisVars
                 PROVE  [RepeatingDirectoryNext]_directoryVars
      OBVIOUS
    <2>1. CASE NodeSideStep
      BY <2>1 DEF NodeSideStep, DirectoryNext, RepeatingDirectoryNext
    <2>2. CASE UNCHANGED redisVars
      BY <2>2 DEF redisVars, storedVars
    <2>3. ASSUME NEW c \in Client, Eval(c)
          PROVE  [RepeatingDirectoryNext]_directoryVars
      <3>1. PICK k \in Evals : k = call[c]
        BY <2>3, EvalShape
      <3>2. k.grain \in Grain /\ spent \subseteq PlacementID
        BY DEF Evals, CoherentInv, DirectoryInv, PlacementTypeOK
      <3>3. PICK any : any \in FreshIDs
        BY EventsAssumption, <3>2 DEF FreshIDs
      <3>4. ASSUME NEW id \in PlacementID \cup {NoID}, Writes(k, id), WritesEffect(k, id)
            PROVE  PlacementStep \/ Recreate
        <4>1. ASSUME k.group \in Group, Allocate(k.grain, k.group, id)
              PROVE  PlacementStep \/ Recreate
          <5>1. id # NoID
            BY <4>1 DEF Allocate, Create
          <5>2. CASE id \in spent
            BY <3>2, <4>1, <5>2 DEF Recreate
          <5>3. CASE id \notin spent
            <6>1. id \in FreshIDs
              BY <5>1, <5>3 DEF FreshIDs
            <6> QED BY <3>2, <4>1, <6>1 DEF PlacementStep
          <5> QED BY <5>2, <5>3
        <4>2. CASE k.op = "allocate" /\ Allocate(k.grain, k.group, id)
          BY <4>1, <4>2 DEF Evals
        <4>3. CASE k.op = "resolve" /\ ResolveRoute(k.grain, k.group, id, k.raw)
          <5>1. k.group \in Group
            BY <4>3 DEF Evals
          <5>2. CASE placement[k.grain] = NoPlacement /\ Create(k.grain, k.group, id)
            BY <4>1, <5>1, <5>2 DEF Allocate, Placed
          <5>3. CASE \/ RefreshSession(k.grain, k.group, k.raw)
                     \/ MoveFromInvalid(k.grain, k.group, k.raw)
            <6>1. k.raw = placement[k.grain]
              BY <5>3 DEF RefreshSession, MoveFromInvalid
            <6>2. ResolveRoute(k.grain, k.group, any, placement[k.grain])
              BY <5>3, <6>1 DEF ResolveRoute
            <6> QED BY <3>2, <3>3, <5>1, <6>2 DEF PlacementStep
          <5> QED BY <4>3, <5>2, <5>3 DEF ResolveRoute
        <4>4. CASE k.op = "release" /\ Release(k.grain, k.raw, k.cmd)
          <5>1. Release(k.grain, placement[k.grain], placement[k.grain])
            BY <4>4 DEF Release, Addressed
          <5> QED BY <3>2, <5>1 DEF PlacementStep
        <4>5. CASE k.op = "transfer" /\ Transfer(k.grain, k.raw, k.cmd, k.cmd.node, k.target)
          <5>1. k.target \in Node
            BY <4>5 DEF Evals
          <5>2. Transfer(k.grain, placement[k.grain], placement[k.grain], NoNode, k.target)
            BY <4>5 DEF Transfer, Addressed
          <5> QED BY <3>2, <5>1, <5>2 DEF PlacementStep
        <4>6. CASE k.op = "recover" /\ Recover(k.grain, k.raw, k.cmd, k.target)
          <5>1. k.target \in Node
            BY <4>6 DEF Evals
          <5>2. Recover(k.grain, placement[k.grain], placement[k.grain], k.target)
            BY <4>6 DEF Recover, Addressed
          <5> QED BY <3>2, <5>1, <5>2 DEF PlacementStep
        <4> QED BY <3>4, <4>2, <4>3, <4>4, <4>5, <4>6 DEF Writes
      <3>5. Reports(k) => UNCHANGED directoryVars
        BY DEF Reports
      <3> QED BY <2>3, <3>1, <3>4, <3>5, EvalShape DEF DirectoryNext, RepeatingDirectoryNext
    <2>4. ASSUME NEW c \in Client, ClientStep(c), ~Eval(c)
          PROVE  UNCHANGED directoryVars
      BY <2>4, ClientStepShape, ResendShape, ReceiveShape DEF Started, Dropped, storedVars
    <2> QED BY <2>1, <2>2, <2>3, <2>4 DEF RedisNext
  <1> QED BY <1>1, <1>2, CoherentInvariance, PTL
      DEF RedisSpec, ScriptsSeeCurrentPlacement, RepeatingDirectorySpec

\* So the clients keep the abstract contract of ownership, but for creations that
\* run twice, and every promise the scripts keep on their own.
THEOREM ClientsKeepContract ==
    RedisSpec => /\ RepeatingContract
                 /\ RouteLossAnnounced /\ DrainLeavesNothing /\ UnfitNodeOnlyShrinks
                 /\ LeaseNeverShortened /\ OfflineIsFinal
  <1>1. RedisSpec => RepeatingDirectorySpec
    BY ClientsImplementDirectory DEF ScriptsSeeCurrentPlacement
  <1> QED
    BY <1>1, RepeatingImplementsOwnership, RouteLossIsAnnounced, DrainsAreComplete,
       UnfitNodesOnlyShrink, ScriptsKeepLeases

-----------------------------------------------------------------------------
(* A repeated mutation finds nothing to change.                            *)

\* The placement p of g was replaced and will not come back, unless its
\* identifier does.
Gone(g, p) ==
    /\ p \in PlacementRecord /\ p.id \in spent
    /\ p.id \notin reused /\ placement[g].id = p.id => p.version < placement[g].version

\* k is sent for the second time: what it replaced the first time is gone.
Spent(k) == (k \in Evals /\ k.resent /\ k.op \in MutateOps) => Gone(k.grain, k.raw)

Repeats ==
    \A c \in Client : /\ Spent(call[c])
                      /\ call[c] \in Answers => Spent(call[c].again)

LEMMA GoneKept ==
    ASSUME CoherentInv, CoherentInv', Moved, NEW g \in Grain, NEW p, Gone(g, p)
    PROVE  Gone(g, p)'
  <1>1. /\ placement \in [Grain -> Placements] /\ placement' \in [Grain -> Placements]
        /\ spent \subseteq PlacementID
    BY DEF CoherentInv, DirectoryInv, PlacementTypeOK, Placements
  <1>2. p.id \in PlacementID /\ p.version \in Nat /\ NoPlacement.id \notin PlacementID
    BY EventsAssumption DEF Gone, PlacementRecord, NoPlacement
  <1>3. CASE UNCHANGED <<placement, spent, reused>>
    BY <1>3 DEF Gone
  <1>4. ASSUME NEW h \in Grain, NEW r, placement' = [placement EXCEPT ![h] = r],
               spent \subseteq spent', reused \subseteq reused',
               g = h => (p.id \notin reused' /\ r.id = p.id => p.version < r.version)
        PROVE  Gone(g, p)'
    BY <1>1, <1>4 DEF Gone
  <1>5. ASSUME NEW h \in Grain, NEW id \in PlacementID, Begun(h, id)
        PROVE  Gone(g, p)'
    <2>1. id = p.id => p.id \in reused'
      BY <1>5 DEF Begun, Gone
    <2> QED BY <1>4, <1>5, <2>1 DEF Begun, Created
  <1>6. ASSUME NEW h \in Grain, Succeeded(h), UNCHANGED reused
        PROVE  Gone(g, p)'
    <2>1. placement[h] \in PlacementRecord
      BY <1>1, <1>6 DEF Succeeded, Placements
    <2>2. placement[h].version \in Nat
      BY <2>1 DEF PlacementRecord
    <2>3. PICK n \in Node :
            placement' = [placement EXCEPT ![h] = Succession(placement[h], n, node[n].session)]
      BY <1>6 DEF Succeeded
    <2>4. g = h => (p.id \notin reused /\ placement[h].id = p.id
                      => p.version < placement[h].version + 1)
      BY <1>2, <2>2 DEF Gone
    <2> QED BY <1>4, <1>6, <2>3, <2>4 DEF Succeeded, Succession
  <1>7. ASSUME NEW h \in Grain, Ended(h), UNCHANGED reused
        PROVE  Gone(g, p)'
    BY <1>2, <1>4, <1>7 DEF Ended
  <1> QED BY <1>3, <1>5, <1>6, <1>7 DEF Moved

\* A mutation that was carried out has replaced the placement it named.
LEMMA MutationReplaces ==
    ASSUME CoherentInv, CoherentInv', Lineage, NEW k \in Evals, k.op \in MutateOps,
           NEW id, WritesEffect(k, id)
    PROVE  Gone(k.grain, k.raw)'
  <1>1. /\ placement \in [Grain -> Placements] /\ placement' \in [Grain -> Placements]
        /\ k.grain \in Grain
    BY DEF CoherentInv, DirectoryInv, PlacementTypeOK, Placements, Evals
  <1>2. /\ k.raw = placement[k.grain] /\ k.raw # NoPlacement /\ spent' = spent
        /\ Succeeded(k.grain) \/ Ended(k.grain)
    BY DEF WritesEffect, MutateOps, Succeeded, Ended
  <1>3. k.raw \in PlacementRecord
    BY <1>1, <1>2 DEF Placements
  <1>4. k.raw.id \in spent /\ k.raw.id \in PlacementID /\ k.raw.version \in Nat
    BY <1>1, <1>2, <1>3 DEF Lineage, Lifetimes, Uses, Told, PlacementRecord
  <1>5. CASE Succeeded(k.grain)
    <2>1. placement'[k.grain].version = k.raw.version + 1
      BY <1>1, <1>2, <1>5 DEF Succeeded, Succession
    <2> QED BY <1>2, <1>3, <1>4, <2>1 DEF Gone
  <1>6. CASE Ended(k.grain)
    <2>1. placement'[k.grain].id \notin PlacementID
      BY <1>1, <1>6, EventsAssumption DEF Ended, NoPlacement
    <2> QED BY <1>2, <1>3, <1>4, <2>1 DEF Gone
  <1> QED BY <1>2, <1>5, <1>6

LEMMA SpentKept ==
    ASSUME CoherentInv, CoherentInv', Moved, NEW k, Spent(k)
    PROVE  Spent(k)'
  BY GoneKept DEF Spent, Evals

LEMMA RepeatsKept ==
    ASSUME CoherentInv, CoherentInv', [RedisNext]_redisVars,
           Lineage, Repeats
    PROVE  Repeats'
  <1>1. Moved
    BY StepMoves
  <1>2. call \in [Client -> {Idle} \cup Evals \cup Answers \cup Rereads]
    BY DEF CoherentInv, ClientTypeOK
  <1>3. ASSUME NEW c \in Client, NEW k, call' = [call EXCEPT ![c] = k],
               Spent(k)', k \in Answers => Spent(k.again)'
        PROVE  Repeats'
    <2> SUFFICES ASSUME NEW d \in Client
                 PROVE  Spent(call[d])' /\ (call'[d] \in Answers => Spent(call[d].again)')
      BY DEF Repeats
    <2>1. CASE d = c
      BY <1>2, <1>3, <2>1
    <2>2. CASE d # c
      <3>1. call'[d] = call[d]
        BY <1>2, <1>3, <2>2
      <3> QED BY <1>1, <3>1, SpentKept DEF Repeats
    <2> QED BY <2>1, <2>2
  <1>4. CASE NodeSideStep \/ UNCHANGED redisVars
    <2>1. call' = call
      BY <1>4, OtherStepShape
    <2> QED BY <1>1, <2>1, SpentKept DEF Repeats
  <1>5. ASSUME NEW k, k \notin Evals
        PROVE  Spent(k)'
    BY <1>5 DEF Spent
  <1>6. ASSUME NEW c \in Client, ClientStep(c)
        PROVE  Repeats'
    <2>1. CASE Started(c)
      <3>1. PICK k \in Evals : call' = [call EXCEPT ![c] = k] /\ ~k.resent
        BY <2>1 DEF Started
      <3>2. Spent(k)' /\ k \notin Answers
        BY <3>1, Phases DEF Spent
      <3> QED BY <1>3, <3>1, <3>2
    <2>2. CASE Dropped(c)
      <3>1. PICK k \in {Idle} \cup Rereads : call' = [call EXCEPT ![c] = k]
        BY <2>2 DEF Dropped
      <3>2. k \notin Evals /\ k \notin Answers
        BY Phases
      <3> QED BY <1>3, <1>5, <3>1, <3>2
    <2>3. CASE Resend(c)
      <3>1. PICK k \in Evals : call' = [call EXCEPT ![c] = k] /\ k = call[c].again
        BY <2>3, ResendShape
      <3>2. Spent(k)
        BY <2>3, <3>1, ResendShape DEF Repeats
      <3>3. Spent(k)' /\ k \notin Answers
        BY <1>1, <3>2, SpentKept, Phases
      <3> QED BY <1>3, <3>1, <3>3
    <2>4. CASE Receive(c)
      BY <1>3, <1>5, <2>4, ReceiveShape, Phases
    <2>5. CASE Eval(c)
      <3>1. PICK k \in Evals : k = call[c]
        BY <2>5, EvalShape
      <3>2. PICK id \in PlacementID \cup {NoID} : /\ Answered(c, k, id)
                                                  /\ WritesEffect(k, id) \/ Reports(k)
        BY <2>5, <3>1, EvalShape
      <3>3. PICK start \in RequestStart(k) :
              call' = [call EXCEPT ![c] = AnswerOf(k, id, start)]
        BY <3>2 DEF Answered, AnswerOf
      <3>4. PICK a : a = AnswerOf(k, id, start)
        OBVIOUS
      <3>5. a \in Answers
        BY <3>2, <3>4, AnswerTyped DEF CoherentInv
      <3>6. PICK r : r = a.again
        OBVIOUS
      <3>7. r = IF k.op \in ResendOps THEN Again(k, id, start) ELSE Idle
        BY <3>4, <3>6 DEF AnswerOf
      <3>8. k.op \in MutateOps => Gone(k.grain, k.raw)'
        BY <3>2, MutationReplaces DEF Reports, MutateOps
      <3>9. Spent(r)'
        <4>1. CASE r = Idle
          BY <1>5, <4>1, Phases
        <4>2. CASE r = Again(k, id, start)
          <5>1. r.op = k.op /\ r.grain = k.grain /\ r.raw = k.raw
            BY <4>2 DEF Again, Evals
          <5> QED BY <3>8, <5>1 DEF Spent
        <4> QED BY <3>7, <4>1, <4>2
      <3> QED BY <1>3, <1>5, <3>3, <3>4, <3>5, <3>6, <3>9, Phases
    <2> QED BY <1>6, <2>1, <2>2, <2>3, <2>4, <2>5, ClientStepShape
  <1> QED BY <1>4, <1>6 DEF RedisNext

LEMMA RepeatsInit == RedisInit => Repeats
  BY Phases DEF RedisInit, Repeats, Spent

LEMMA HistoryInvariance == RedisSpec => [](CoherentInv /\ Repeats)
  <1>1. RedisInit => Repeats
    BY RepeatsInit
  <1>2. CoherentInv /\ CoherentInv' /\ Lineage /\ Repeats /\ [RedisNext]_redisVars => Repeats'
    BY RepeatsKept
  <1> QED BY <1>1, <1>2, LineageInvariance, PTL DEF RedisSpec

\* A Release, Transfer or Recover that go-redis sends again after its answer was
\* lost changes nothing, however often: the placement of its snapshot is gone for
\* good, unless the creation of that lifetime ran again.
THEOREM MutationsApplyOnce == RedisSpec => MutationAppliedOnce
  <1>1. ASSUME CoherentInv, Repeats, [RedisNext]_redisVars, NEW c \in Client,
               call[c].pc = "eval", call[c].op \in MutateOps, call[c].resent,
               call'[c] # call[c], call[c].raw.id \notin reused
        PROVE  placement' = placement
    <2>1. call \in [Client -> {Idle} \cup Evals \cup Answers \cup Rereads]
      BY <1>1 DEF CoherentInv, ClientTypeOK
    <2>2. call[c] \in Evals /\ Gone(call[c].grain, call[c].raw)
      BY <1>1, CallPhase DEF Repeats, Spent
    <2>3. ~Eval(c)
      <3> SUFFICES ASSUME Eval(c)
                   PROVE  FALSE
        OBVIOUS
      <3>1. call[c].raw = placement[call[c].grain]
        BY <1>1, EvalShape DEF WritesEffect, Reports, MutateOps
      <3>2. call[c].raw.version \in Nat
        BY <2>2 DEF Gone, PlacementRecord
      <3> QED BY <1>1, <2>2, <3>1, <3>2 DEF Gone
    <2>4. ClientStep(c)
      <3>1. ASSUME NEW d \in Client, d # c, ClientStep(d)
            PROVE  call'[c] = call[c]
        <4>1. ASSUME NEW k, call' = [call EXCEPT ![d] = k]
              PROVE  call'[c] = call[c]
          BY <2>1, <3>1, <4>1
        <4>2. Eval(d) => \E k : call' = [call EXCEPT ![d] = k]
          BY DEF Eval, Answered
        <4> QED BY <1>1, <3>1, <4>1, <4>2, ClientStepShape DEF Started, Dropped, Resend, Receive
      <3> QED BY <1>1, <3>1, OtherStepShape DEF RedisNext
    <2>5. UNCHANGED storedVars
      BY <1>1, <2>3, <2>4, ClientStepShape DEF Started, Dropped, Resend, Receive
    <2> QED BY <2>5 DEF storedVars, directoryVars, placementVars
  <1>2. CoherentInv /\ Repeats /\ [RedisNext]_redisVars
          => [\A c \in Client :
                (call[c].pc = "eval" /\ call[c].op \in MutateOps /\ call[c].resent
                   /\ call'[c] # call[c] /\ call[c].raw.id \notin reused)
                  => placement' = placement]_redisVars
    BY <1>1
  <1> QED BY <1>2, HistoryInvariance, PTL DEF RedisSpec, MutationAppliedOnce

-----------------------------------------------------------------------------
(* A route never outlives the lease it came from.                          *)

\* No lease is longer than the TTL, every deadline a process was given is
\* backed by the lease of the session it names, and a call counts from a moment
\* that has passed.
RouteGranted(p, until) == p \in PlacementRecord /\ Backed(p.node, p.session, until)

CallGranted(k) ==
    /\ k \in Evals => k.start <= now
    /\ k \in Answers => /\ k.again \in Evals => k.again.start <= now
                        /\ k.op \in {"lookup", "resolve"} => RouteGranted(k.p, ValidUntil(k))

Routes ==
    /\ \A n \in Node : Live(n) => node[n].expire <= now + TTL
    /\ \A c \in Client : held[c].until # 0 => RouteGranted(held[c].p, held[c].until)
    /\ \A c \in Client : CallGranted(call[c])

\* A step on the records, and no step of the clock into the past.
LEMMA RecordsStep ==
    ASSUME CoherentInv, CoherentInv', Routes, ~ClockMayStepBack, [RedisNext]_redisVars
    PROVE  /\ now' >= now
           /\ \A n \in Node : RecordStep(n) /\ (Live(n)' => node'[n].expire <= now' + TTL)
  <1>1. now \in Nat /\ RegistryInv /\ RegistryInv'
    BY DEF CoherentInv, DirectoryInv, RegistryInv, RegistryTypeOK
  <1>2. [RegistryNext]_registryVars \/ UNCHANGED <<now, node>>
    <2>1. ASSUME NEW c \in Client, ClientStep(c)
          PROVE  UNCHANGED <<now, node>>
      BY <2>1, ClientStepShape, EvalShape, ResendShape, ReceiveShape
      DEF Started, Dropped, storedVars, directoryVars, registryVars
    <2> QED BY <2>1, OtherStepShape DEF RedisNext
  <1>3. now' = now \/ now' = now + 1
    BY <1>2 DEF RegistryNext, registryVars, Tick, StepBack, RegisterNode, Install, RenewNode,
                ReplaceNodeSession, UnregisterNode, Remove, DrainNode, MarkNodeInvalid,
                RestoreNode, ExpireNodeLease
  <1>4. now' >= now
    <2>1. PICK t : t = now'
      OBVIOUS
    <2>2. t >= now
      BY <1>1, <1>3, <2>1
    <2> QED BY <2>1, <2>2
  <1>5. ASSUME NEW n \in Node
        PROVE  RecordStep(n)
    BY <1>1, <1>2, <1>4, RecordSteps DEF Routes, RegistrySteps, registryVars, RecordStep
  <1> QED BY <1>1, <1>4, <1>5, LeaseBounded DEF Routes

LEMMA GrantKept ==
    ASSUME CoherentInv, CoherentInv', Routes, ~ClockMayStepBack, [RedisNext]_redisVars,
           NEW p, NEW until \in Int, RouteGranted(p, until)
    PROVE  RouteGranted(p, until)'
  <1>1. p.node \in Node /\ p.session \in Session
    BY DEF RouteGranted, PlacementRecord
  <1> QED BY <1>1, RecordsStep, BackedKept DEF RouteGranted, CoherentInv, DirectoryInv

LEMMA CallGrantKept ==
    ASSUME CoherentInv, CoherentInv', Routes, ~ClockMayStepBack, [RedisNext]_redisVars,
           NEW k, CallGranted(k)
    PROVE  CallGranted(k)'
  <1>1. PICK t \in Nat : t = now'
    BY DEF CoherentInv, DirectoryInv, RegistryInv, RegistryTypeOK
  <1>2. now \in Nat /\ t >= now
    BY <1>1, RecordsStep DEF CoherentInv, DirectoryInv, RegistryInv, RegistryTypeOK
  <1>3. ASSUME NEW e \in Evals, e.start <= now
        PROVE  e.start <= t
    <2>1. e.start \in Nat
      BY DEF Evals
    <2> QED BY <1>2, <1>3, <2>1
  <1>4. k \in Answers => ValidUntil(k) \in Int
    BY DEF Answers, ValidUntil
  <1> QED BY <1>1, <1>3, <1>4, GrantKept DEF CallGranted

\* Reported or just written, a route names the session of a node that serves.
LEMMA AnswersServe ==
    ASSUME CoherentInv, CoherentInv', NEW k \in Evals, k.op \in {"lookup", "resolve"},
           NEW id, Reports(k) \/ WritesEffect(k, id)
    PROVE  /\ placement'[k.grain] \in PlacementRecord
           /\ Healthy(placement'[k.grain].node, placement'[k.grain].session)
  <1>1. placement \in [Grain -> Placements] /\ k.grain \in Grain
    BY DEF CoherentInv, DirectoryInv, PlacementTypeOK, Placements, Evals
  <1>2. placement'[k.grain] \in PlacementRecord
    BY AnswerRecord DEF CoherentInv
  <1>3. CASE Reports(k)
    <2>1. placement'[k.grain] = k.raw /\ Healthy(k.raw.node, k.raw.session)
      BY <1>3 DEF Reports, directoryVars, placementVars
    <2> QED BY <1>2, <2>1
  <1>4. CASE Created(k.grain, id)
    <2>1. PICK n \in Node :
            /\ Healthy(n, node[n].session)
            /\ placement'[k.grain] = [id |-> id, node |-> n, session |-> node[n].session,
                                      version |-> 1]
      BY <1>1, <1>4 DEF Created
    <2> QED BY <1>2, <2>1
  <1>5. CASE Succeeded(k.grain)
    <2>1. PICK n \in Node :
            /\ Healthy(n, node[n].session)
            /\ placement'[k.grain] = Succession(placement[k.grain], n, node[n].session)
      BY <1>1, <1>5 DEF Succeeded
    <2>2. placement'[k.grain].node = n /\ placement'[k.grain].session = node[n].session
      BY <2>1 DEF Succession
    <2> QED BY <1>2, <2>1, <2>2
  <1> QED BY <1>3, <1>4, <1>5 DEF WritesEffect

\* ValidUntil counts the lease that remained from a moment before the script.
LEMMA AnswerGranted ==
    ASSUME CoherentInv, CoherentInv', Routes, ~ClockMayStepBack, [RedisNext]_redisVars,
           NEW c \in Client, Eval(c)
    PROVE  \E a \in Answers : call' = [call EXCEPT ![c] = a] /\ CallGranted(a)'
  <1>1. PICK k \in Evals : k = call[c]
    BY EvalShape
  <1>2. PICK id \in PlacementID \cup {NoID} : /\ Answered(c, k, id)
                                              /\ WritesEffect(k, id) \/ Reports(k)
    BY <1>1, EvalShape
  <1>3. PICK start \in RequestStart(k) : call' = [call EXCEPT ![c] = AnswerOf(k, id, start)]
    BY <1>2 DEF Answered, AnswerOf
  <1>4. PICK a : a = AnswerOf(k, id, start)
    OBVIOUS
  <1>5. a \in Answers /\ start \in Nat
    BY <1>2, <1>4, AnswerTyped DEF CoherentInv
  <1>6. k.start <= now /\ k.start \in Nat /\ now \in Nat
    BY <1>1 DEF Routes, CallGranted, Evals, CoherentInv, DirectoryInv, RegistryInv, RegistryTypeOK
  <1>7. start <= now
    BY <1>6 DEF RequestStart
  <1>8. UNCHANGED <<now, node, lease>>
    BY EvalShape
  <1>9. a.again \in Evals => a.again.start <= now
    <2>1. CASE a.again = Idle
      BY <2>1, Phases
    <2>2. CASE a.again = Again(k, id, start)
      BY <1>7, <2>2 DEF Again, Evals
    <2> QED BY <1>4, <2>1, <2>2 DEF AnswerOf
  <1>10. ASSUME a.op \in {"lookup", "resolve"}
         PROVE  RouteGranted(a.p, ValidUntil(a))
    <2>1. /\ a.op = k.op /\ a.p = placement'[k.grain] /\ a.start = start
          /\ a.p # NoPlacement => a.remaining = lease[a.p.node] - now
      BY <1>4 DEF AnswerOf
    <2>2. a.p \in PlacementRecord /\ Healthy(a.p.node, a.p.session)
      BY <1>2, <1>10, <2>1, AnswersServe
    <2>3. a.p # NoPlacement /\ a.p.node \in Node
      BY <2>2, EventsAssumption DEF PlacementRecord, NoPlacement
    <2>4. /\ Live(a.p.node) /\ lease[a.p.node] = node[a.p.node].expire
          /\ lease[a.p.node] \in Nat /\ node[a.p.node].expire <= now + TTL /\ TTL \in Nat
      BY <2>2, <2>3, RegistryAssumption
      DEF Healthy, Routes, CoherentInv, DirectoryInv, RegistryInv, RegistryTypeOK
    <2>5. ValidUntil(a) = start + (lease[a.p.node] - now)
      BY <2>1, <2>3 DEF ValidUntil
    <2>6. ValidUntil(a) <= lease[a.p.node] /\ ValidUntil(a) <= now + TTL
      BY <1>5, <1>6, <1>7, <2>4, <2>5
    <2> QED BY <2>2, <2>4, <2>6 DEF RouteGranted, Backed
  <1>11. CallGranted(a)
    BY <1>5, <1>9, <1>10, Phases DEF CallGranted
  <1>12. CallGranted(a)'
    BY <1>11, CallGrantKept
  <1> QED BY <1>3, <1>4, <1>5, <1>12

LEMMA RoutesKept ==
    ASSUME CoherentInv, CoherentInv', Routes, ~ClockMayStepBack, [RedisNext]_redisVars
    PROVE  Routes'
  <1>1. /\ call \in [Client -> {Idle} \cup Evals \cup Answers \cup Rereads]
        /\ held \in [Client -> {Nothing} \cup [grain : Grain, p : PlacementRecord, until : Int]]
    BY DEF CoherentInv, ClientTypeOK
  <1>2. \A n \in Node : Live(n)' => node'[n].expire <= now' + TTL
    BY RecordsStep
  <1>3. ASSUME NEW c \in Client, NEW d \in Client, NEW k, call' = [call EXCEPT ![c] = k],
               CallGranted(k)'
        PROVE  CallGranted(call[d])'
    <2>1. CASE d = c
      BY <1>1, <1>3, <2>1
    <2>2. CASE d # c
      <3>1. PICK j : j = call[d]
        OBVIOUS
      <3>2. CallGranted(j)' /\ call'[d] = j
        BY <1>1, <1>3, <2>2, <3>1, CallGrantKept DEF Routes
      <3> QED BY <3>2
    <2> QED BY <2>1, <2>2
  <1>4. ASSUME NEW d \in Client, held'[d] = held[d], held[d].until # 0
        PROVE  RouteGranted(held[d].p, held[d].until)'
    <2>1. PICK p : p = held[d].p
      OBVIOUS
    <2>2. held[d].until \in Int
      BY <1>1 DEF Nothing
    <2>3. PICK until \in Int : until = held[d].until
      BY <2>2
    <2>4. RouteGranted(p, until)'
      BY <1>4, <2>1, <2>3, GrantKept DEF Routes
    <2>5. p = held'[d].p /\ until = held'[d].until
      BY <1>4, <2>1, <2>3
    <2> QED BY <2>4, <2>5
  <1>5. CASE UNCHANGED <<call, held>>
    <2>1. ASSUME NEW d \in Client
          PROVE  CallGranted(call[d])'
      <3>1. PICK j : j = call[d]
        OBVIOUS
      <3>2. CallGranted(j)' /\ call'[d] = j
        BY <1>5, <3>1, CallGrantKept DEF Routes
      <3> QED BY <3>2
    <2>2. \A d \in Client : held'[d].until # 0 => RouteGranted(held[d].p, held[d].until)'
      BY <1>4, <1>5
    <2> QED BY <1>2, <2>1, <2>2 DEF Routes
  <1>6. ASSUME NEW c \in Client, NEW k, call' = [call EXCEPT ![c] = k], CallGranted(k)',
               held' = held
        PROVE  Routes'
    BY <1>2, <1>3, <1>4, <1>6 DEF Routes
  <1>7. ASSUME NEW c \in Client, ClientStep(c)
        PROVE  Routes'
    <2>1. CASE Started(c)
      <3>1. PICK k \in Evals : /\ call' = [call EXCEPT ![c] = k] /\ k.start = now
                               /\ UNCHANGED held
        BY <2>1 DEF Started
      <3>2. k.start <= now
        BY <3>1 DEF CoherentInv, DirectoryInv, RegistryInv, RegistryTypeOK
      <3>3. CallGranted(k)
        BY <3>2, Phases DEF CallGranted
      <3> QED BY <1>6, <3>1, <3>3, CallGrantKept
    <2>2. CASE Dropped(c)
      <3>1. PICK k \in {Idle} \cup Rereads : call' = [call EXCEPT ![c] = k] /\ UNCHANGED held
        BY <2>2 DEF Dropped
      <3>2. CallGranted(k)
        BY Phases DEF CallGranted
      <3> QED BY <1>6, <3>1, <3>2, CallGrantKept
    <2>3. CASE Eval(c)
      BY <1>6, <2>3, AnswerGranted, EvalShape
    <2>4. CASE Resend(c)
      <3>1. PICK k \in Evals : call' = [call EXCEPT ![c] = k] /\ k = call[c].again
        BY <2>4, ResendShape
      <3>2. k.start <= now
        BY <2>4, <3>1, ResendShape DEF Routes, CallGranted
      <3>3. CallGranted(k)
        BY <3>2, Phases DEF CallGranted
      <3> QED BY <1>6, <2>4, <3>1, <3>3, CallGrantKept DEF Resend
    <2>5. CASE Receive(c)
      <3>1. CallGranted(Idle)
        BY Phases DEF CallGranted
      <3>2. \A d \in Client : CallGranted(call[d])'
        BY <1>3, <2>5, <3>1, CallGrantKept, ReceiveShape
      <3>3. ASSUME NEW d \in Client, held'[d].until # 0
            PROVE  RouteGranted(held[d].p, held[d].until)'
        <4>1. CASE held'[d] = held[d]
          BY <1>4, <3>3, <4>1
        <4>2. CASE held'[d] # held[d]
          <5>1. PICK until \in Int :
                  /\ held' = [held EXCEPT ![c] = [grain |-> call[c].grain, p |-> call[c].p,
                                                  until |-> until]]
                  /\ \/ until = 0
                     \/ until = ValidUntil(call[c]) /\ call[c].op \in {"lookup", "resolve"}
            BY <1>1, <2>5, <3>3, <4>2, ReceiveShape DEF Nothing
          <5>2. PICK p : p = call[c].p
            OBVIOUS
          <5>3. held'[d].p = p /\ held'[d].until = until
            BY <1>1, <4>2, <5>1, <5>2
          <5>4. RouteGranted(p, until)
            BY <2>5, <3>3, <5>1, <5>2, <5>3, ReceiveShape DEF Routes, CallGranted
          <5>5. RouteGranted(p, until)'
            BY <5>4, GrantKept
          <5> QED BY <5>3, <5>5
        <4> QED BY <4>1, <4>2
      <3> QED BY <1>2, <3>2, <3>3 DEF Routes
    <2> QED BY <1>7, <2>1, <2>2, <2>3, <2>4, <2>5, ClientStepShape
  <1> QED BY <1>5, <1>7, OtherStepShape DEF RedisNext

LEMMA RoutesInit == RedisInit => Routes
  <1> SUFFICES ASSUME RedisInit
               PROVE  Routes
    OBVIOUS
  <1>1. \A n \in Node : ~Live(n)
    BY DEF RedisInit, DirectoryInit, RegistryInit, Live, Absent
  <1>2. \A c \in Client : held[c].until = 0 /\ call[c] = Idle
    BY DEF RedisInit, Nothing
  <1> QED BY <1>1, <1>2, Phases DEF Routes, CallGranted

\* As long as a process may use the route it was given, the session it names
\* holds an unexpired lease, unless that session was replaced or removed.  The one
\* clock must not step back: it stands for the clocks of the processes too, which
\* Go reads and compares monotonically.
THEOREM RoutesAreConservative ==
    ASSUME ~ClockMayStepBack
    PROVE  RedisSpec => []RouteConservative
  <1>1. RedisInit => CoherentInv /\ Routes
    BY CoherentInit, RoutesInit
  <1>2. CoherentInv /\ Routes /\ [RedisNext]_redisVars => (CoherentInv /\ Routes)'
    BY CoherentNext, RoutesKept
  <1>3. CoherentInv /\ Routes => RouteConservative
    <2> SUFFICES ASSUME CoherentInv, Routes, NEW c \in Client, held[c].until > now,
                        node[held[c].p.node].session = held[c].p.session
                 PROVE  Healthy(held[c].p.node, held[c].p.session)
      BY DEF RouteConservative
    <2>1. now \in Nat /\ RegistryInv /\ held[c].until \in Int
      BY DEF CoherentInv, DirectoryInv, RegistryInv, RegistryTypeOK, ClientTypeOK, Nothing
    <2>2. held[c].p \in PlacementRecord
          /\ Backed(held[c].p.node, held[c].p.session, held[c].until)
      BY <2>1 DEF Routes, RouteGranted
    <2>3. held[c].p.node \in Node
      BY <2>2 DEF PlacementRecord
    <2>4. Live(held[c].p.node) /\ held[c].until <= node[held[c].p.node].expire
      BY <2>1, <2>2 DEF Backed
    <2>5. /\ lease[held[c].p.node] = node[held[c].p.node].expire
          /\ lease[held[c].p.node] \in Nat
      BY <2>1, <2>3, <2>4 DEF RegistryInv, RegistryTypeOK, LeaseIndexCoherent
    <2> QED BY <2>1, <2>4, <2>5 DEF Healthy
  <1> QED BY <1>1, <1>2, <1>3, PTL DEF RedisSpec
=============================================================================
