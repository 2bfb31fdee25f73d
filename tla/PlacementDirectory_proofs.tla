--------------------- MODULE PlacementDirectory_proofs ---------------------
(***************************************************************************)
(* The properties of PlacementDirectory for any nodes, grains, groups and  *)
(* limits.  The inductive invariant joins the registry's with the shape of *)
(* the placements and the exactness of the index: a script takes a grain   *)
(* off its old owner's index because the placement names that owner, and   *)
(* the entry it adds is new because the counter is above all others.       *)
(*                                                                         *)
(* None of this depends on where identifiers come from, so all theorems    *)
(* but the last two are about RepeatingDirectorySpec, which DirectorySpec  *)
(* implies (DirectoryMayRepeat).                                           *)
(***************************************************************************)
EXTENDS PlacementDirectory, NodeRegistry_proofs

PlacementTypeOK ==
    /\ placement \in [Grain -> PlacementRecord \cup {NoPlacement}]
    /\ index \in [Node -> [Grain -> Nat]]
    /\ seq \in 0 .. MaxSequence
    /\ spent \subseteq PlacementID

DirectoryInv == RegistryInv /\ PlacementTypeOK /\ IndexCoherent

\* A stored record names an identifier and a node, NoPlacement names neither.
LEMMA StoredRecord ==
    ASSUME PlacementTypeOK, NEW g \in Grain, placement[g] # NoPlacement
    PROVE  placement[g] \in PlacementRecord
  BY DEF PlacementTypeOK

\* The next owner of a lifetime is a record again.
LEMMA SuccessionRecord ==
    ASSUME NEW p \in PlacementRecord, NEW n \in Node, NEW s \in Session
    PROVE  /\ Succession(p, n, s) \in PlacementRecord
           /\ Succession(p, n, s).node = n
  BY DEF PlacementRecord, Succession

\* A node that may be given a grain, or whose owner is usable, has a session.
LEMMA SessionOfLive ==
    ASSUME RegistryInv, NEW n \in Node, Live(n)
    PROVE  node[n].session \in Session
  BY RecordOfLive DEF RegistryInv, NodeRecord

-----------------------------------------------------------------------------
(* The writes of the scripts.                                              *)

\* What a store does to the index, entry by entry: the grain is filed under its
\* new owner alone, under a score no entry had before.
LEMMA StoreEntries ==
    ASSUME PlacementTypeOK, IndexCoherent,
           NEW g \in Grain, NEW p \in PlacementRecord, Store(g, placement[g], p)
    PROVE  /\ seq' = seq + 1
           /\ \A n \in Node, h \in Grain :
                index'[n][h] = IF h = g THEN (IF n = p.node THEN seq + 1 ELSE 0)
                               ELSE index[n][h]
           /\ \A h \in Grain : placement'[h] = IF h = g THEN p ELSE placement[h]
  <1>1. \A n \in Node : index[n] \in [Grain -> Nat]
    BY DEF PlacementTypeOK
  <1>2. \A n \in Node, h \in Grain :
           index'[n][h] = IF h = g THEN (IF n = p.node THEN seq + 1
                                         ELSE IF n = placement[g].node THEN 0
                                         ELSE index[n][g])
                          ELSE index[n][h]
    BY <1>1 DEF Store
  <1>3. \A n \in Node : n # placement[g].node => index[n][g] = 0
    BY DEF IndexCoherent
  <1>4. \A h \in Grain : placement'[h] = IF h = g THEN p ELSE placement[h]
    BY DEF Store, PlacementTypeOK
  <1> QED BY <1>2, <1>3, <1>4 DEF Store

\* A store keeps the shape of the placements and of the index.
LEMMA StoreKeepsType ==
    ASSUME PlacementTypeOK, IndexCoherent,
           NEW g \in Grain, NEW p \in PlacementRecord, Store(g, placement[g], p)
    PROVE  /\ placement' \in [Grain -> PlacementRecord \cup {NoPlacement}]
           /\ index' \in [Node -> [Grain -> Nat]]
           /\ seq' \in 0 .. MaxSequence
  <1>1. seq \in Nat /\ seq < MaxSequence /\ seq' = seq + 1
    BY PlacementAssumption DEF PlacementTypeOK, Store, CounterReadable
  <1>2. index' \in [Node -> [Grain -> Nat]]
    <2>1. \A n \in Node : index[n] \in [Grain -> Nat]
      BY DEF PlacementTypeOK
    <2> DEFINE entry(n) == [index[n] EXCEPT ![g] = IF n = p.node THEN seq + 1
                                                   ELSE IF n = placement[g].node THEN 0 ELSE @]
    <2>2. \A n \in Node : entry(n) \in [Grain -> Nat]
      BY <1>1, <2>1
    <2>3. index' = [n \in Node |-> entry(n)]
      BY DEF Store
    <2> HIDE DEF entry
    <2> QED BY <2>2, <2>3
  <1>3. seq' \in 0 .. MaxSequence
    BY <1>1, PlacementAssumption
  <1> QED BY <1>2, <1>3 DEF PlacementTypeOK, Store

\* A store keeps the index exact.
LEMMA StoreKeepsIndex ==
    ASSUME PlacementTypeOK, IndexCoherent,
           NEW g \in Grain, NEW p \in PlacementRecord, Store(g, placement[g], p)
    PROVE  IndexCoherent'
  <1>1. /\ seq' = seq + 1
        /\ \A n \in Node, h \in Grain :
             index'[n][h] = IF h = g THEN (IF n = p.node THEN seq + 1 ELSE 0)
                            ELSE index[n][h]
        /\ \A h \in Grain : placement'[h] = IF h = g THEN p ELSE placement[h]
    BY StoreEntries
  <1>2. seq \in Nat /\ p.node \in Node
    BY PlacementAssumption DEF PlacementTypeOK, PlacementRecord
  <1>3. \A n \in Node, h \in Grain : index[n][h] \in Nat /\ index[n][h] <= seq
    BY DEF PlacementTypeOK, IndexCoherent
  <1>4. \A n \in Node, h \in Grain : index'[n][h] # 0 <=> placement'[h].node = n
    BY <1>1, <1>2 DEF IndexCoherent
  <1>5. \A n, m \in Node, h, k \in Grain :
           index'[n][h] # 0 /\ index'[n][h] = index'[m][k] => n = m /\ h = k
    <2> SUFFICES ASSUME NEW n \in Node, NEW m \in Node, NEW h \in Grain, NEW k \in Grain,
                        index'[n][h] # 0, index'[n][h] = index'[m][k]
                 PROVE  n = m /\ h = k
      OBVIOUS
    <2>1. CASE h = g /\ k = g
      BY <1>1, <1>2, <2>1
    <2>2. CASE h = g /\ k # g
      <3>1. n = p.node
        BY <1>1, <2>2
      <3>2. index[m][k] = seq + 1
        BY <1>1, <2>2, <3>1
      <3>3. index[m][k] \in Nat /\ index[m][k] <= seq
        BY <1>3
      <3> QED BY <1>2, <3>2, <3>3
    <2>3. CASE h # g /\ k = g
      <3>1. m = p.node
        BY <1>1, <2>3
      <3>2. index[n][h] = seq + 1
        BY <1>1, <2>3, <3>1
      <3>3. index[n][h] \in Nat /\ index[n][h] <= seq
        BY <1>3
      <3> QED BY <1>2, <3>2, <3>3
    <2>4. CASE h # g /\ k # g
      <3>1. index'[n][h] = index[n][h] /\ index'[m][k] = index[m][k]
        BY <1>1, <2>4
      <3>2. index[n][h] # 0 /\ index[n][h] = index[m][k]
        BY <3>1
      <3> QED BY <3>2 DEF IndexCoherent
    <2> QED BY <2>1, <2>2, <2>3, <2>4
  <1>6. \A n \in Node, h \in Grain : index'[n][h] <= seq'
    BY <1>1, <1>2, <1>3
  <1> QED BY <1>4, <1>5, <1>6 DEF IndexCoherent

\* A script that stores a placement keeps the whole invariant.
LEMMA StoreKeepsInv ==
    ASSUME DirectoryInv, NEW g \in Grain, NEW p \in PlacementRecord,
           Store(g, placement[g], p), spent' \subseteq PlacementID,
           UNCHANGED <<now, node, members, lease, invalid>>
    PROVE  DirectoryInv'
  <1>1. RegistryInv'
    BY OtherKeepsInv DEF DirectoryInv, RegistryInv, RegistryTypeOK
  <1>2. PlacementTypeOK'
    BY StoreKeepsType DEF DirectoryInv, PlacementTypeOK
  <1>3. IndexCoherent'
    BY StoreKeepsIndex DEF DirectoryInv
  <1> QED BY <1>1, <1>2, <1>3 DEF DirectoryInv

\* So does a script that leaves placements, index and counter alone.
LEMMA RegistryStepKeepsInv ==
    ASSUME DirectoryInv, RegistryInv', UNCHANGED placementVars
    PROVE  DirectoryInv'
  <1>1. PlacementTypeOK'
    BY DEF DirectoryInv, PlacementTypeOK, placementVars
  <1>2. IndexCoherent'
    BY DEF DirectoryInv, IndexCoherent, placementVars
  <1> QED BY <1>1, <1>2 DEF DirectoryInv

-----------------------------------------------------------------------------
(* One lemma per script.                                                   *)

\* The choice of a strategy falls on a node that is alive.
LEMMA CandidateIsLive ==
    ASSUME RegistryInv, NEW group, NEW n \in Candidates(group)
    PROVE  n \in Node /\ Live(n) /\ Schedulable(n)
  BY DEF RegistryInv, RegistryTypeOK, Candidates, Schedulable, Live

\* A first placement, under any identifier.
LEMMA CreateKeepsInv ==
    ASSUME DirectoryInv, NEW g \in Grain, NEW group, NEW id \in PlacementID \cup {NoID},
           ~Placed(g), Create(g, group, id)
    PROVE  DirectoryInv'
  <1>1. id \in PlacementID
    BY DEF Create
  <1>2. PICK n \in Candidates(group) :
           LET p == [id |-> id, node |-> n, session |-> node[n].session, version |-> 1]
           IN Store(g, NoPlacement, p) /\ spent' = spent \cup {id}
              /\ UNCHANGED <<now, node, members, lease, invalid>>
    BY DEF Create
  <1> DEFINE p == [id |-> id, node |-> n, session |-> node[n].session, version |-> 1]
  <1>3. n \in Node /\ node[n].session \in Session
    BY CandidateIsLive, SessionOfLive DEF DirectoryInv
  <1>4. p \in PlacementRecord
    BY <1>1, <1>3 DEF PlacementRecord
  <1>5. Store(g, placement[g], p)
    BY <1>2 DEF Placed
  <1>6. spent' \subseteq PlacementID
    BY <1>1, <1>2 DEF DirectoryInv, PlacementTypeOK
  <1> HIDE DEF p
  <1> QED BY <1>2, <1>4, <1>5, <1>6, StoreKeepsInv

\* A route refreshed in place: the owner's node, and so the index, stays.
LEMMA RefreshKeepsInv ==
    ASSUME DirectoryInv, NEW g \in Grain, NEW group,
           RefreshSession(g, group, placement[g])
    PROVE  DirectoryInv'
  <1> DEFINE raw == placement[g]
             p == Succession(raw, raw.node, node[raw.node].session)
  <1>1. raw \in PlacementRecord
    BY StoredRecord DEF DirectoryInv, RefreshSession
  <1>2. raw.node \in Node
    BY <1>1 DEF PlacementRecord
  <1>3. node[raw.node].session \in Session
    BY <1>2, SessionOfLive DEF DirectoryInv, RefreshSession, OwnerUsable, Healthy
  <1>4. p \in PlacementRecord /\ p.node = raw.node
    BY <1>1, <1>2, <1>3, SuccessionRecord
  <1>5. placement' = [placement EXCEPT ![g] = p]
    BY DEF RefreshSession
  <1>6. UNCHANGED <<now, node, members, lease, invalid, index, seq, spent>>
    BY DEF RefreshSession
  <1>7. RegistryInv'
    BY <1>6, OtherKeepsInv DEF DirectoryInv, RegistryInv, RegistryTypeOK
  <1> HIDE DEF p
  <1>8. PlacementTypeOK'
    BY <1>4, <1>5, <1>6 DEF DirectoryInv, PlacementTypeOK
  <1>9. \A h \in Grain : placement'[h].node = placement[h].node
    BY <1>4, <1>5 DEF DirectoryInv, PlacementTypeOK
  <1>10. IndexCoherent'
    BY <1>6, <1>9 DEF DirectoryInv, IndexCoherent
  <1> QED BY <1>7, <1>8, <1>10 DEF DirectoryInv

\* The same lifetime under another owner, stored and filed anew.
LEMMA SuccessionKeepsInv ==
    ASSUME DirectoryInv, NEW g \in Grain, NEW n \in Node,
           placement[g] # NoPlacement, Live(n),
           Store(g, placement[g], Succession(placement[g], n, node[n].session)),
           UNCHANGED <<now, node, members, lease, invalid, spent>>
    PROVE  DirectoryInv'
  <1>1. placement[g] \in PlacementRecord
    BY StoredRecord DEF DirectoryInv
  <1>2. node[n].session \in Session
    BY SessionOfLive DEF DirectoryInv
  <1>3. Succession(placement[g], n, node[n].session) \in PlacementRecord
    BY <1>1, <1>2, SuccessionRecord
  <1>4. spent' \subseteq PlacementID
    BY DEF DirectoryInv, PlacementTypeOK
  <1> QED BY <1>3, <1>4, StoreKeepsInv

\* A grain moved away from an owner that an operator marked invalid.
LEMMA MoveKeepsInv ==
    ASSUME DirectoryInv, NEW g \in Grain, NEW group, MoveFromInvalid(g, group, placement[g])
    PROVE  DirectoryInv'
  <1>1. PICK n \in Candidates(group) :
          Store(g, placement[g], Succession(placement[g], n, node[n].session))
    BY DEF MoveFromInvalid
  <1>2. n \in Node /\ Live(n)
    BY CandidateIsLive DEF DirectoryInv
  <1>3. placement[g] # NoPlacement /\ UNCHANGED <<now, node, members, lease, invalid, spent>>
    BY DEF MoveFromInvalid
  <1> QED BY <1>1, <1>2, <1>3, SuccessionKeepsInv

\* A grain given to the new owner a command names.
LEMMA ReassignKeepsInv ==
    ASSUME DirectoryInv, NEW g \in Grain, NEW target \in Node, NEW event,
           placement[g] # NoPlacement, Reassign(g, placement[g], target, event)
    PROVE  DirectoryInv'
  <1>1. /\ Store(g, placement[g], Succession(placement[g], target, node[target].session))
        /\ Live(target)
        /\ UNCHANGED <<now, node, members, lease, invalid, spent>>
    BY DEF Reassign, Schedulable, Live
  <1> QED BY <1>1, SuccessionKeepsInv

\* A released grain leaves the index of the owner that gave it up.
LEMMA ReleaseKeepsInv ==
    ASSUME DirectoryInv, NEW g \in Grain, NEW cmd, Release(g, placement[g], cmd)
    PROVE  DirectoryInv'
  <1>1. placement[g] \in PlacementRecord
    BY StoredRecord DEF DirectoryInv, Release, Addressed
  <1>2. placement[g].node \in Node
    BY <1>1 DEF PlacementRecord
  <1>3. \A h \in Grain : placement'[h] = IF h = g THEN NoPlacement ELSE placement[h]
    BY DEF Release, DirectoryInv, PlacementTypeOK
  <1>4. \A n \in Node, h \in Grain :
          index'[n][h] = IF n = placement[g].node /\ h = g THEN 0 ELSE index[n][h]
    BY DEF Release, DirectoryInv, PlacementTypeOK
  <1>5. UNCHANGED <<now, node, members, lease, invalid, seq, spent>>
    BY DEF Release
  <1>6. RegistryInv'
    BY <1>5, OtherKeepsInv DEF DirectoryInv, RegistryInv, RegistryTypeOK
  <1>7. PlacementTypeOK'
    BY <1>2 DEF Release, DirectoryInv, PlacementTypeOK
  <1>8. \A n \in Node : NoPlacement.node # n
    BY EventsAssumption DEF NoPlacement
  <1>9. \A n \in Node, h \in Grain : index'[n][h] # 0 <=> placement'[h].node = n
    BY <1>3, <1>4, <1>8 DEF DirectoryInv, IndexCoherent
  <1>10. \A n, m \in Node, h, k \in Grain :
           index'[n][h] # 0 /\ index'[n][h] = index'[m][k] => n = m /\ h = k
    BY <1>4 DEF DirectoryInv, IndexCoherent
  <1>11. \A n \in Node, h \in Grain : index'[n][h] <= seq'
    BY <1>4, <1>5, PlacementAssumption DEF DirectoryInv, IndexCoherent, PlacementTypeOK
  <1> QED BY <1>6, <1>7, <1>9, <1>10, <1>11 DEF DirectoryInv, IndexCoherent

\* The identifiers a step may bring, fresh or not.
LEMMA StepIdentifiers ==
    ASSUME DirectoryInv
    PROVE  FreshIDs \subseteq PlacementID \cup {NoID} /\ spent \subseteq PlacementID
  BY DEF FreshIDs, DirectoryInv, PlacementTypeOK

\* Every operation on a grain keeps the invariant.
LEMMA PlacementStepKeepsInv ==
    ASSUME DirectoryInv, PlacementStep \/ Recreate
    PROVE  DirectoryInv'
  <1>1. PICK g \in Grain :
          \/ \E group \in Group, id \in PlacementID \cup {NoID} :
               \/ Allocate(g, group, id)
               \/ ResolveRoute(g, group, id, placement[g])
          \/ Release(g, placement[g], placement[g])
          \/ RenewPlacement(g, placement[g], placement[g])
          \/ \E target \in Node :
               \/ Transfer(g, placement[g], placement[g], NoNode, target)
               \/ Recover(g, placement[g], placement[g], target)
    BY StepIdentifiers DEF PlacementStep, Recreate
  <1>2. ASSUME NEW group \in Group, NEW id \in PlacementID \cup {NoID},
               Allocate(g, group, id) \/ ResolveRoute(g, group, id, placement[g])
        PROVE  DirectoryInv'
    <2>1. CASE Allocate(g, group, id)
      BY <2>1, CreateKeepsInv DEF Allocate
    <2>2. CASE placement[g] = NoPlacement /\ Create(g, group, id)
      BY <2>2, CreateKeepsInv DEF Placed
    <2>3. CASE RefreshSession(g, group, placement[g])
      BY <2>3, RefreshKeepsInv
    <2>4. CASE MoveFromInvalid(g, group, placement[g])
      BY <2>4, MoveKeepsInv
    <2> QED BY <1>2, <2>1, <2>2, <2>3, <2>4 DEF ResolveRoute
  <1>3. CASE Release(g, placement[g], placement[g])
    BY <1>3, ReleaseKeepsInv
  <1>4. CASE RenewPlacement(g, placement[g], placement[g])
    <2>1. UNCHANGED <<now, node, members, lease, invalid, placementVars>>
      BY <1>4 DEF RenewPlacement
    <2>2. RegistryInv'
      BY <2>1, OtherKeepsInv DEF DirectoryInv, RegistryInv, RegistryTypeOK
    <2> QED BY <2>1, <2>2, RegistryStepKeepsInv
  <1>5. ASSUME NEW target \in Node,
               \/ Transfer(g, placement[g], placement[g], NoNode, target)
               \/ Recover(g, placement[g], placement[g], target)
        PROVE  DirectoryInv'
    BY <1>5, ReassignKeepsInv DEF Transfer, Recover, Addressed
  <1> QED BY <1>1, <1>2, <1>3, <1>4, <1>5

\* The empty directory satisfies the invariant.
LEMMA DirectoryInvInit == DirectoryInit => DirectoryInv
  <1> SUFFICES ASSUME DirectoryInit PROVE DirectoryInv
    OBVIOUS
  <1>1. RegistryInv
    BY RegistryInvInit DEF DirectoryInit
  <1>2. PlacementTypeOK
    BY PlacementAssumption DEF DirectoryInit, PlacementTypeOK
  <1>3. IndexCoherent
    BY EventsAssumption DEF DirectoryInit, IndexCoherent, NoPlacement
  <1> QED BY <1>1, <1>2, <1>3 DEF DirectoryInv

\* Every step of the directory preserves it.
LEMMA DirectoryInvNext ==
    DirectoryInv /\ [RepeatingDirectoryNext]_directoryVars => DirectoryInv'
  <1> SUFFICES ASSUME DirectoryInv, [RepeatingDirectoryNext]_directoryVars
               PROVE  DirectoryInv'
    OBVIOUS
  <1>1. CASE RegistryStep
    <2>1. RegistryInv'
      BY <1>1, RegistryInvNext DEF DirectoryInv, RegistryStep
    <2> QED BY <1>1, <2>1, RegistryStepKeepsInv DEF RegistryStep
  <1>2. ASSUME NEW n \in Node, NEW s \in Session, CompleteDrain(n, s)
        PROVE  DirectoryInv'
    <2>1. RegistryInv'
      BY <1>2, RemoveKeepsInv DEF DirectoryInv, CompleteDrain
    <2> QED BY <1>2, <2>1, RegistryStepKeepsInv DEF CompleteDrain
  <1>3. CASE PlacementStep \/ Recreate
    BY <1>3, PlacementStepKeepsInv
  <1>4. CASE UNCHANGED directoryVars
    <2>1. RegistryInv'
      BY <1>4, RegistryInvNext DEF DirectoryInv, directoryVars
    <2> QED BY <1>4, <2>1, RegistryStepKeepsInv DEF directoryVars
  <1> QED BY <1>1, <1>2, <1>3, <1>4 DEF RepeatingDirectoryNext, DirectoryNext

\* The inductive invariant holds in every reachable state.
THEOREM DirectoryInvariance == RepeatingDirectorySpec => []DirectoryInv
  BY DirectoryInvInit, DirectoryInvNext, PTL DEF RepeatingDirectorySpec

\* A directory whose creations all run once is a special case.
LEMMA DirectoryMayRepeat == DirectorySpec => RepeatingDirectorySpec
  <1>1. [DirectoryNext]_directoryVars => [RepeatingDirectoryNext]_directoryVars
    BY DEF RepeatingDirectoryNext
  <1> QED BY <1>1, PTL DEF DirectorySpec, RepeatingDirectorySpec

-----------------------------------------------------------------------------
\* Placements, index and counter keep their shape; the counter never passes its
\* limit (read_counter in front of every INCR).
THEOREM DirectoryTypeCorrect == RepeatingDirectorySpec => []DirectoryTypeOK
  <1>1. DirectoryInv => DirectoryTypeOK
    BY DEF DirectoryInv, RegistryInv, PlacementTypeOK, DirectoryTypeOK
  <1> QED BY <1>1, DirectoryInvariance, PTL

\* Every node's index lists exactly its placements, under distinct scores.
THEOREM IndexCoherence == RepeatingDirectorySpec => []IndexCoherent
  <1>1. DirectoryInv => IndexCoherent
    BY DEF DirectoryInv
  <1> QED BY <1>1, DirectoryInvariance, PTL

\* An empty index means no placement, so a completed drain leaves none behind.
THEOREM DrainsAreComplete == RepeatingDirectorySpec => DrainLeavesNothing
  <1>1. DirectoryInv /\ [RepeatingDirectoryNext]_directoryVars
          => [\A n \in Node, s \in Session :
                CompleteDrain(n, s) => \A g \in Grain : placement[g].node # n]_directoryVars
    BY DEF DirectoryInv, IndexCoherent, CompleteDrain
  <1> QED BY <1>1, DirectoryInvariance, PTL DEF RepeatingDirectorySpec, DrainLeavesNothing

-----------------------------------------------------------------------------
(* What a step may do to the placement of one grain.                       *)

\* A step on a grain leaves the node records and every other placement alone;
\* its own grain changes with an event of its own and only towards a node that
\* may be given grains.
LEMMA PlacementStepEffect ==
    ASSUME DirectoryInv, PlacementStep \/ Recreate, NEW g \in Grain
    PROVE  /\ node' = node
           /\ placement'[g] # placement[g]
                => /\ emitted'.type \in PlacementEventTypes
                   /\ emitted'.grain = g
           /\ \/ placement'[g].node = placement[g].node
              \/ placement'[g] = NoPlacement
              \/ placement'[g].node \in Node /\ Schedulable(placement'[g].node)
  <1>1. PICK h \in Grain :
          \/ \E group \in Group, id \in PlacementID \cup {NoID} :
               \/ Allocate(h, group, id)
               \/ ResolveRoute(h, group, id, placement[h])
          \/ Release(h, placement[h], placement[h])
          \/ RenewPlacement(h, placement[h], placement[h])
          \/ \E target \in Node :
               \/ Transfer(h, placement[h], placement[h], NoNode, target)
               \/ Recover(h, placement[h], placement[h], target)
    BY StepIdentifiers DEF PlacementStep, Recreate
  <1> DEFINE Moved(p, n) == placement' = [placement EXCEPT ![h] = p] /\ p.node = n
             Event(type) == emitted'.type = type /\ emitted'.grain = h
             Goal == /\ node' = node
                     /\ placement'[g] # placement[g]
                          => /\ emitted'.type \in PlacementEventTypes
                             /\ emitted'.grain = g
                     /\ \/ placement'[g].node = placement[g].node
                        \/ placement'[g] = NoPlacement
                        \/ placement'[g].node \in Node /\ Schedulable(placement'[g].node)
  <1>2. ASSUME NEW p, NEW n \in Node, NEW type \in PlacementEventTypes, node' = node,
               Moved(p, n), Event(type),
               Schedulable(n) \/ n = placement[h].node
        PROVE  Goal
    <2>1. placement'[g] = IF g = h THEN p ELSE placement[g]
      BY <1>2 DEF DirectoryInv, PlacementTypeOK
    <2> QED BY <1>2, <2>1
  <1>3. ASSUME NEW group, NEW id, Create(h, group, id)
        PROVE  Goal
    <2>1. PICK n \in Candidates(group) :
             LET p == [id |-> id, node |-> n, session |-> node[n].session, version |-> 1]
             IN /\ Store(h, NoPlacement, p)
                /\ emitted' = PlacementEvent("PlacementCreated", h, p)
                /\ node' = node
      BY <1>3 DEF Create
    <2>2. n \in Node /\ Schedulable(n)
      BY CandidateIsLive DEF DirectoryInv
    <2> DEFINE p == [id |-> id, node |-> n, session |-> node[n].session, version |-> 1]
    <2>3. Moved(p, n) /\ Event("PlacementCreated")
      BY <2>1 DEF Store, PlacementEvent
    <2>4. "PlacementCreated" \in PlacementEventTypes
      BY DEF PlacementEventTypes
    <2> HIDE DEF p, Goal, Moved, Event
    <2> QED BY <2>1, <2>2, <2>3, <2>4, <1>2
  <1>4. ASSUME NEW n \in Node, NEW type \in PlacementEventTypes,
               Schedulable(n) \/ n = placement[h].node,
               placement' = [placement EXCEPT
                               ![h] = Succession(placement[h], n, node[n].session)],
               emitted' = PlacementEvent(type, h,
                                         Succession(placement[h], n, node[n].session)),
               node' = node
        PROVE  Goal
    <2> DEFINE p == Succession(placement[h], n, node[n].session)
    <2>1. Moved(p, n) /\ Event(type)
      BY <1>4 DEF PlacementEvent, Succession
    <2> HIDE DEF p, Goal, Moved, Event
    <2> QED BY <1>4, <2>1, <1>2
  <1>5. {"PlacementRecovered", "PlacementTransferred"} \subseteq PlacementEventTypes
    BY DEF PlacementEventTypes
  <1>6. ASSUME NEW group, RefreshSession(h, group, placement[h])
        PROVE  Goal
    <2>1. placement[h].node \in Node
      BY <1>6, StoredRecord DEF DirectoryInv, RefreshSession, PlacementRecord
    <2> HIDE DEF Goal, Moved, Event
    <2> QED BY <1>4, <1>5, <1>6, <2>1 DEF RefreshSession
  <1>7. ASSUME NEW n \in Node, Schedulable(n), NEW type \in PlacementEventTypes,
               Store(h, placement[h], Succession(placement[h], n, node[n].session)),
               emitted' = PlacementEvent(type, h,
                                         Succession(placement[h], n, node[n].session)),
               node' = node
        PROVE  Goal
    <2> HIDE DEF Goal, Moved, Event
    <2> QED BY <1>4, <1>7 DEF Store
  <1>8. ASSUME NEW group, MoveFromInvalid(h, group, placement[h])
        PROVE  Goal
    <2>1. PICK n \in Candidates(group) :
            LET q == Succession(placement[h], n, node[n].session)
            IN /\ Store(h, placement[h], q)
               /\ emitted' = PlacementEvent("PlacementRecovered", h, q)
      BY <1>8 DEF MoveFromInvalid
    <2>2. n \in Node /\ Schedulable(n)
      BY CandidateIsLive DEF DirectoryInv
    <2>3. node' = node
      BY <1>8 DEF MoveFromInvalid
    <2> HIDE DEF Goal, Moved, Event
    <2> QED BY <1>5, <1>7, <2>1, <2>2, <2>3
  <1>9. ASSUME NEW target \in Node,
               \/ Transfer(h, placement[h], placement[h], NoNode, target)
               \/ Recover(h, placement[h], placement[h], target)
        PROVE  Goal
    <2> HIDE DEF Goal, Moved, Event
    <2> QED BY <1>5, <1>7, <1>9 DEF Transfer, Recover, Reassign
  <1>10. ASSUME Release(h, placement[h], placement[h])
         PROVE  Goal
    <2>1. placement'[g] = IF g = h THEN NoPlacement ELSE placement[g]
      BY <1>10 DEF Release, DirectoryInv, PlacementTypeOK
    <2>2. emitted'.type = "PlacementReleased" /\ emitted'.grain = h /\ node' = node
      BY <1>10 DEF Release, PlacementEvent
    <2> QED BY <2>1, <2>2 DEF PlacementEventTypes
  <1>11. ASSUME RenewPlacement(h, placement[h], placement[h])
         PROVE  Goal
    BY <1>11 DEF RenewPlacement, placementVars
  <1>12. ASSUME NEW group, NEW id,
                Allocate(h, group, id) \/ ResolveRoute(h, group, id, placement[h])
         PROVE  Goal
    <2> HIDE DEF Goal, Moved, Event
    <2> QED BY <1>3, <1>6, <1>8, <1>12 DEF Allocate, ResolveRoute
  <1>13. Goal
    <2> HIDE DEF Goal, Moved, Event
    <2> QED BY <1>1, <1>9, <1>10, <1>11, <1>12
  <1> QED BY <1>13

\* A registry step withdraws a session only with an event about its node.
LEMMA RegistryStepEffect ==
    ASSUME RegistryInv, NEW n \in Node, Live(n),
           RegistryNext \/ \E m \in Node, s \in Session : Remove(m, s),
           ~(Live(n)' /\ node'[n].session = node[n].session)
    PROVE  emitted'.type \in NodeEvictingTypes /\ emitted'.node = n
  <1> DEFINE Goal == emitted'.type \in NodeEvictingTypes /\ emitted'.node = n
  <1>1. ASSUME node'[n] = node[n]
        PROVE  FALSE
    BY <1>1 DEF Live
  <1>2. ASSUME NEW m \in Node, NEW s \in Session, RegisterNode(m, s)
        PROVE  FALSE
    <2>1. m # n
      BY <1>2 DEF RegisterNode, Exists, Live
    <2> QED BY <1>1, <1>2, <2>1 DEF RegisterNode, Install, RegistryInv, RegistryTypeOK
  <1>3. ASSUME NEW m \in Node, NEW s \in Session, RenewNode(m, s)
        PROVE  FALSE
    <2>1. CASE m = n
      BY <1>3, <2>1 DEF RenewNode, Renewed, Live, RegistryInv, RegistryTypeOK
    <2>2. CASE m # n
      BY <1>1, <1>3, <2>2 DEF RenewNode, RegistryInv, RegistryTypeOK
    <2> QED BY <2>1, <2>2
  <1>4. ASSUME NEW m \in Node, NEW s \in Session, ReplaceNodeSession(m, s)
        PROVE  Goal
    <2>1. m = n
      BY <1>1, <1>4 DEF ReplaceNodeSession, Install, RegistryInv, RegistryTypeOK
    <2> QED BY <1>4, <2>1 DEF ReplaceNodeSession, Install, NodeEvent, NodeEvictingTypes
  <1>5. ASSUME NEW m \in Node, NEW s \in Session, Remove(m, s)
        PROVE  Goal
    <2>1. m = n
      BY <1>1, <1>5 DEF Remove, RegistryInv, RegistryTypeOK
    <2> QED BY <1>5, <2>1 DEF Remove, NodeEvent, NodeEvictingTypes
  <1>6. ASSUME NEW m \in Node, DrainNode(m)
        PROVE  FALSE
    <2>1. CASE m = n
      <3>1. node[n] \in NodeRecord
        BY RecordOfLive DEF RegistryInv
      <3>2. node'[n] = [node[n] EXCEPT !.status = "draining"]
        BY <1>6, <2>1 DEF DrainNode, RegistryInv, RegistryTypeOK
      <3> QED BY <3>1, <3>2 DEF Live, NodeRecord
    <2>2. CASE m # n
      BY <1>1, <1>6, <2>2 DEF DrainNode, RegistryInv, RegistryTypeOK
    <2> QED BY <2>1, <2>2
  <1>7. ASSUME NEW m \in Node, NEW score, NEW record, ExpireNodeLease(m, score, record)
        PROVE  Goal
    <2>1. m = n
      BY <1>1, <1>7 DEF ExpireNodeLease, RegistryInv, RegistryTypeOK
    <2> QED BY <1>7, <2>1 DEF ExpireNodeLease, NodeEvent, NodeEvictingTypes
  <1> QED
    BY <1>1, <1>2, <1>3, <1>4, <1>5, <1>6, <1>7
    DEF RegistryNext, Tick, StepBack, UnregisterNode, MarkNodeInvalid, RestoreNode

\* A route is withdrawn only together with an event that evicts it, whoever
\* changes what: rule 8 of docs/ontology.md.
THEOREM RouteLossIsAnnounced == RepeatingDirectorySpec => RouteLossAnnounced
  <1>1. ASSUME DirectoryInv, [RepeatingDirectoryNext]_directoryVars, NEW g \in Grain,
               Placed(g), Attended(g), ~(placement'[g] = placement[g] /\ Attended(g)')
        PROVE  Evicts(emitted', g, placement[g].node)
    <2> DEFINE n == placement[g].node
    <2>1. n \in Node
      BY <1>1, StoredRecord DEF DirectoryInv, Placed, PlacementRecord
    <2>2. Live(n) /\ node[n].session = placement[g].session
      BY <1>1 DEF Attended
    <2>3. placement'[g] = placement[g]
            => ~(Live(n)' /\ node'[n].session = node[n].session)
      BY <1>1, <2>2 DEF Attended, Live
    <2>4. CASE PlacementStep \/ Recreate
      <3>1. node' = node /\ (placement'[g] # placement[g]
                               => /\ emitted'.type \in PlacementEventTypes
                                  /\ emitted'.grain = g)
        BY <1>1, <2>4, PlacementStepEffect
      <3> QED BY <2>2, <2>3, <3>1 DEF Evicts, Live
    <2>5. CASE UNCHANGED placementVars
               /\ (RegistryNext \/ \E m \in Node, s \in Session : Remove(m, s))
      <3>1. emitted'.type \in NodeEvictingTypes /\ emitted'.node = n
        BY <1>1, <2>1, <2>2, <2>3, <2>5, RegistryStepEffect DEF DirectoryInv, placementVars
      <3> QED BY <3>1 DEF Evicts
    <2>6. CASE UNCHANGED directoryVars
      BY <2>2, <2>3, <2>6 DEF directoryVars, registryVars, placementVars, Live
    <2> QED
      BY <1>1, <2>4, <2>5, <2>6 DEF RepeatingDirectoryNext, DirectoryNext, RegistryStep, CompleteDrain
  <1>2. DirectoryInv /\ [RepeatingDirectoryNext]_directoryVars
          => [\A g \in Grain :
                (Placed(g) /\ Attended(g) /\ ~(placement'[g] = placement[g] /\ Attended(g)'))
                  => Evicts(emitted', g, placement[g].node)]_directoryVars
    BY <1>1
  <1> QED BY <1>2, DirectoryInvariance, PTL DEF RepeatingDirectorySpec, RouteLossAnnounced

\* A node on its way out never gains a grain: every script that files a grain
\* under another node looks at the status and at the invalid list first.
THEOREM UnfitNodesOnlyShrink == RepeatingDirectorySpec => UnfitNodeOnlyShrinks
  <1>1. ASSUME DirectoryInv, [RepeatingDirectoryNext]_directoryVars, NEW n \in Node,
               n \in invalid \/ node[n].status = "draining",
               NEW g \in Grain, placement'[g].node = n
        PROVE  placement[g].node = n
    <2>1. ~Schedulable(n)
      BY <1>1 DEF Schedulable
    <2>2. CASE PlacementStep \/ Recreate
      <3>1. NoPlacement.node # n
        BY EventsAssumption DEF NoPlacement
      <3> QED BY <1>1, <2>1, <2>2, <3>1, PlacementStepEffect
    <2>3. CASE UNCHANGED placement
      BY <1>1, <2>3
    <2> QED
      BY <1>1, <2>2, <2>3
      DEF RepeatingDirectoryNext, DirectoryNext, RegistryStep, CompleteDrain, placementVars, directoryVars
  <1>2. DirectoryInv /\ [RepeatingDirectoryNext]_directoryVars
          => [\A n \in Node :
                (n \in invalid \/ node[n].status = "draining")
                  => \A g \in Grain :
                       placement'[g].node = n => placement[g].node = n]_directoryVars
    BY <1>1
  <1> QED BY <1>2, DirectoryInvariance, PTL DEF RepeatingDirectorySpec, UnfitNodeOnlyShrinks
-----------------------------------------------------------------------------
(* The refinement of Ownership: every script is one step of the contract,  *)
(* or none.  The mapping is Contract in PlacementDirectory: a node is      *)
(* served by the session of its record while the record is active or       *)
(* draining.                                                               *)


\* The events and records of the contract are those of the scripts.
LEMMA SameVocabulary ==
    /\ \A type, n : Contract!NodeEvent(type, n) = NodeEvent(type, n)
    /\ \A type, g, p : Contract!PlacementEvent(type, g, p) = PlacementEvent(type, g, p)
    /\ \A p, n, s : Contract!Succession(p, n, s) = Succession(p, n, s)
    /\ Contract!NoPlacement = NoPlacement
    /\ Contract!NoEvent = NoEvent
  BY DEF Contract!NodeEvent, NodeEvent, Contract!PlacementEvent, PlacementEvent,
         Contract!Succession, Succession, Contract!NoPlacement, NoPlacement,
         Contract!NoEvent, NoEvent

\* What the mapping makes of one node.
LEMMA ServingOf ==
    ASSUME NEW n \in Node
    PROVE  Serving[n] = IF Live(n)
                        THEN [session |-> node[n].session, deadline |-> node[n].expire]
                        ELSE [session |-> NoSession, deadline |-> 0]
  BY DEF Serving, Live

\* The same after the step.
LEMMA ServingNext ==
    ASSUME NEW n \in Node
    PROVE  Serving'[n] = IF Live(n)'
                         THEN [session |-> node'[n].session, deadline |-> node'[n].expire]
                         ELSE [session |-> NoSession, deadline |-> 0]
  BY DEF Serving, Live

\* A live node is served by its session until the deadline of its record.
LEMMA AliveNode ==
    ASSUME RegistryInv, NEW n \in Node, Live(n)
    PROVE  /\ Serving[n].session = node[n].session
           /\ Serving[n].deadline = node[n].expire
           /\ Serving[n] # Contract!Vacant
           /\ node[n].session \in Session /\ node[n].expire \in Nat
           /\ Contract!Alive(n) <=> lease[n] > now
  <1>1. node[n] \in NodeRecord
    BY RecordOfLive DEF RegistryInv
  <1>2. node[n].session \in Session /\ node[n].expire \in Nat
    BY <1>1 DEF NodeRecord
  <1>3. Serving[n] = [session |-> node[n].session, deadline |-> node[n].expire]
    BY ServingOf
  <1>4. Serving[n].session = node[n].session /\ Serving[n].deadline = node[n].expire
    BY <1>3
  <1>5. Serving[n] # Contract!Vacant
    <2>1. Contract!Vacant.session = NoSession
      BY DEF Contract!Vacant
    <2> QED BY <1>2, <1>4, <2>1, EventsAssumption
  <1>6. lease[n] = node[n].expire
    BY DEF RegistryInv, LeaseIndexCoherent
  <1> QED BY <1>2, <1>4, <1>5, <1>6 DEF Contract!Alive

\* A placement the contract trusts is one the scripts find healthy.
LEMMA TrustedIsHealthy ==
    ASSUME RegistryInv, NEW p \in PlacementRecord
    PROVE  Contract!Trusted(p) <=> Healthy(p.node, p.session)
  <1>1. p.node \in Node /\ p.session \in Session
    BY DEF PlacementRecord
  <1>2. p # NoPlacement
    BY <1>1, EventsAssumption DEF NoPlacement
  <1>3. CASE Live(p.node)
    <2>1. lease[p.node] = node[p.node].expire
      BY <1>1, <1>3 DEF RegistryInv, LeaseIndexCoherent
    <2> QED BY <1>1, <1>2, <1>3, <2>1, AliveNode DEF Contract!Trusted, Contract!NoPlacement, NoPlacement, Healthy
  <1>4. CASE ~Live(p.node)
    <2>1. Serving[p.node] = Contract!Vacant
      BY <1>1, <1>4, ServingOf DEF Contract!Vacant
    <2> QED BY <1>4, <2>1 DEF Contract!Trusted, Contract!Alive, Healthy
  <1> QED BY <1>3, <1>4

-----------------------------------------------------------------------------
(* Steps of the registry.                                                  *)

\* A step that leaves the sessions and deadlines of all nodes alone.
LEMMA ServingKept ==
    ASSUME node' = node
    PROVE  Serving' = Serving
  BY DEF Serving, Live

\* A step on one node changes the mapping at that node only.
LEMMA ServingAt ==
    ASSUME RegistryInv, NEW n \in Node, NEW r, node' = [node EXCEPT ![n] = r]
    PROVE  /\ Serving' = [Serving EXCEPT ![n] = Serving'[n]]
           /\ node'[n] = r
  <1>1. node'[n] = r /\ \A m \in Node : m # n => node'[m] = node[m]
    BY DEF RegistryInv, RegistryTypeOK
  <1>2. \A m \in Node : m # n => Serving'[m] = Serving[m]
    BY <1>1 DEF Serving
  <1>3. Serving = [m \in Node |-> Serving[m]] /\ Serving' = [m \in Node |-> Serving'[m]]
    BY DEF Serving, Live
  <1> QED BY <1>1, <1>2, <1>3

\* A new session takes a node: vacant, or from another session.
LEMMA InstallServes ==
    ASSUME RegistryInv, NEW n \in Node, NEW s \in Session, NEW type, Install(n, s, type),
           Live(n) => node[n].session # s,
           type = "NodeReplaced" \/ (type = "NodeRegistered" /\ ~Live(n)),
           UNCHANGED placementVars
    PROVE  Contract!OwnershipNext
  <1>1. node' = [node EXCEPT ![n] = Fresh(s)]
    BY DEF Install
  <1>2. Serving' = [Serving EXCEPT ![n] = Serving'[n]] /\ node'[n] = Fresh(s)
    BY <1>1, ServingAt
  <1>3. Serving'[n] = [session |-> s, deadline |-> now + TTL]
    BY <1>2, ServingNext DEF Live, Fresh
  <1>4. now + TTL > now /\ now + TTL \in Nat
    BY RegistryAssumption DEF RegistryInv, RegistryTypeOK
  <1>5. Serving[n].session # s
    <2>1. CASE Live(n)
      BY <2>1, AliveNode
    <2>2. CASE ~Live(n)
      <3>1. Serving[n] = [session |-> NoSession, deadline |-> 0]
        BY <2>2, ServingOf
      <3>2. Serving[n].session = NoSession
        BY <3>1
      <3> QED BY <3>2, EventsAssumption
    <2> QED BY <2>1, <2>2
  <1>6. ~Live(n) => Serving[n] = Contract!Vacant
    BY ServingOf DEF Contract!Vacant
  <1>7. Contract!Serve(n, s, now + TTL)
    BY <1>2, <1>3, <1>4, <1>5, <1>6, SameVocabulary DEF Contract!Serve, Install, placementVars
  <1>8. Serving'[n].deadline = now + TTL
    BY <1>3
  <1> QED BY <1>4, <1>7, <1>8 DEF Contract!OwnershipNext, Contract!SessionNext, Contract!OwnerNext

\* A renewal extends the deadline of a session that is alive.
LEMMA RenewExtends ==
    ASSUME RegistryInv, NEW n \in Node, NEW s \in Session, RenewNode(n, s),
           UNCHANGED placementVars
    PROVE  Contract!OwnershipNext
  <1> DEFINE d == RenewedDeadline(n)
  <1>1. d \in Nat /\ d >= lease[n]
    BY RenewedDeadlineBounds DEF RegistryInv
  <1>2. Live(n) /\ lease[n] = node[n].expire /\ node[n].expire > now
    BY DEF RenewNode, RegistryInv, LeaseIndexCoherent, Unexpired
  <1>3. Serving' = [Serving EXCEPT ![n] = Serving'[n]] /\ node'[n] = Renewed(n)
    BY ServingAt DEF RenewNode
  <1>4. Serving'[n] = [session |-> node[n].session, deadline |-> d]
    BY <1>2, <1>3, ServingNext DEF Live, Renewed
  <1>5. Serving[n] = [session |-> node[n].session, deadline |-> node[n].expire]
    BY <1>2, ServingOf
  <1>6. [Serving[n] EXCEPT !.deadline = d] = Serving'[n]
    BY <1>4, <1>5
  <1>7. Serving' = [Serving EXCEPT ![n].deadline = d]
    BY <1>3, <1>6
  <1>8. Contract!Alive(n) /\ d >= Serving[n].deadline
    BY <1>1, <1>2, AliveNode
  <1>9. Contract!Extend(n, d)
    BY <1>7, <1>8, SameVocabulary DEF Contract!Extend, RenewNode, placementVars
  <1>10. Serving'[n].deadline = d
    BY <1>4
  <1> QED BY <1>1, <1>9, <1>10 DEF Contract!OwnershipNext, Contract!SessionNext, Contract!OwnerNext

\* A session that leaves, or the removal of a record that was offline.
LEMMA RemoveLeaves ==
    ASSUME RegistryInv, NEW n \in Node, NEW s \in Session, Remove(n, s),
           UNCHANGED placementVars
    PROVE  Contract!OwnershipNext
  <1>1. Serving' = [Serving EXCEPT ![n] = Serving'[n]] /\ node'[n] = Absent
    BY ServingAt DEF Remove
  <1>2. Serving'[n] = Contract!Vacant
    BY <1>1, ServingNext DEF Live, Absent, Contract!Vacant
  <1>3. CASE Live(n)
    <2>1. Contract!Leave(n)
      BY <1>1, <1>2, <1>3, AliveNode, SameVocabulary DEF Contract!Leave, Remove, placementVars
    <2> QED BY <2>1 DEF Contract!OwnershipNext, Contract!SessionNext, Contract!OwnerNext
  <1>4. CASE ~Live(n)
    <2>1. Serving[n] = Contract!Vacant
      BY <1>4, ServingOf DEF Contract!Vacant
    <2>2. Serving' = Serving
      BY <1>1, <1>2, <2>1 DEF Serving
    <2>3. Contract!Notice(n)
      BY <2>2, SameVocabulary DEF Contract!Notice, Remove, placementVars
    <2> QED BY <2>3 DEF Contract!OwnershipNext, Contract!SessionNext, Contract!OwnerNext
  <1> QED BY <1>3, <1>4

\* Draining is news: session and deadline stay.
LEMMA DrainIsNotice ==
    ASSUME RegistryInv, NEW n \in Node, DrainNode(n), UNCHANGED placementVars
    PROVE  Contract!OwnershipNext
  <1>1. node[n] \in NodeRecord
    BY RecordOfLive DEF RegistryInv, DrainNode
  <1>2. Serving' = [Serving EXCEPT ![n] = Serving'[n]]
        /\ node'[n] = [node[n] EXCEPT !.status = "draining"]
    BY ServingAt DEF DrainNode
  <1>3. /\ node'[n].status = "draining" /\ node'[n].session = node[n].session
        /\ node'[n].expire = node[n].expire
    BY <1>1, <1>2 DEF NodeRecord
  <1>4. Serving'[n] = Serving[n]
    BY <1>3, ServingOf, ServingNext DEF DrainNode, Live
  <1>5. Serving' = Serving
    BY <1>2, <1>4 DEF Serving
  <1>6. Contract!Notice(n)
    BY <1>5, SameVocabulary DEF Contract!Notice, DrainNode, placementVars
  <1> QED BY <1>6 DEF Contract!OwnershipNext, Contract!SessionNext, Contract!OwnerNext

\* An expiry ends a session whose deadline has passed.
LEMMA ExpireLeaves ==
    ASSUME RegistryInv, NEW n \in Node, ExpireNodeLease(n, lease[n], node[n]),
           UNCHANGED placementVars
    PROVE  Contract!OwnershipNext
  <1>1. Live(n) /\ lease[n] <= now /\ now \in Nat /\ lease[n] \in Nat
    BY DEF ExpireNodeLease, DueAsScanned, RegistryInv, RegistryTypeOK
  <1>2. node[n] \in NodeRecord
    BY <1>1, RecordOfLive DEF RegistryInv
  <1>3. Serving' = [Serving EXCEPT ![n] = Serving'[n]]
        /\ node'[n] = [node[n] EXCEPT !.status = "offline"]
    BY ServingAt DEF ExpireNodeLease
  <1>4. node'[n].status = "offline"
    BY <1>2, <1>3 DEF NodeRecord
  <1>5. Serving'[n] = Contract!Vacant
    BY <1>4, ServingNext DEF Live, Contract!Vacant
  <1>6. Serving[n] # Contract!Vacant /\ ~Contract!Alive(n)
    BY <1>1, AliveNode
  <1>7. Contract!Leave(n)
    BY <1>3, <1>5, <1>6, SameVocabulary DEF Contract!Leave, ExpireNodeLease, placementVars
  <1> QED BY <1>7 DEF Contract!OwnershipNext, Contract!SessionNext, Contract!OwnerNext

\* Time passes, in either direction.
LEMMA ClockOnlyMoves ==
    ASSUME RegistryInv, Tick \/ StepBack, UNCHANGED placementVars
    PROVE  Contract!OwnershipNext
  <1>1. now' \in Nat
    BY DEF Tick, StepBack, RegistryInv, RegistryTypeOK
  <1>2. Serving' = Serving
    BY ServingKept DEF Tick, StepBack
  <1>3. Contract!ClockMoves(now')
    BY <1>2, SameVocabulary DEF Contract!ClockMoves, Tick, StepBack, placementVars
  <1> QED BY <1>1, <1>3 DEF Contract!OwnershipNext, Contract!SessionNext, Contract!OwnerNext

\* The invalid list is news too.
LEMMA MarksAreNotices ==
    ASSUME NEW n \in Node, MarkNodeInvalid(n) \/ RestoreNode(n), UNCHANGED placementVars
    PROVE  Contract!OwnershipNext
  <1>1. Serving' = Serving
    BY ServingKept DEF MarkNodeInvalid, RestoreNode
  <1>2. Contract!Notice(n)
    BY <1>1, SameVocabulary
    DEF Contract!Notice, MarkNodeInvalid, RestoreNode, placementVars
  <1> QED BY <1>2 DEF Contract!OwnershipNext, Contract!SessionNext, Contract!OwnerNext

LEMMA RegistryStepImplements ==
    ASSUME RegistryInv, UNCHANGED placementVars,
           RegistryNext \/ \E n \in Node, s \in Session : Remove(n, s)
    PROVE  Contract!OwnershipNext
  <1>1. ASSUME NEW n \in Node, NEW s \in Session, RegisterNode(n, s)
        PROVE  Contract!OwnershipNext
    <2>1. ~Live(n)
      BY <1>1 DEF RegisterNode, Exists, Live
    <2> QED BY <1>1, <2>1, InstallServes DEF RegisterNode
  <1>2. ASSUME NEW n \in Node, NEW s \in Session, ReplaceNodeSession(n, s)
        PROVE  Contract!OwnershipNext
    <2>1. Live(n) => node[n].session # s
      BY <1>2 DEF ReplaceNodeSession, Exists, Live
    <2> QED BY <1>2, <2>1, InstallServes DEF ReplaceNodeSession
  <1> QED
    BY <1>1, <1>2, RenewExtends, RemoveLeaves, DrainIsNotice, ExpireLeaves,
       ClockOnlyMoves, MarksAreNotices
    DEF RegistryNext, UnregisterNode

-----------------------------------------------------------------------------
(* Steps of the placements.                                                *)

\* A node that may be given a grain is alive for the contract.
LEMMA SchedulableIsAlive ==
    ASSUME RegistryInv, NEW n \in Node, Schedulable(n)
    PROVE  Contract!Alive(n) /\ Serving[n].session = node[n].session
  BY AliveNode DEF Schedulable, Live

\* A first placement claims a grain nobody owns for a node that is alive.
LEMMA CreateClaims ==
    ASSUME DirectoryInv, NEW g \in Grain, ~Placed(g), NEW group,
           NEW id \in FreshIDs, Create(g, group, id)
    PROVE  Contract!OwnershipNext
  <1>1. PICK n \in Candidates(group) :
          LET p == [id |-> id, node |-> n, session |-> node[n].session, version |-> 1]
          IN /\ placement' = [placement EXCEPT ![g] = p]
             /\ emitted' = PlacementEvent("PlacementCreated", g, p)
    BY DEF Create, Store
  <1>2. n \in Node /\ Schedulable(n)
    BY CandidateIsLive DEF DirectoryInv
  <1>3. Contract!Alive(n) /\ Serving[n].session = node[n].session
    BY <1>2, SchedulableIsAlive DEF DirectoryInv
  <1>4. id \in PlacementID \ spent
    BY EventsAssumption DEF FreshIDs, Create
  <1>5. Serving' = Serving /\ now' = now /\ spent' = spent \cup {id}
    BY ServingKept DEF Create
  <1>6. Contract!Claim(g, id, n)
    BY <1>1, <1>3, <1>4, <1>5, SameVocabulary DEF Contract!Claim, Contract!Becomes, Placed
  <1> QED BY <1>2, <1>4, <1>6 DEF Contract!OwnershipNext, Contract!SessionNext, Contract!OwnerNext

\* A placement under a new owner is a hand-over, or a take-over from an owner
\* that is not to be trusted.
LEMMA SuccessionSucceeds ==
    ASSUME RegistryInv, NEW g \in Grain, placement[g] \in PlacementRecord,
           NEW n \in Node, Live(n), lease[n] > now,
           NEW type \in {"PlacementTransferred", "PlacementRecovered"},
           type = "PlacementRecovered"
             => ~Healthy(placement[g].node, placement[g].session),
           LET p == Succession(placement[g], n, node[n].session)
           IN /\ placement' = [placement EXCEPT ![g] = p]
              /\ emitted' = PlacementEvent(type, g, p),
           UNCHANGED <<now, node, spent>>
    PROVE  Contract!OwnershipNext
  <1>1. Contract!Alive(n) /\ Serving[n].session = node[n].session
    BY AliveNode
  <1>2. placement[g] # Contract!NoPlacement
    BY EventsAssumption, SameVocabulary DEF PlacementRecord, NoPlacement
  <1>3. Serving' = Serving
    BY ServingKept
  <1>4. Contract!Succeed(g, n, type)
    BY <1>1, <1>2, <1>3, SameVocabulary DEF Contract!Succeed, Contract!Becomes
  <1>5. CASE type = "PlacementTransferred"
    BY <1>4, <1>5 DEF Contract!HandOver, Contract!OwnershipNext, Contract!SessionNext, Contract!OwnerNext
  <1>6. CASE type = "PlacementRecovered"
    <2>1. ~Contract!Trusted(placement[g])
      BY <1>6, TrustedIsHealthy
    <2>2. Contract!TakeOver(g, n)
      BY <1>4, <1>6, <2>1 DEF Contract!TakeOver
    <2> QED BY <2>2 DEF Contract!OwnershipNext, Contract!SessionNext, Contract!OwnerNext
  <1> QED BY <1>5, <1>6

\* The route to an owner that came back under a new session is a take-over.
LEMMA RefreshTakesOver ==
    ASSUME DirectoryInv, NEW g \in Grain, NEW group, RefreshSession(g, group, placement[g])
    PROVE  Contract!OwnershipNext
  <1> DEFINE n == placement[g].node
  <1>1. placement[g] \in PlacementRecord
    BY StoredRecord DEF RefreshSession, DirectoryInv, Placed
  <1>2. n \in Node
    BY <1>1 DEF PlacementRecord
  <1>3. Live(n) /\ lease[n] > now
    BY DEF RefreshSession, OwnerUsable, Healthy
  <1>4. ~Healthy(placement[g].node, placement[g].session)
    BY DEF RefreshSession, Healthy
  <1>5. LET p == Succession(placement[g], n, node[n].session)
        IN /\ placement' = [placement EXCEPT ![g] = p]
           /\ emitted' = PlacementEvent("PlacementRecovered", g, p)
    BY DEF RefreshSession
  <1>6. UNCHANGED <<now, node, spent>>
    BY DEF RefreshSession
  <1> QED
    BY <1>1, <1>2, <1>3, <1>4, <1>5, <1>6, SuccessionSucceeds DEF DirectoryInv

\* So is the move away from an owner that cannot serve.
LEMMA MoveTakesOver ==
    ASSUME DirectoryInv, NEW g \in Grain, NEW group, MoveFromInvalid(g, group, placement[g])
    PROVE  Contract!OwnershipNext
  <1>1. placement[g] \in PlacementRecord
    BY StoredRecord DEF MoveFromInvalid, DirectoryInv, Placed
  <1>2. PICK n \in Candidates(group) :
          LET p == Succession(placement[g], n, node[n].session)
          IN /\ placement' = [placement EXCEPT ![g] = p]
             /\ emitted' = PlacementEvent("PlacementRecovered", g, p)
    BY DEF MoveFromInvalid, Store
  <1>3. n \in Node /\ Live(n) /\ lease[n] > now
    BY CandidateIsLive DEF DirectoryInv, Schedulable
  <1>4. ~Healthy(placement[g].node, placement[g].session)
    BY DEF MoveFromInvalid, OwnerUsable, Healthy
  <1>5. UNCHANGED <<now, node, spent>>
    BY DEF MoveFromInvalid
  <1> QED
    BY <1>1, <1>2, <1>3, <1>4, <1>5, SuccessionSucceeds DEF DirectoryInv

\* Transfer is a hand-over, Recover a take-over.
LEMMA ReassignSucceeds ==
    ASSUME DirectoryInv, NEW g \in Grain, NEW target \in Node,
           \/ Transfer(g, placement[g], placement[g], NoNode, target)
           \/ Recover(g, placement[g], placement[g], target)
    PROVE  Contract!OwnershipNext
  <1>1. placement[g] \in PlacementRecord
    BY StoredRecord DEF Transfer, Recover, Addressed, DirectoryInv, Placed
  <1>2. ASSUME NEW type \in {"PlacementTransferred", "PlacementRecovered"},
               type = "PlacementRecovered"
                 => ~Healthy(placement[g].node, placement[g].session),
               Reassign(g, placement[g], target, type)
        PROVE  Contract!OwnershipNext
    <2>1. Live(target) /\ lease[target] > now
      BY <1>2 DEF Reassign, Schedulable, Live
    <2>2. LET p == Succession(placement[g], target, node[target].session)
          IN /\ placement' = [placement EXCEPT ![g] = p]
             /\ emitted' = PlacementEvent(type, g, p)
      BY <1>2 DEF Reassign, Store
    <2>3. UNCHANGED <<now, node, spent>>
      BY <1>2 DEF Reassign
    <2> QED BY <1>1, <1>2, <2>1, <2>2, <2>3, SuccessionSucceeds DEF DirectoryInv
  <1> QED BY <1>2 DEF Transfer, Recover

\* Release gives a grain back.
LEMMA ReleaseGivesBack ==
    ASSUME DirectoryInv, NEW g \in Grain, Release(g, placement[g], placement[g])
    PROVE  Contract!OwnershipNext
  <1>1. Serving' = Serving
    BY ServingKept DEF Release
  <1>2. Contract!GiveBack(g)
    BY <1>1, SameVocabulary DEF Contract!GiveBack, Release, Addressed
  <1> QED BY <1>2 DEF Contract!OwnershipNext, Contract!SessionNext, Contract!OwnerNext

\* A heartbeat of an owner is recorded, nothing else.
LEMMA RenewIsAudited ==
    ASSUME DirectoryInv, NEW g \in Grain, RenewPlacement(g, placement[g], placement[g])
    PROVE  Contract!OwnershipNext
  <1>1. placement[g] \in PlacementRecord
    BY StoredRecord DEF RenewPlacement, DirectoryInv, Placed
  <1>2. Contract!Trusted(placement[g])
    BY <1>1, TrustedIsHealthy DEF RenewPlacement, DirectoryInv
  <1>3. Serving' = Serving
    BY ServingKept DEF RenewPlacement
  <1>4. Contract!Audit(g)
    BY <1>2, <1>3, SameVocabulary DEF Contract!Audit, RenewPlacement, placementVars
  <1> QED BY <1>4 DEF Contract!OwnershipNext, Contract!SessionNext, Contract!OwnerNext

LEMMA PlacementStepImplements ==
    ASSUME DirectoryInv, PlacementStep
    PROVE  Contract!OwnershipNext
  <1>1. ASSUME NEW g \in Grain, NEW group \in Group, NEW id \in FreshIDs,
               Allocate(g, group, id) \/ ResolveRoute(g, group, id, placement[g])
        PROVE  Contract!OwnershipNext
    <2>1. CASE ~Placed(g) /\ Create(g, group, id)
      BY <2>1, CreateClaims
    <2>2. CASE RefreshSession(g, group, placement[g])
      BY <2>2, RefreshTakesOver
    <2>3. CASE MoveFromInvalid(g, group, placement[g])
      BY <2>3, MoveTakesOver
    <2> QED BY <1>1, <2>1, <2>2, <2>3 DEF Allocate, ResolveRoute, Placed
  <1> QED
    BY <1>1, ReassignSucceeds, ReleaseGivesBack, RenewIsAudited DEF PlacementStep

-----------------------------------------------------------------------------
LEMMA PlacementLeavesNodes ==
    ASSUME PlacementStep \/ Recreate
    PROVE  UNCHANGED <<node, lease>>
  <1>1. ASSUME NEW g \in Grain, NEW group \in Group, NEW id, NEW raw,
               Allocate(g, group, id) \/ ResolveRoute(g, group, id, raw)
        PROVE  UNCHANGED <<node, lease>>
    BY <1>1 DEF Allocate, ResolveRoute, Create, RefreshSession, MoveFromInvalid
  <1>2. ASSUME NEW g \in Grain, NEW raw,
               \/ Release(g, raw, raw) \/ RenewPlacement(g, raw, raw)
               \/ \E target \in Node : \/ Transfer(g, raw, raw, NoNode, target)
                                       \/ Recover(g, raw, raw, target)
        PROVE  UNCHANGED <<node, lease>>
    BY <1>2 DEF Release, RenewPlacement, Transfer, Recover, Reassign
  <1> QED BY <1>1, <1>2 DEF PlacementStep, Recreate

\* The placement scripts write no record and no deadline of a node, and a completed
\* drain only removes: what the registry promises of sessions holds beside them.
THEOREM ScriptsKeepLeases ==
    RepeatingDirectorySpec => []LeaseIndexCoherent /\ LeaseNeverShortened /\ OfflineIsFinal
  <1>1. DirectoryInv => LeaseIndexCoherent
    BY DEF DirectoryInv, RegistryInv
  <1>2. ASSUME DirectoryInv, [RepeatingDirectoryNext]_directoryVars, NEW n \in Node
        PROVE  LeaseKept(n) /\ OfflineKept(n)
    <2>1. RegistryInv
      BY <1>2 DEF DirectoryInv
    <2>2. CASE RegistryNext \/ UNCHANGED registryVars
      BY <2>1, <2>2, StepKept
    <2>3. ASSUME NEW m \in Node, NEW s \in Session, CompleteDrain(m, s)
          PROVE  LeaseKept(n) /\ OfflineKept(n)
      BY <2>1, <2>3, EndingKept DEF CompleteDrain
    <2>4. CASE PlacementStep \/ Recreate
      <3>1. UNCHANGED <<node, lease>>
        BY <2>4, PlacementLeavesNodes
      <3> QED BY <2>1, <3>1, UntouchedKept
    <2> QED BY <1>2, <2>2, <2>3, <2>4 DEF RepeatingDirectoryNext, DirectoryNext, RegistryStep, directoryVars
  <1>3. DirectoryInv /\ [RepeatingDirectoryNext]_directoryVars
          => [\A n \in Node :
                (Live(n) /\ Live(n)' /\ node'[n].session = node[n].session)
                  => lease'[n] >= lease[n]]_registryVars
    BY <1>2 DEF LeaseKept
  <1>4. DirectoryInv /\ [RepeatingDirectoryNext]_directoryVars
          => [\A n \in Node :
                node[n].status = "offline"
                  => \/ node'[n] = node[n]
                     \/ node'[n] = Absent
                     \/ node'[n].session # node[n].session]_registryVars
    BY <1>2 DEF OfflineKept
  <1> QED
    BY <1>1, <1>3, <1>4, DirectoryInvariance, PTL
    DEF RepeatingDirectorySpec, LeaseNeverShortened, OfflineIsFinal

-----------------------------------------------------------------------------
LEMMA DirectoryStartsEmpty == DirectoryInit => Contract!OwnershipInit
  <1> SUFFICES ASSUME DirectoryInit PROVE Contract!OwnershipInit
    OBVIOUS
  <1>1. \A n \in Node : ~Live(n)
    BY DEF DirectoryInit, RegistryInit, Live, Absent
  <1>2. Serving = [n \in Node |-> Contract!Vacant]
    BY <1>1 DEF Serving, Live, Contract!Vacant
  <1> QED BY <1>2, SameVocabulary DEF Contract!OwnershipInit, DirectoryInit, RegistryInit

LEMMA DirectoryStepImplements ==
    ASSUME DirectoryInv, [DirectoryNext]_directoryVars
    PROVE  Contract!OwnershipNext \/ UNCHANGED Contract!ownershipVars
  <1>1. CASE PlacementStep
    BY <1>1, PlacementStepImplements
  <1>2. CASE UNCHANGED placementVars
             /\ (RegistryNext \/ \E n \in Node, s \in Session : Remove(n, s))
    BY <1>2, RegistryStepImplements DEF DirectoryInv
  <1>3. CASE UNCHANGED directoryVars
    BY <1>3, ServingKept DEF Contract!ownershipVars, directoryVars, registryVars, placementVars
  <1> QED BY <1>1, <1>2, <1>3 DEF DirectoryNext, RegistryStep, CompleteDrain

\* A creation that runs again claims the grain under the old identifier.
LEMMA RecreateReclaims ==
    ASSUME DirectoryInv, NEW g \in Grain, NEW group, NEW id \in spent, Allocate(g, group, id)
    PROVE  \E h \in Grain, i \in PlacementID, n \in Node : Contract!Reclaim(h, i, n)
  <1>1. PICK n \in Candidates(group) :
          LET p == [id |-> id, node |-> n, session |-> node[n].session, version |-> 1]
          IN /\ placement' = [placement EXCEPT ![g] = p]
             /\ emitted' = PlacementEvent("PlacementCreated", g, p)
    BY DEF Allocate, Create, Store
  <1>2. n \in Node /\ Schedulable(n) /\ id \in PlacementID
    BY CandidateIsLive DEF DirectoryInv, PlacementTypeOK
  <1>3. Contract!Alive(n) /\ Serving[n].session = node[n].session
    BY <1>2, SchedulableIsAlive DEF DirectoryInv
  <1>4. Serving' = Serving /\ now' = now /\ spent' = spent
    BY ServingKept DEF Allocate, Create
  <1>5. Contract!Reclaim(g, id, n)
    BY <1>1, <1>3, <1>4, SameVocabulary
    DEF Contract!Reclaim, Contract!Becomes, Allocate, Placed
  <1> QED BY <1>2, <1>5

\* Rules 1, 3, 4 and 8 of docs/ontology.md: whatever the scripts do is
\* something the contract allows.
THEOREM DirectoryImplementsOwnership == DirectorySpec => OwnershipContract
  <1>1. DirectoryInv /\ [DirectoryNext]_directoryVars
          => [Contract!OwnershipNext]_(Contract!ownershipVars)
    BY DirectoryStepImplements
  <1> QED
    BY <1>1, DirectoryStartsEmpty, DirectoryMayRepeat, DirectoryInvariance, PTL
    DEF DirectorySpec, OwnershipContract, Contract!OwnershipSpec

\* The same promise, but for lifetimes that begin again under an identifier used
\* before, where a creation may run twice.
THEOREM RepeatingImplementsOwnership == RepeatingDirectorySpec => RepeatingContract
  <1>1. DirectoryInv /\ [RepeatingDirectoryNext]_directoryVars
          => [Contract!RepeatingNext]_(Contract!ownershipVars)
    <2> SUFFICES ASSUME DirectoryInv, [RepeatingDirectoryNext]_directoryVars
                 PROVE  Contract!RepeatingNext \/ UNCHANGED Contract!ownershipVars
      OBVIOUS
    <2>1. CASE Recreate
      <3>1. PICK g \in Grain, group \in Group, id \in spent : Allocate(g, group, id)
        BY <2>1 DEF Recreate
      <3> QED BY <3>1, RecreateReclaims DEF Contract!RepeatingNext
    <2>2. CASE [DirectoryNext]_directoryVars
      BY <2>2, DirectoryStepImplements DEF Contract!RepeatingNext
    <2> QED BY <2>1, <2>2 DEF RepeatingDirectoryNext
  <1> QED
    BY <1>1, DirectoryStartsEmpty, DirectoryInvariance, PTL
    DEF RepeatingDirectorySpec, RepeatingContract, Contract!RepeatingSpec
=============================================================================
