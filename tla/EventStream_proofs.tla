------------------------- MODULE EventStream_proofs -------------------------
(***************************************************************************)
(* The reliable event stream for any sessions, batch size, trimming length *)
(* and number of events.  What the group scripts ask of a group, and what  *)
(* a subscription does with the entries it read, keeps every entry since   *)
(* the group began with its session: handled, or still offered to it       *)
(* (Kept).  That needs the order in which a batch is worked off (Batches). *)
(* CheckContinuity compares the stream as it was before and after its      *)
(* round trips; between two equal snapshots nothing was appended, so       *)
(* nothing can have been deleted either (Snapshots, Verdicts).             *)
(***************************************************************************)
EXTENDS EventStream, FiniteSetTheorems, TLAPS

-----------------------------------------------------------------------------
(* Finite sets of entries.                                                 *)

LEMMA LeastEntry ==
    ASSUME NEW n \in Nat, NEW S \in SUBSET (0 .. n), S # {}
    PROVE  Min(S) \in S /\ \A j \in S : Min(S) <= j
  <1> DEFINE UpTo(i) == {j \in S : j <= i}
             T == {UpTo(i) : i \in S}
  <1>1. IsFiniteSet(0 .. n)
    BY FS_Interval
  <1>2. T \subseteq FiniteSubsetsOf(0 .. n) /\ T # {}
    <2>1. T \subseteq SUBSET (0 .. n) /\ T # {}
      OBVIOUS
    <2>2. FiniteSubsetsOf(0 .. n) = SUBSET (0 .. n)
      BY <1>1, FS_FiniteSubsetsOfFinite
    <2> QED BY <2>1, <2>2
  <1>3. PICK u \in T : \A v \in T : <<v, u>> \notin StrictSubsetOrdering(0 .. n)
    <2> HIDE DEF T
    <2> QED BY <1>2, FS_StrictSubsetOrderingWellFounded, WFMin
  <1>4. PICK x \in S : u = UpTo(x)
    BY <1>3
  <1>5. ASSUME NEW j \in S, j < x
        PROVE  FALSE
    <2>1. UpTo(j) \subseteq UpTo(x) /\ x \in UpTo(x) /\ x \notin UpTo(j)
      <3>1. x \in Int /\ j \in Int /\ \A k \in S : k \in Int
        OBVIOUS
      <3>2. \A k \in S : k <= j => k <= x
        BY <1>5, <3>1
      <3>3. x <= x /\ ~ (x <= j)
        BY <1>5, <3>1
      <3> QED BY <3>2, <3>3
    <2>2. UpTo(j) \in SUBSET (0 .. n) /\ UpTo(x) \in SUBSET (0 .. n)
      OBVIOUS
    <2>3. <<UpTo(j), UpTo(x)>> \in StrictSubsetOrdering(0 .. n)
      <3> HIDE DEF UpTo
      <3> QED BY <2>1, <2>2 DEF StrictSubsetOrdering
    <2> QED BY <1>3, <1>4, <2>3
  <1>6. \A j \in S : x <= j
    BY <1>5
  <1> QED BY <1>6 DEF Min

LEMMA GreatestEntry ==
    ASSUME NEW n \in Nat, NEW S \in SUBSET (0 .. n), S # {}
    PROVE  Max(S) \in S /\ \A j \in S : j <= Max(S)
  <1> DEFINE T == {n - j : j \in S}
  <1>1. T \in SUBSET (0 .. n) /\ T # {}
    <2>1. \A j \in S : n - j \in 0 .. n
      <3>1. \A j \in S : j \in Int /\ 0 <= j /\ j <= n
        OBVIOUS
      <3> QED BY <3>1
    <2>2. T \subseteq 0 .. n
      BY <2>1, Zenon
    <2>3. PICK j \in S : TRUE
      OBVIOUS
    <2>4. n - j \in T
      BY <2>3, Zenon
    <2> QED BY <2>2, <2>4, Zenon
  <1>2. PICK t \in T : \A u \in T : t <= u
    <2> HIDE DEF T
    <2> QED BY <1>1, LeastEntry
  <1>3. PICK x \in S : t = n - x
    BY <1>2
  <1>4. \A j \in S : x >= j
    BY <1>2, <1>3
  <1> QED BY <1>3, <1>4 DEF Max

\* The entries after m, up to n.
LEMMA IntervalSize ==
    ASSUME NEW m \in Nat, NEW n \in Nat, m <= n
    PROVE  IsFiniteSet((m + 1) .. n) /\ Cardinality((m + 1) .. n) = n - m
  <1>1. PICK k \in Int : k = m + 1
    OBVIOUS
  <1>2. /\ IsFiniteSet(k .. n)
        /\ Cardinality(k .. n) = IF k > n THEN 0 ELSE n - k + 1
    BY FS_Interval
  <1>3. (IF k > n THEN 0 ELSE n - k + 1) = n - m
    BY <1>1
  <1> QED BY <1>1, <1>2, <1>3

LEMMA EntriesFinite ==
    ASSUME NEW n \in Nat, NEW S \in SUBSET (0 .. n)
    PROVE  IsFiniteSet(S) /\ Cardinality(S) \in Nat
  <1>1. IsFiniteSet(0 .. n)
    BY FS_Interval
  <1>2. IsFiniteSet(S)
    BY <1>1, FS_Subset
  <1> QED BY <1>2, FS_CardinalityType

\* One XREADGROUP answers with the first entries.
LEMMA BatchOf ==
    ASSUME NEW n \in Nat, NEW S \in SUBSET (0 .. n)
    PROVE  /\ Batch(S) \subseteq S
           /\ \A i \in Batch(S), j \in S : j \in Batch(S) \/ i < j
           /\ S # {} => Batch(S) # {}
  <1> DEFINE Below(i) == {k \in S : k < i}
  <1>1. \A i \in S : IsFiniteSet(Below(i)) /\ Cardinality(Below(i)) \in Nat
    BY EntriesFinite
  <1>2. ASSUME NEW i \in Batch(S), NEW j \in S, ~ (i < j)
        PROVE  j \in Batch(S)
    <2>1. i \in S /\ Cardinality(Below(i)) < eventReadBatchSize
      BY DEF Batch
    <2>2. Below(j) \in SUBSET Below(i)
      <3>1. i \in Int /\ j \in Int /\ \A k \in S : k \in Int
        BY <2>1
      <3>2. \A k \in S : k < j => k < i
        BY <1>2, <3>1
      <3> QED BY <3>2
    <2>3. Cardinality(Below(j)) <= Cardinality(Below(i))
      BY <1>1, <2>1, <2>2, FS_Subset
    <2>4. eventReadBatchSize \in Nat
      BY StreamAssumption
    <2>5. Cardinality(Below(j)) < eventReadBatchSize
      BY <1>1, <2>1, <2>3, <2>4
    <2> QED BY <2>5 DEF Batch
  <1>3. ASSUME S # {}
        PROVE  Batch(S) # {}
    <2>1. PICK m \in S : \A j \in S : m <= j
      BY <1>3, LeastEntry
    <2>2. \A k \in S : ~ (k < m)
      <3>1. m \in Int /\ \A k \in S : k \in Int
        OBVIOUS
      <3> QED BY <2>1, <3>1
    <2>3. Cardinality(Below(m)) = 0
      BY <2>2, FS_EmptySet
    <2>4. 0 < eventReadBatchSize
      BY StreamAssumption
    <2> QED BY <2>3, <2>4 DEF Batch
  <1> QED BY <1>2, <1>3 DEF Batch

-----------------------------------------------------------------------------
(* The shape of the state.                                                 *)

Groups == [from : Nat, delivered : Nat, pending : SUBSET Nat, live : BOOLEAN]

\* Only a group that exists has entries pending.
StreamShape ==
    /\ StreamTypeOK
    /\ group \in [Consumer -> Groups]
    /\ \A c \in Consumer : group[c].live \/ group[c].pending = {}
    /\ handled \in [Consumer -> SUBSET Nat]
    /\ DOMAIN sub = Consumer

\* The reading of c is at its old entries, or at new ones.
Round(c) == IF sub[c].pc = "ack" THEN sub[c].back ELSE sub[c].pc

Batched(c) == sub[c].pc \in {"backlog", "new", "ack"}

\* A batch is a beginning of what is pending; while new entries are read
\* nothing else is pending.  The entry of an XACK was handled.
BatchOrdered(c) ==
    /\ sub[c].batch \subseteq 1 .. last
    /\ group[c].live => sub[c].batch \subseteq 1 .. group[c].delivered
    /\ sub[c].pc = "ack" => /\ sub[c].back \in {"backlog", "new"}
                            /\ sub[c].batch # {}
                            /\ Min(sub[c].batch) \in handled[c]
    /\ \A j \in group[c].pending :
         \/ j \in sub[c].batch
         \/ Round(c) = "backlog" /\ \A b \in sub[c].batch : b < j

Batches == \A c \in Consumer : Batched(c) => BatchOrdered(c)

StreamInv == StreamShape /\ Batches

LEMMA StreamFacts ==
    ASSUME StreamShape
    PROVE  /\ last \in Nat /\ deleted \in Nat /\ MaxEvents \in Nat
           /\ last <= MaxEvents /\ deleted <= last
           /\ stored \subseteq 1 .. last
           /\ \A c \in Consumer :
                /\ group[c].from \in Nat /\ group[c].delivered \in Nat
                /\ group[c].from <= group[c].delivered /\ group[c].delivered <= last
                /\ group[c].pending \subseteq 1 .. group[c].delivered
                /\ group[c].live \in BOOLEAN
                /\ handled[c] \subseteq 1 .. last
  BY StreamAssumption DEF StreamShape, StreamTypeOK, Groups

LEMMA ShapeInit == StreamInit => StreamShape
  BY StreamAssumption DEF StreamInit, StreamShape, StreamTypeOK, Groups, NoGroup

\* A group of the stream as it is.
Fits(g) ==
    /\ g \in Groups
    /\ g.from <= g.delivered /\ g.delivered <= last
    /\ g.pending \subseteq 1 .. g.delivered
    /\ g.live \/ g.pending = {}

LEMMA GroupShape ==
    ASSUME StreamShape
    PROVE  /\ Fits(NewGroup) /\ Fits(NoGroup)
           /\ \A c \in Consumer : Fits(group[c])
  <1>1. Fits(NewGroup) /\ Fits(NoGroup)
    BY StreamFacts DEF NewGroup, NoGroup, Groups, Fits
  <1>2. \A c \in Consumer : Fits(group[c])
    BY StreamFacts DEF StreamShape, Fits
  <1> QED BY <1>1, <1>2

\* What XREADGROUP > does to a group.
LEMMA ReadingAhead ==
    ASSUME StreamShape, NEW c \in Consumer, Waiting(c) # {}
    PROVE  LET ids == Batch(Waiting(c))
           IN  /\ ids # {} /\ ids \subseteq Waiting(c)
               /\ Max(ids) \in ids
               /\ ids \subseteq (group[c].delivered + 1) .. Max(ids)
               /\ Max(ids) \in Nat /\ group[c].delivered <= Max(ids) /\ Max(ids) <= last
               /\ \A i \in Waiting(c) : i \in ids \/ Max(ids) < i
  <1> DEFINE ids == Batch(Waiting(c))
  <1>1. last \in Nat /\ group[c].delivered \in Nat
    BY StreamFacts
  <1>2. \A i \in Waiting(c) : i \in Nat /\ i <= last /\ group[c].delivered < i
    BY StreamFacts DEF Waiting
  <1>3. Waiting(c) \in SUBSET (0 .. last)
    BY <1>1, <1>2
  <1>4. /\ ids \subseteq Waiting(c) /\ ids # {}
        /\ \A i \in ids, j \in Waiting(c) : j \in ids \/ i < j
    BY <1>1, <1>3, BatchOf
  <1>5. ids \in SUBSET (0 .. last)
    BY <1>3, <1>4
  <1>6. Max(ids) \in ids /\ \A j \in ids : j <= Max(ids)
    BY <1>1, <1>4, <1>5, GreatestEntry
  <1> HIDE DEF ids
  <1> QED BY <1>1, <1>2, <1>4, <1>6 DEF ids

\* The entry a subscription is at.
LEMMA AtEntry ==
    ASSUME StreamShape, NEW c \in Consumer, sub[c].batch \subseteq 1 .. last, sub[c].batch # {}
    PROVE  /\ Min(sub[c].batch) \in sub[c].batch
           /\ \A b \in sub[c].batch : Min(sub[c].batch) <= b
  <1>1. last \in Nat
    BY StreamFacts
  <1>2. sub[c].batch \in SUBSET (0 .. last)
    BY <1>1
  <1> QED BY <1>1, <1>2, LeastEntry

LEMMA ShapeKept ==
    StreamInv /\ [StreamNext]_busVars => StreamShape'
  <1> SUFFICES ASSUME StreamInv, [StreamNext]_busVars
               PROVE  StreamShape'
    OBVIOUS
  <1> USE StreamFacts DEF StreamInv, streamVars
  <1>1. CASE Publish
    <2>1. last' = last + 1 /\ last' \in 0 .. MaxEvents /\ stored' \subseteq 1 .. last'
      BY <1>1 DEF Publish
    <2>2. \A c \in Consumer : /\ group[c].delivered <= last'
                              /\ handled[c] \subseteq 1 .. last'
      BY <2>1
    <2> QED BY <1>1, <2>1, <2>2 DEF Publish, StreamShape, StreamTypeOK
  <1>2. CASE Trim \/ ForeignTrim \/ ForeignDelete
    <2>1. /\ last' = last /\ stored' \subseteq stored /\ deleted' \in 0 .. last
          /\ UNCHANGED <<group, sub, degraded, handled>>
      BY <1>2 DEF Trim, ForeignTrim, ForeignDelete
    <2> QED BY <2>1 DEF StreamShape, StreamTypeOK
  <1>3. ASSUME group' \in [Consumer -> Groups], \A c \in Consumer : Fits(group'[c]),
               UNCHANGED <<streamVars, degraded, handled>>, DOMAIN sub' = Consumer
        PROVE  StreamShape'
    BY <1>3 DEF StreamShape, StreamTypeOK, Fits
  <1>4. ASSUME UNCHANGED <<streamVars, group, handled>>, DOMAIN sub' = Consumer,
               degraded' \in [Consumer -> BOOLEAN]
        PROVE  StreamShape'
    BY <1>4 DEF StreamShape, StreamTypeOK
  <1> HIDE StreamFacts
  <1>5. ASSUME NEW c \in Consumer, Subscribe(c)
        PROVE  StreamShape'
    <2>1. /\ \A d \in Consumer : group'[d] = group[d] \/ group'[d] = NewGroup
          /\ group' \in [Consumer -> Groups] /\ DOMAIN sub' = Consumer
          /\ UNCHANGED <<streamVars, degraded, handled>>
      BY <1>5, GroupShape DEF Subscribe, StreamShape, Fits
    <2> QED BY <1>3, <2>1, GroupShape
  <1>6. ASSUME NEW c \in Consumer, NEW old \in Consumer, ReplaceConsumer(c, old)
        PROVE  StreamShape'
    <2>1. /\ \A d \in Consumer :
               group'[d] = group[d] \/ group'[d] = NoGroup \/ group'[d] = NewGroup
          /\ group' \in [Consumer -> Groups] /\ DOMAIN sub' = Consumer
          /\ UNCHANGED <<streamVars, degraded, handled>>
      BY <1>6, GroupShape DEF ReplaceConsumer, StreamShape, Fits
    <2> QED BY <1>3, <2>1, GroupShape
  <1>7. ASSUME NEW c \in Consumer, CloseConsumerGroupIfIdle(c) \/ DeleteConsumerGroup(c)
        PROVE  StreamShape'
    <2>1. /\ \A d \in Consumer : group'[d] = group[d] \/ group'[d] = NoGroup
          /\ group' \in [Consumer -> Groups] /\ DOMAIN sub' = Consumer
          /\ UNCHANGED <<streamVars, degraded, handled>>
      BY <1>7, GroupShape
         DEF CloseConsumerGroupIfIdle, DeleteConsumerGroup, StreamShape, Fits
    <2> QED BY <1>3, <2>1, GroupShape
  <1>8. ASSUME NEW c \in Consumer, ReadNew(c)
        PROVE  StreamShape'
    <2> DEFINE ids == Batch(Waiting(c))
    <2>1. PICK g : g = [group[c] EXCEPT !.delivered = Max(ids), !.pending = @ \cup ids]
      OBVIOUS
    <2>2. /\ group' = [group EXCEPT ![c] = g]
          /\ group[c].live /\ Waiting(c) # {}
          /\ UNCHANGED <<streamVars, degraded, handled>> /\ DOMAIN sub' = Consumer
      BY <1>8, <2>1 DEF ReadNew, StreamShape
    <2>3. /\ Max(ids) \in Nat /\ group[c].delivered <= Max(ids) /\ Max(ids) <= last
          /\ ids \subseteq (group[c].delivered + 1) .. Max(ids)
      BY <2>2, ReadingAhead
    <2> HIDE DEF ids
    <2>4. /\ group[c] \in Groups /\ group[c].from \in Nat /\ group[c].delivered \in Nat
          /\ group[c].from <= group[c].delivered
          /\ group[c].pending \subseteq 1 .. group[c].delivered
      BY StreamFacts DEF StreamShape
    <2>5. /\ g.from = group[c].from /\ g.delivered = Max(ids)
          /\ g.pending = group[c].pending \cup ids /\ g.live = group[c].live
      BY <2>1, <2>4 DEF Groups
    <2>6. g.pending \subseteq 1 .. g.delivered
      BY <2>3, <2>4, <2>5
    <2>7. g.pending \subseteq Nat
      BY <2>6, <2>3, <2>5
    <2>8. g \in Groups
      BY <2>1, <2>3, <2>4, <2>5, <2>7 DEF Groups
    <2>9. Fits(g)
      BY <2>2, <2>3, <2>4, <2>5, <2>6, <2>8 DEF Fits
    <2>10. /\ \A d \in Consumer : group'[d] = group[d] \/ group'[d] = g
           /\ group' \in [Consumer -> Groups]
      BY <2>2, <2>8 DEF StreamShape
    <2> QED BY <1>3, <2>2, <2>9, <2>10, GroupShape
  <1>9. ASSUME NEW c \in Consumer, Ack(c)
        PROVE  StreamShape'
    <2>1. PICK g : g = [group[c] EXCEPT !.pending = @ \ {Min(sub[c].batch)}]
      OBVIOUS
    <2>2. /\ group' = [group EXCEPT ![c] = g]
          /\ UNCHANGED <<streamVars, degraded, handled>> /\ DOMAIN sub' = Consumer
      BY <1>9, <2>1 DEF Ack, StreamShape
    <2>3. /\ g \in Groups /\ g.from = group[c].from /\ g.delivered = group[c].delivered
          /\ g.pending \subseteq group[c].pending /\ g.live = group[c].live
      BY <2>1 DEF StreamShape, Groups
    <2>4. Fits(g)
      BY <2>3, GroupShape DEF Fits
    <2>5. /\ \A d \in Consumer : group'[d] = group[d] \/ group'[d] = g
          /\ group' \in [Consumer -> Groups]
      BY <2>2, <2>3 DEF StreamShape
    <2> QED BY <1>3, <2>2, <2>4, <2>5, GroupShape
  <1>10. ASSUME NEW c \in Consumer, Handle(c)
         PROVE  StreamShape'
    <2>1. Min(sub[c].batch) \in 1 .. last
      BY <1>10, AtEntry DEF Handle, Batches, Batched, BatchOrdered
    <2> QED BY <1>10, <2>1, StreamFacts DEF Handle, StreamShape, StreamTypeOK
  <1>11. ASSUME NEW c \in Consumer,
                \/ ReadInfo(c) \/ ReadGroups(c) \/ ReadPending(c) \/ Confirm(c)
                \/ ReadBacklog(c) \/ Broken(c) \/ Fails(c) \/ Cancel(c)
         PROVE  StreamShape'
    <2>1. UNCHANGED <<streamVars, group, handled>> /\ DOMAIN sub' = Consumer
      BY <1>11 DEF ReadInfo, ReadGroups, ReadPending, Confirm, ReadBacklog, Broken, Fails,
                   Cancel, GiveUpDegraded, StreamShape
    <2>2. degraded' \in [Consumer -> BOOLEAN]
      BY <1>11 DEF ReadInfo, ReadGroups, ReadPending, Confirm, ReadBacklog, Broken, Fails,
                   Cancel, GiveUpDegraded, StreamShape, StreamTypeOK
    <2> QED BY <1>4, <2>1, <2>2
  <1>12. ASSUME NEW c \in Consumer, NEW old \in Consumer,
                CloseRefused(c) \/ CheckPending(c) \/ ReplaceRefused(c, old)
         PROVE  StreamShape'
    BY <1>4, <1>12 DEF CloseRefused, CheckPending, ReplaceRefused, StreamShape, StreamTypeOK
  <1>13. CASE UNCHANGED busVars
    BY <1>13 DEF busVars, StreamShape, StreamTypeOK
  <1> QED BY <1>1, <1>2, <1>5, <1>6, <1>7, <1>8, <1>9, <1>10, <1>11, <1>12, <1>13
          DEF StreamNext, Proceed

-----------------------------------------------------------------------------
(* Batches are worked off in order.                                        *)

\* What a step does to a session that it does not serve: its group stays, goes,
\* or begins anew at the end of the stream.
Spared(d) ==
    /\ sub'[d] = sub[d]
    /\ handled[d] \subseteq handled'[d]
    /\ \/ group'[d] = group[d]
       \/ /\ group'[d].pending = {}
          /\ group'[d].live => group'[d].from = last /\ group'[d].delivered = last

LEMMA BatchSpared ==
    ASSUME StreamInv, StreamShape', last <= last',
           NEW d \in Consumer, Spared(d), Batched(d)'
    PROVE  BatchOrdered(d)'
  <1>1. Batched(d) /\ Round(d)' = Round(d) /\ BatchOrdered(d)
    BY DEF Batched, Spared, Round, StreamInv, Batches
  <1>2. /\ last \in Nat /\ last' \in Nat
        /\ group[d].delivered \in Nat
    BY StreamFacts DEF StreamInv, StreamShape, StreamTypeOK
  <1>3. sub[d].batch \subseteq 1 .. last'
    BY <1>1, <1>2 DEF BatchOrdered
  <1>4. group'[d].live => sub[d].batch \subseteq 1 .. group'[d].delivered
    BY <1>1, <1>2 DEF BatchOrdered, Spared
  <1>5. sub[d].pc = "ack" => /\ sub[d].back \in {"backlog", "new"}
                             /\ sub[d].batch # {}
                             /\ Min(sub[d].batch) \in handled'[d]
    BY <1>1 DEF BatchOrdered, Spared
  <1>6. \A j \in group'[d].pending :
          \/ j \in sub[d].batch
          \/ Round(d) = "backlog" /\ \A b \in sub[d].batch : b < j
    BY <1>1 DEF BatchOrdered, Spared
  <1> QED BY <1>1, <1>3, <1>4, <1>5, <1>6 DEF BatchOrdered, Spared

LEMMA BatchesKept ==
    StreamInv /\ [StreamNext]_busVars => Batches'
  <1> SUFFICES ASSUME StreamInv, [StreamNext]_busVars
               PROVE  Batches'
    OBVIOUS
  <1>0. StreamShape' /\ StreamShape /\ Batches
    BY ShapeKept DEF StreamInv
  <1>1. ASSUME last <= last', NEW c \in Consumer,
               \A d \in Consumer \ {c} : Spared(d),
               Batched(c)' => BatchOrdered(c)'
        PROVE  Batches'
    BY <1>0, <1>1, BatchSpared DEF Batches
  <1>2. ASSUME last <= last', \A d \in Consumer : Spared(d)
        PROVE  Batches'
    BY <1>0, <1>2, BatchSpared DEF Batches
  <1>3. CASE Publish \/ Trim \/ ForeignTrim \/ ForeignDelete \/ UNCHANGED busVars
    <2>1. last \in Nat
      BY <1>0, StreamFacts
    <2>2. last <= last'
      BY <1>3, <2>1 DEF Publish, Trim, ForeignTrim, ForeignDelete, busVars, streamVars
    <2>3. UNCHANGED <<group, sub, handled>>
      BY <1>3 DEF Publish, Trim, ForeignTrim, ForeignDelete, busVars
    <2> QED BY <1>2, <2>2, <2>3 DEF Spared
  <1>4. ASSUME UNCHANGED streamVars
        PROVE  last <= last'
    BY <1>0, <1>4, StreamFacts DEF streamVars
  <1>5. ASSUME NEW c \in Consumer,
               \/ Subscribe(c) \/ ReadInfo(c) \/ ReadGroups(c) \/ ReadPending(c)
               \/ Broken(c) \/ Fails(c) \/ Cancel(c)
        PROVE  Batches'
    <2>1. UNCHANGED <<streamVars, handled>> /\ \A d \in Consumer \ {c} : Spared(d)
      BY <1>0, <1>5 DEF Subscribe, ReadInfo, ReadGroups, ReadPending, Broken, Fails, Cancel,
                        GiveUpDegraded, StreamShape, Spared
    <2>2. ~Batched(c)'
      <3>1. sub'[c].pc \in {"off", "info", "groups", "pending", "confirm"}
        BY <1>0, <1>5 DEF Subscribe, ReadInfo, ReadGroups, ReadPending, Broken, Fails, Cancel,
                          GiveUpDegraded, StreamShape, Off
      <3> QED BY <3>1 DEF Batched
    <2> QED BY <1>1, <1>4, <2>1, <2>2
  <1>6. ASSUME NEW c \in Consumer, NEW old \in Consumer,
               \/ CloseConsumerGroupIfIdle(c) \/ CloseRefused(c) \/ DeleteConsumerGroup(c)
               \/ CheckPending(c) \/ ReplaceConsumer(c, old) \/ ReplaceRefused(c, old)
        PROVE  Batches'
    <2>1. UNCHANGED <<streamVars, sub, handled>>
      BY <1>6 DEF CloseConsumerGroupIfIdle, CloseRefused, DeleteConsumerGroup, CheckPending,
                  ReplaceConsumer, ReplaceRefused
    <2>2. \A d \in Consumer :
            group'[d] = group[d] \/ group'[d] = NoGroup \/ group'[d] = NewGroup
      BY <1>0, <1>6 DEF CloseConsumerGroupIfIdle, CloseRefused, DeleteConsumerGroup,
                        CheckPending, ReplaceConsumer, ReplaceRefused, StreamShape
    <2>3. \A d \in Consumer : Spared(d)
      BY <2>1, <2>2 DEF Spared, NoGroup, NewGroup
    <2> QED BY <1>2, <1>4, <2>1, <2>3
  <1>7. ASSUME NEW c \in Consumer, Confirm(c)
        PROVE  Batches'
    <2>1. UNCHANGED <<streamVars, group, handled>> /\ \A d \in Consumer \ {c} : Spared(d)
      BY <1>0, <1>7 DEF Confirm, GiveUpDegraded, StreamShape, Spared
    <2>2. \/ sub'[c].pc \in {"off", "info"}
          \/ sub'[c].pc = "backlog" /\ sub'[c].batch = {}
      BY <1>0, <1>7 DEF Confirm, GiveUpDegraded, StreamShape, Off
    <2>3. Batched(c)' => BatchOrdered(c)'
      BY <2>1, <2>2 DEF Batched, BatchOrdered, Round
    <2> QED BY <1>1, <1>4, <2>1, <2>3
  <1>8. ASSUME NEW c \in Consumer, ReadBacklog(c)
        PROVE  Batches'
    <2>1. PICK ids : ids = Batch(group[c].pending)
      OBVIOUS
    <2>2. /\ group[c].live /\ UNCHANGED <<streamVars, group, handled>>
          /\ \A d \in Consumer \ {c} : Spared(d)
          /\ sub'[c].pc = IF ids = {} THEN "new" ELSE "backlog"
          /\ sub'[c].batch = ids
      BY <1>0, <1>8, <2>1 DEF ReadBacklog, StreamShape, Spared
    <2>3. /\ last \in Nat /\ group[c].delivered \in Nat /\ group[c].delivered <= last
          /\ group[c].pending \subseteq 1 .. group[c].delivered
      BY <1>0, StreamFacts
    <2>4. group[c].pending \in SUBSET (0 .. group[c].delivered)
      BY <2>3
    <2>5. /\ ids \subseteq group[c].pending
          /\ \A i \in ids, j \in group[c].pending : j \in ids \/ i < j
          /\ group[c].pending # {} => ids # {}
      BY <2>1, <2>3, <2>4, BatchOf
    <2>6. ids \subseteq 1 .. last
      BY <2>3, <2>5
    <2>7. BatchOrdered(c)'
      BY <2>2, <2>3, <2>5, <2>6 DEF BatchOrdered, Round, streamVars
    <2> QED BY <1>1, <1>4, <2>2, <2>7
  <1>9. ASSUME NEW c \in Consumer, ReadNew(c)
        PROVE  Batches'
    <2>1. PICK ids : ids = Batch(Waiting(c))
      OBVIOUS
    <2>2. /\ group[c].live /\ Waiting(c) # {} /\ UNCHANGED <<streamVars, handled>>
          /\ sub[c].pc = "new" /\ sub[c].batch = {}
          /\ \A d \in Consumer \ {c} : Spared(d)
          /\ sub'[c].pc = "new" /\ sub'[c].batch = ids
      BY <1>0, <1>9, <2>1 DEF ReadNew, StreamShape, Spared
    <2>3. /\ group'[c].delivered = Max(ids)
          /\ group'[c].pending = group[c].pending \cup ids
      BY <1>0, <1>9, <2>1 DEF ReadNew, StreamShape, Groups
    <2>4. group[c].pending = {}
      BY <1>0, <2>2 DEF Batches, Batched, BatchOrdered, Round
    <2>5. /\ ids \subseteq (group[c].delivered + 1) .. Max(ids)
          /\ Max(ids) \in Nat /\ Max(ids) <= last /\ group[c].delivered <= Max(ids)
          /\ last \in Nat /\ group[c].delivered \in Nat
      BY <1>0, <2>1, <2>2, ReadingAhead, StreamFacts
    <2>6. ids \subseteq 1 .. Max(ids) /\ ids \subseteq 1 .. last
      BY <2>5
    <2>7. BatchOrdered(c)'
      BY <2>2, <2>3, <2>4, <2>6 DEF BatchOrdered, Round, streamVars
    <2> QED BY <1>1, <1>4, <2>2, <2>7
  <1>10. ASSUME NEW c \in Consumer, Handle(c)
         PROVE  Batches'
    <2>1. /\ UNCHANGED <<streamVars, group>> /\ \A d \in Consumer \ {c} : Spared(d)
          /\ sub[c].pc \in {"backlog", "new"} /\ sub[c].batch # {}
          /\ sub'[c].pc = "ack" /\ sub'[c].back = sub[c].pc /\ sub'[c].batch = sub[c].batch
          /\ Min(sub[c].batch) \in handled'[c]
      BY <1>0, <1>10 DEF Handle, StreamShape, Spared
    <2>2. BatchOrdered(c) /\ Round(c) = sub[c].pc /\ Round(c)' = sub[c].pc
      BY <1>0, <2>1 DEF Batches, Batched, Round
    <2>3. BatchOrdered(c)'
      BY <2>1, <2>2 DEF BatchOrdered, streamVars
    <2> QED BY <1>1, <1>4, <2>1, <2>3
  <1>11. ASSUME NEW c \in Consumer, Ack(c)
         PROVE  Batches'
    <2>1. PICK i : i = Min(sub[c].batch)
      OBVIOUS
    <2>2. /\ UNCHANGED <<streamVars, handled>> /\ \A d \in Consumer \ {c} : Spared(d)
          /\ sub[c].pc = "ack" /\ sub'[c].pc = sub[c].back
          /\ sub'[c].batch = sub[c].batch \ {i}
      BY <1>0, <1>11, <2>1 DEF Ack, StreamShape, Spared
    <2>3. /\ group'[c].pending = group[c].pending \ {i}
          /\ group'[c].delivered = group[c].delivered
          /\ group'[c].live = group[c].live
      BY <1>0, <1>11, <2>1 DEF Ack, StreamShape, Groups
    <2>4. BatchOrdered(c) /\ Round(c) = sub[c].back
      BY <1>0, <2>2 DEF Batches, Batched, Round
    <2>5. sub[c].back \in {"backlog", "new"}
      BY <2>2, <2>4 DEF BatchOrdered
    <2>6. Round(c)' = sub[c].back /\ sub'[c].pc # "ack"
      BY <2>2, <2>5 DEF Round
    <2>7. BatchOrdered(c)'
      BY <2>2, <2>3, <2>4, <2>6 DEF BatchOrdered, streamVars
    <2> QED BY <1>1, <1>4, <2>2, <2>7
  <1> QED BY <1>3, <1>5, <1>6, <1>7, <1>8, <1>9, <1>10, <1>11 DEF StreamNext, Proceed

\* StreamTypeOK holds throughout: entries, cursors and what is pending or handled
\* stay within the stream, whoever trims and deletes.
THEOREM StreamTypeCorrect == StreamSpec => []StreamTypeOK
  <1>1. StreamInit => StreamInv
    <2>1. StreamInit => Batches
      BY DEF StreamInit, Batches, Batched, Off
    <2> QED BY <2>1, ShapeInit DEF StreamInv
  <1>2. StreamInv /\ [StreamNext]_busVars => StreamInv'
    BY ShapeKept, BatchesKept DEF StreamInv
  <1>3. StreamInv => StreamTypeOK
    BY DEF StreamInv, StreamShape
  <1> QED BY <1>1, <1>2, <1>3, PTL DEF StreamSpec

-----------------------------------------------------------------------------
(* Nothing is missed.                                                      *)

\* NothingMissed without its set difference.
Kept(c) == \A i \in Nat :
    (group[c].from < i /\ i <= last)
      => \/ i \in handled[c]
         \/ i \in stored /\ (i > group[c].delivered \/ i \in group[c].pending)

AllKept == \A c \in Consumer : group[c].live => Kept(c)

LEMMA KeptMeansNothingMissed ==
    StreamShape => (NothingMissed <=> AllKept)
  <1> SUFFICES ASSUME StreamShape
               PROVE  NothingMissed <=> AllKept
    OBVIOUS
  <1>1. ASSUME NEW c \in Consumer
        PROVE  Lost(c) = {} <=> Kept(c)
    <2>1. last \in Nat /\ group[c].from \in Nat
      BY StreamFacts
    <2>2. \A i : i \in (group[c].from + 1) .. last
                   <=> i \in Nat /\ group[c].from < i /\ i <= last
      BY <2>1
    <2>3. \A i \in Nat : i \in Offered(c)
             <=> i \in stored /\ (i > group[c].delivered \/ i \in group[c].pending)
      BY DEF Offered, Waiting
    <2> QED BY <2>2, <2>3 DEF Lost, Kept
  <1> QED BY <1>1 DEF NothingMissed, AllKept

KeptInv == StreamInv /\ NothingMissed

\* Of the group scripts and Trim only an idle group is let go of.
LEMMA NothingMissedKept ==
    ASSUME Foreign = FALSE
    PROVE  KeptInv /\ [StreamNext]_busVars => NothingMissed'
  <1> SUFFICES ASSUME KeptInv, [StreamNext]_busVars
               PROVE  NothingMissed'
    OBVIOUS
  <1>0. StreamShape /\ StreamShape' /\ Batches /\ AllKept
    BY ShapeKept, KeptMeansNothingMissed DEF KeptInv, StreamInv
  <1>1. (StreamShape => (NothingMissed <=> AllKept))'
    BY KeptMeansNothingMissed, PTL
  <1> SUFFICES ASSUME NEW d \in Consumer, group'[d].live
               PROVE  Kept(d)'
    BY <1>0, <1>1 DEF AllKept
  <1>2. /\ last \in Nat /\ group[d].from \in Nat /\ group[d].delivered \in Nat
        /\ group[d].delivered <= last
        /\ stored \subseteq Nat
    BY <1>0, StreamFacts
  <1>3. ASSUME UNCHANGED streamVars, Spared(d)
        PROVE  Kept(d)'
    <2>1. CASE group'[d] = group[d]
      BY <1>0, <1>3, <2>1 DEF AllKept, Kept, Spared, streamVars
    <2>2. CASE group'[d].from = last
      BY <1>2, <1>3, <2>2 DEF Kept, streamVars
    <2> QED BY <1>3, <2>1, <2>2 DEF Spared
  <1>4. CASE Publish
    <2>1. /\ last' = last + 1 /\ stored' = stored \cup {last + 1}
          /\ UNCHANGED <<group, sub, handled>>
      BY <1>4 DEF Publish
    <2>2. Kept(d)
      BY <1>0, <2>1 DEF AllKept
    <2>3. ASSUME NEW i \in Nat, group[d].from < i, i <= last + 1
          PROVE  \/ i \in handled[d]
                 \/ i \in stored' /\ (i > group[d].delivered \/ i \in group[d].pending)
      <3>1. CASE i = last + 1
        BY <1>2, <2>1, <3>1
      <3>2. CASE i <= last
        BY <2>1, <2>2, <2>3, <3>2 DEF Kept
      <3> QED BY <1>2, <2>3, <3>1, <3>2
    <2> QED BY <2>1, <2>3 DEF Kept
  <1>5. CASE Trim
    <2>1. UNCHANGED <<last, group, handled>> /\ Idle(d)
      BY <1>5 DEF Trim
    <2>2. Kept(d)
      BY <1>0, <2>1 DEF AllKept
    <2>3. ASSUME NEW i \in Nat, group[d].from < i, i <= last
          PROVE  i \in handled[d]
      BY <2>1, <2>2, <2>3 DEF Idle, Caught, Waiting, Kept
    <2> QED BY <2>1, <2>3 DEF Kept
  <1>6. ASSUME NEW c \in Consumer, ReadNew(c)
        PROVE  Kept(d)'
    <2>1. CASE c = d
      <3>1. PICK ids : ids = Batch(Waiting(c))
        OBVIOUS
      <3>2. /\ group[c].live /\ Waiting(c) # {} /\ UNCHANGED <<streamVars, handled>>
        BY <1>6 DEF ReadNew
      <3>3. /\ group'[c].delivered = Max(ids) /\ group'[c].from = group[c].from
            /\ group'[c].pending = group[c].pending \cup ids
        BY <1>0, <1>6, <3>1 DEF ReadNew, StreamShape, Groups
      <3>4. \A i \in Waiting(c) : i \in ids \/ Max(ids) < i
        BY <1>0, <3>1, <3>2, ReadingAhead
      <3>5. Kept(c)
        BY <1>0, <3>2 DEF AllKept
      <3>6. Max(ids) \in Nat
        BY <1>0, <3>1, <3>2, ReadingAhead
      <3>7. ASSUME NEW i \in Nat, group[c].from < i, i <= last, i \notin handled[c]
            PROVE  i \in stored /\ (i > Max(ids) \/ i \in group[c].pending \cup ids)
        <4>1. i \in stored /\ (i > group[c].delivered \/ i \in group[c].pending)
          BY <3>5, <3>7 DEF Kept
        <4>2. CASE i \in group[c].pending
          BY <4>1, <4>2
        <4>3. CASE i \in Waiting(c)
          BY <3>4, <3>6, <4>1, <4>3
        <4> QED BY <4>1, <4>2, <4>3 DEF Waiting
      <3> QED BY <2>1, <3>2, <3>3, <3>7 DEF Kept, streamVars
    <2>2. CASE c # d
      BY <1>0, <1>3, <1>6, <2>2 DEF ReadNew, StreamShape, Spared
    <2> QED BY <2>1, <2>2
  <1>7. ASSUME NEW c \in Consumer, Ack(c)
        PROVE  Kept(d)'
    <2>1. CASE c = d
      <3>1. Min(sub[c].batch) \in handled[c]
        BY <1>0, <1>7 DEF Ack, Batches, Batched, BatchOrdered
      <3>2. /\ UNCHANGED <<streamVars, handled>>
            /\ group'[c].from = group[c].from /\ group'[c].delivered = group[c].delivered
            /\ group'[c].live = group[c].live
            /\ group'[c].pending = group[c].pending \ {Min(sub[c].batch)}
        BY <1>0, <1>7 DEF Ack, StreamShape, Groups
      <3>3. Kept(c)
        BY <1>0, <2>1, <3>2 DEF AllKept
      <3> QED BY <2>1, <3>1, <3>2, <3>3 DEF Kept, streamVars
    <2>2. CASE c # d
      BY <1>0, <1>3, <1>7, <2>2 DEF Ack, StreamShape, Spared
    <2> QED BY <2>1, <2>2
  <1>8. ASSUME NEW c \in Consumer, Handle(c)
        PROVE  Kept(d)'
    <2>1. UNCHANGED <<streamVars, group>> /\ handled[d] \subseteq handled'[d]
      BY <1>0, <1>8 DEF Handle, StreamShape
    <2> QED BY <1>0, <2>1 DEF AllKept, Kept, streamVars
  <1>9. ASSUME NEW c \in Consumer, NEW old \in Consumer,
               \/ Subscribe(c) \/ CloseConsumerGroupIfIdle(c) \/ DeleteConsumerGroup(c)
               \/ ReplaceConsumer(c, old)
        PROVE  Kept(d)'
    <2>1. UNCHANGED <<streamVars, handled>>
      BY <1>9 DEF Subscribe, CloseConsumerGroupIfIdle, DeleteConsumerGroup, ReplaceConsumer
    <2>2. group'[d] = group[d] \/ group'[d] = NoGroup \/ group'[d] = NewGroup
      BY <1>0, <1>9 DEF Subscribe, CloseConsumerGroupIfIdle, DeleteConsumerGroup,
                        ReplaceConsumer, StreamShape
    <2>3. CASE group'[d] = group[d]
      BY <1>0, <2>1, <2>3 DEF AllKept, Kept, streamVars
    <2>4. CASE group'[d] = NewGroup
      BY <1>2, <2>1, <2>4 DEF Kept, NewGroup, streamVars
    <2> QED BY <2>2, <2>3, <2>4 DEF NoGroup
  <1>10. ASSUME UNCHANGED <<streamVars, group, handled>>
         PROVE  Kept(d)'
    BY <1>0, <1>10 DEF AllKept, Kept, streamVars
  <1>11. ASSUME NEW c \in Consumer, NEW old \in Consumer,
                \/ ReadInfo(c) \/ ReadGroups(c) \/ ReadPending(c) \/ Confirm(c)
                \/ ReadBacklog(c) \/ Broken(c) \/ Fails(c) \/ Cancel(c)
                \/ CloseRefused(c) \/ CheckPending(c) \/ ReplaceRefused(c, old)
         PROVE  Kept(d)'
    BY <1>10, <1>11 DEF ReadInfo, ReadGroups, ReadPending, Confirm, ReadBacklog, Broken,
                        Fails, Cancel, CloseRefused, CheckPending, ReplaceRefused
  <1>12. CASE UNCHANGED busVars
    BY <1>10, <1>12 DEF busVars
  <1>13. ~ForeignTrim /\ ~ForeignDelete
    BY DEF ForeignTrim, ForeignDelete
  <1> QED BY <1>4, <1>5, <1>6, <1>7, <1>8, <1>9, <1>11, <1>12, <1>13
          DEF StreamNext, Proceed

LEMMA KeptInvariant ==
    ASSUME Foreign = FALSE
    PROVE  StreamSpec => []KeptInv
  <1>1. StreamInit => KeptInv
    <2> SUFFICES ASSUME StreamInit
                 PROVE  KeptInv
      OBVIOUS
    <2>1. StreamInv
      BY ShapeInit DEF StreamInit, Batches, Batched, Off, StreamInv
    <2>2. \A c \in Consumer : ~group[c].live
      BY DEF StreamInit, NoGroup
    <2> QED BY <2>1, <2>2 DEF KeptInv, NothingMissed
  <1>2. KeptInv /\ [StreamNext]_busVars => KeptInv'
    BY ShapeKept, BatchesKept, NothingMissedKept DEF KeptInv, StreamInv
  <1> QED BY <1>1, <1>2, PTL DEF StreamSpec

\* Every session has handled, or is still offered, each entry appended since its
\* group began - unless somebody else deletes entries: the group scripts and Trim
\* only let go of groups that are idle, and an entry is acknowledged after its
\* handler has returned.
THEOREM NothingIsMissed ==
    ASSUME Foreign = FALSE
    PROVE  StreamSpec => []NothingMissed
  <1>1. KeptInv => NothingMissed
    BY DEF KeptInv
  <1> QED BY <1>1, KeptInvariant, PTL

\* A session handles events for the first time in the order of the stream,
\* redeliveries, crashes before an XACK and new groups notwithstanding.
THEOREM EventsAreHandledInOrder ==
    ASSUME Foreign = FALSE
    PROVE  StreamSpec => HandledInOrder
  <1> DEFINE A == \A c \in Consumer :
                    group[c].live =>
                      \A i \in handled'[c] \ handled[c] :
                        (group[c].from + 1) .. (i - 1) \subseteq handled[c]
  <1>1. KeptInv /\ [StreamNext]_busVars => A
    <2> SUFFICES ASSUME KeptInv, [StreamNext]_busVars,
                        NEW c \in Consumer, group[c].live,
                        NEW i \in handled'[c] \ handled[c],
                        NEW j \in (group[c].from + 1) .. (i - 1)
                 PROVE  j \in handled[c]
      OBVIOUS
    <2>1. StreamShape /\ Batches /\ Kept(c)
      BY KeptMeansNothingMissed DEF KeptInv, StreamInv, AllKept
    <2>2. Handle(c) /\ i = Min(sub[c].batch)
      <3>1. handled' # handled
        OBVIOUS
      <3>2. PICK d \in Consumer : Handle(d)
        BY <3>1 DEF StreamNext, Proceed, Publish, Trim, ForeignTrim, ForeignDelete, Subscribe,
                    ReadInfo, ReadGroups, ReadPending, Confirm, ReadBacklog, ReadNew, Ack,
                    Broken, Fails, Cancel, CloseConsumerGroupIfIdle, CloseRefused,
                    DeleteConsumerGroup, CheckPending, ReplaceConsumer, ReplaceRefused, busVars
      <3>3. handled' = [handled EXCEPT ![d] = @ \cup {Min(sub[d].batch)}]
        BY <3>2 DEF Handle
      <3>4. d = c /\ i = Min(sub[c].batch)
        BY <2>1, <3>3 DEF StreamShape
      <3> QED BY <3>2, <3>4
    <2>3. sub[c].pc \in {"backlog", "new"} /\ sub[c].batch # {} /\ BatchOrdered(c)
      BY <2>1, <2>2 DEF Handle, Batches, Batched
    <2>4. i \in sub[c].batch /\ \A b \in sub[c].batch : i <= b
      BY <2>1, <2>2, <2>3, AtEntry DEF BatchOrdered
    <2>5. /\ last \in Nat /\ group[c].from \in Nat /\ group[c].delivered \in Nat
          /\ group[c].delivered <= last
      BY <2>1, StreamFacts
    <2>6. i \in 1 .. group[c].delivered
      BY <2>3, <2>4 DEF BatchOrdered
    <2>7. j \in Nat /\ group[c].from < j /\ j < i /\ j <= last /\ ~ (j > group[c].delivered)
      BY <2>5, <2>6
    <2>8. j \notin group[c].pending
      <3>1. j \notin sub[c].batch
        BY <2>4, <2>6, <2>7
      <3>2. ~ (i < j)
        BY <2>6, <2>7
      <3> QED BY <2>3, <2>4, <3>1, <3>2 DEF BatchOrdered
    <2> QED BY <2>1, <2>7, <2>8 DEF Kept
  <1>2. KeptInv /\ [StreamNext]_busVars => [A]_busVars
    BY <1>1
  <1> QED BY <1>2, KeptInvariant, PTL DEF StreamSpec, HandledInOrder

\* ReplaceConsumer makes the new group where the old one ends, and the old session
\* has handled everything up to there.
THEOREM HandoverIsComplete ==
    ASSUME Foreign = FALSE
    PROVE  StreamSpec => HandoverLosesNothing
  <1> DEFINE A == \A c, old \in Consumer :
                    (/\ group[old].live /\ ~group[c].live
                     /\ ~group'[old].live /\ group'[c].live)
                      => (group[old].from + 1) .. group'[c].from \subseteq handled[old]
  <1>1. KeptInv /\ [StreamNext]_busVars => A
    <2> SUFFICES ASSUME KeptInv, [StreamNext]_busVars,
                        NEW c \in Consumer, NEW old \in Consumer,
                        group[old].live, ~group[c].live, ~group'[old].live, group'[c].live,
                        NEW j \in (group[old].from + 1) .. group'[c].from
                 PROVE  j \in handled[old]
      OBVIOUS
    <2>1. StreamShape /\ Kept(old)
      BY KeptMeansNothingMissed DEF KeptInv, StreamInv, AllKept
    <2>2. ReplaceConsumer(c, old)
      <3>1. group'[c] # group[c] /\ group'[old] # group[old] /\ c # old
        OBVIOUS
      <3>3. ASSUME NEW d \in Consumer,
                   \/ Subscribe(d) \/ Proceed(d) \/ Fails(d) \/ Cancel(d)
                   \/ CloseConsumerGroupIfIdle(d) \/ CloseRefused(d)
                   \/ DeleteConsumerGroup(d) \/ CheckPending(d)
            PROVE  FALSE
        <4>1. \A e \in Consumer \ {d} : group'[e] = group[e]
          BY <2>1, <3>3 DEF Subscribe, Proceed, ReadInfo, ReadGroups, ReadPending, Confirm,
                            ReadBacklog, ReadNew, Handle, Ack, Broken, Fails, Cancel,
                            CloseConsumerGroupIfIdle, CloseRefused, DeleteConsumerGroup,
                            CheckPending, StreamShape
        <4> QED BY <3>1, <4>1
      <3>4. ASSUME NEW d \in Consumer, NEW e \in Consumer, ReplaceRefused(d, e)
            PROVE  FALSE
        BY <3>1, <3>4 DEF ReplaceRefused
      <3>5. ASSUME NEW d \in Consumer, NEW e \in Consumer, ReplaceConsumer(d, e)
            PROVE  d = c /\ e = old
        <4>1. \A f \in Consumer : /\ f # d => group'[f] = group[f] \/ ~group'[f].live
                                  /\ f # d /\ f # e => group'[f] = group[f]
          BY <2>1, <3>5 DEF ReplaceConsumer, StreamShape, NoGroup
        <4> QED BY <3>1, <4>1
      <3> QED BY <3>1, <3>3, <3>4, <3>5
              DEF StreamNext, Publish, Trim, ForeignTrim, ForeignDelete, busVars
    <2>3. group'[c].from = last /\ Idle(old)
      BY <2>1, <2>2 DEF ReplaceConsumer, StreamShape, NewGroup
    <2>4. j \in Nat /\ group[old].from < j /\ j <= last
      BY <2>1, <2>3, StreamFacts
    <2> QED BY <2>1, <2>3, <2>4 DEF Kept, Idle, Caught, Waiting
  <1>2. KeptInv /\ [StreamNext]_busVars => [A]_busVars
    BY <1>1
  <1> QED BY <1>2, KeptInvariant, PTL DEF StreamSpec, HandoverLosesNothing

-----------------------------------------------------------------------------
(* CheckContinuity.                                                        *)

Checking(c) == sub[c].pc \in {"groups", "pending", "confirm"}

\* Since c took its snapshot entries were only appended, or only taken away.
SnapshotOf(c) ==
    /\ sub[c].info.last \in Nat /\ sub[c].info.length \in Nat
    /\ sub[c].info.last <= last
    /\ sub[c].info.last = last => Cardinality(stored) <= sub[c].info.length

\* The stream is the one c took its snapshot of.
SameStream(c) == sub[c].info.last = last /\ sub[c].info.length = Cardinality(stored)

\* What Redis told c of its group still describes it, or the group was made
\* again since.
Renewed(c) == group[c].delivered = last /\ group[c].pending = {}

Reported(c) ==
    /\ sub[c].g.delivered = group[c].delivered
    /\ sub[c].g.lag = Cardinality(Waiting(c))
    /\ sub[c].g.read \in {group[c].delivered, 0}
    /\ sub[c].g.lagKnown \in BOOLEAN

Complete(c) == /\ (group[c].delivered + 1) .. last \subseteq stored
               /\ group[c].pending \subseteq stored

VerdictOf(c) ==
    (group[c].live /\ SameStream(c)) =>
      /\ sub[c].pc = "pending" => Renewed(c) \/ Reported(c)
      /\ sub[c].pc = "confirm" => sub[c].gap \/ Complete(c)

Snapshots == \A c \in Consumer : Checking(c) => SnapshotOf(c) /\ VerdictOf(c)

ContinuityInv == StreamInv /\ Snapshots

LEMMA StoredFinite ==
    ASSUME StreamShape
    PROVE  /\ IsFiniteSet(stored) /\ Cardinality(stored) \in Nat
           /\ last <= Cardinality(stored) => stored = 1 .. last
  <1>1. last \in Nat /\ stored \in SUBSET (1 .. last)
    BY StreamFacts
  <1>2. IsFiniteSet(1 .. last) /\ Cardinality(1 .. last) = last
    <2>1. 0 \in Nat /\ 0 <= last /\ 0 + 1 = 1 /\ last - 0 = last
      BY <1>1
    <2> QED BY <1>1, <2>1, IntervalSize
  <1>3. /\ IsFiniteSet(stored) /\ Cardinality(stored) <= Cardinality(1 .. last)
        /\ Cardinality(1 .. last) = Cardinality(stored) => 1 .. last = stored
    BY <1>1, <1>2, FS_Subset
  <1>4. Cardinality(stored) \in Nat
    BY <1>3, FS_CardinalityType
  <1>5. ASSUME last <= Cardinality(stored)
        PROVE  stored = 1 .. last
    <2>1. Cardinality(stored) = last
      BY <1>1, <1>2, <1>3, <1>4, <1>5
    <2> QED BY <1>2, <1>3, <2>1
  <1> QED BY <1>3, <1>4, <1>5

\* What no step does is append and delete at once.
StreamMoved == \/ last' = last /\ stored' \subseteq stored
               \/ last' > last

LEMMA EveryStepMoves == StreamShape /\ [StreamNext]_busVars => StreamMoved
  <1> SUFFICES ASSUME StreamShape, [StreamNext]_busVars
               PROVE  StreamMoved
    OBVIOUS
  <1>1. CASE Publish
    BY <1>1, StreamFacts DEF Publish, StreamMoved
  <1>2. CASE Trim \/ ForeignTrim \/ ForeignDelete
    BY <1>2 DEF Trim, ForeignTrim, ForeignDelete, StreamMoved
  <1>3. CASE UNCHANGED streamVars
    BY <1>3 DEF streamVars, StreamMoved
  <1> QED BY <1>1, <1>2, <1>3
          DEF StreamNext, Proceed, Subscribe, ReadInfo, ReadGroups, ReadPending, Confirm,
              ReadBacklog, ReadNew, Handle, Ack, Broken, Fails, Cancel,
              CloseConsumerGroupIfIdle, CloseRefused, DeleteConsumerGroup, CheckPending,
              ReplaceConsumer, ReplaceRefused, busVars

\* A snapshot ages; one that equals the stream again was never anything else.
LEMMA SnapshotAges ==
    ASSUME StreamShape, StreamShape', StreamMoved, NEW c \in Consumer,
           SnapshotOf(c), sub'[c].info = sub[c].info
    PROVE  /\ SnapshotOf(c)'
           /\ SameStream(c)' => SameStream(c) /\ last' = last /\ stored' = stored
  <1>1. last \in Nat /\ last' \in Nat
    BY StreamFacts DEF StreamShape, StreamTypeOK
  <1>2. IsFiniteSet(stored) /\ Cardinality(stored) \in Nat
    BY StoredFinite
  <1>3. PICK len, top : len = sub[c].info.length /\ top = sub[c].info.last
    OBVIOUS
  <1>4. /\ len \in Nat /\ top \in Nat /\ top <= last
        /\ top = last => Cardinality(stored) <= len
    BY <1>3 DEF SnapshotOf
  <1>5. /\ SnapshotOf(c)' <=> /\ len \in Nat /\ top \in Nat /\ top <= last'
                              /\ top = last' => Cardinality(stored') <= len
        /\ SameStream(c)' <=> top = last' /\ len = Cardinality(stored')
        /\ SameStream(c) <=> top = last /\ len = Cardinality(stored)
    BY <1>3 DEF SnapshotOf, SameStream
  <1>6. CASE last' > last
    BY <1>1, <1>4, <1>5, <1>6
  <1>7. CASE last' = last /\ stored' \subseteq stored
    <2>1. /\ IsFiniteSet(stored') /\ Cardinality(stored') <= Cardinality(stored)
          /\ Cardinality(stored) = Cardinality(stored') => stored = stored'
      BY <1>2, <1>7, FS_Subset
    <2>2. Cardinality(stored') \in Nat
      BY <2>1, FS_CardinalityType
    <2>3. PICK m \in Nat, n \in Nat : m = Cardinality(stored) /\ n = Cardinality(stored')
      BY <1>2, <2>2
    <2>4. (top = last /\ len = n) => n = m
      BY <1>4, <2>1, <2>3
    <2>5. top = last => n <= len
      BY <1>4, <2>1, <2>3
    <2> QED BY <1>4, <1>5, <1>7, <2>1, <2>3, <2>4, <2>5
  <1> QED BY <1>6, <1>7 DEF StreamMoved

\* The two gaps CheckContinuity looks for are all there can be.
LEMMA NoGapMeansComplete ==
    ASSUME StreamShape, NEW c \in Consumer, SameStream(c), Renewed(c) \/ Reported(c),
           ~PendingGap(c, sub[c].info), ~WaitingGap(sub[c].info, sub[c].g)
    PROVE  Complete(c)
  <1> DEFINE g == sub[c].g
             at == group[c].delivered
  <1>1. last \in Nat /\ at \in Nat /\ at <= last /\ stored \subseteq 1 .. last
        /\ group[c].pending \subseteq 1 .. at
    BY StreamFacts
  <1>2. sub[c].info.last = last /\ sub[c].info.length = Cardinality(stored)
    BY DEF SameStream
  <1>3. group[c].pending \subseteq stored
    <2>1. CASE group[c].pending \subseteq stored
      BY <2>1
    <2>2. CASE ~ (group[c].pending \subseteq stored)
      <3>1. ~ (last > Cardinality(stored))
        BY <1>2, <2>2 DEF PendingGap
      <3>2. stored = 1 .. last
        BY <1>1, <3>1, StoredFinite
      <3> QED BY <1>1, <3>2
    <2> QED BY <2>1, <2>2
  <1>4. CASE Renewed(c)
    BY <1>1, <1>3, <1>4 DEF Renewed, Complete
  <1>5. CASE Reported(c)
    <2>1. /\ g.delivered = at /\ g.lag = Cardinality(Waiting(c)) /\ g.read \in {at, 0}
          /\ g.lagKnown \in BOOLEAN
      BY <1>5 DEF Reported
    <2>2. /\ Waiting(c) \in SUBSET ((at + 1) .. last)
          /\ Waiting(c) \in SUBSET (1 .. last)
      <3>1. ASSUME NEW i \in stored, i > at
            PROVE  i \in (at + 1) .. last
        <4>1. i \in Int /\ i <= last
          BY <1>1
        <4> QED BY <1>1, <3>1, <4>1
      <3> QED BY <1>1, <3>1 DEF Waiting
    <2>3. /\ IsFiniteSet((at + 1) .. last) /\ Cardinality((at + 1) .. last) = last - at
          /\ IsFiniteSet(1 .. last) /\ Cardinality(1 .. last) = last
      <3>1. 0 \in Nat /\ 0 <= last /\ 0 + 1 = 1 /\ last - 0 = last
        BY <1>1
      <3> QED BY <1>1, <3>1, IntervalSize
    <2>4. Cardinality(Waiting(c)) \in Nat
      BY <2>2, <2>3, FS_Subset, FS_CardinalityType
    <2>5. CASE at = last
      BY <1>1, <1>3, <2>5 DEF Complete
    <2>6. CASE at # last
      <3>1. CASE g.lagKnown
        <4>1. g.read + g.lag = last
          BY <1>1, <1>2, <2>1, <2>4, <2>6, <3>1 DEF WaitingGap
        <4>2. CASE g.read = at
          <5>1. Cardinality(Waiting(c)) = last - at
            BY <1>1, <2>1, <2>4, <4>1, <4>2
          <5>2. Waiting(c) = (at + 1) .. last
            BY <2>2, <2>3, <5>1, FS_Subset
          <5> QED BY <1>3, <5>2 DEF Waiting, Complete
        <4>3. CASE g.read = 0
          <5>1. Cardinality(Waiting(c)) = last
            BY <1>1, <2>1, <2>4, <4>1, <4>3
          <5>2. Waiting(c) = 1 .. last
            BY <2>2, <2>3, <5>1, FS_Subset
          <5> QED BY <1>1, <1>3, <5>2 DEF Waiting, Complete
        <4> QED BY <2>1, <4>2, <4>3
      <3>2. CASE ~g.lagKnown
        <4>1. ~ (last > Cardinality(stored))
          BY <1>2, <3>2 DEF WaitingGap
        <4>2. stored = 1 .. last
          BY <1>1, <4>1, StoredFinite
        <4> QED BY <1>1, <1>3, <4>2 DEF Complete
      <3> QED BY <3>1, <3>2
    <2> QED BY <2>5, <2>6
  <1> QED BY <1>4, <1>5

LEMMA SnapshotsKept ==
    ContinuityInv /\ [StreamNext]_busVars => Snapshots'
  <1> SUFFICES ASSUME ContinuityInv, [StreamNext]_busVars,
                      NEW d \in Consumer, Checking(d)'
               PROVE  SnapshotOf(d)' /\ VerdictOf(d)'
    BY DEF Snapshots
  <1>0. StreamShape /\ StreamShape' /\ Batches /\ Snapshots /\ StreamMoved
    BY ShapeKept, EveryStepMoves DEF ContinuityInv, StreamInv
  <1>1. ASSUME Spared(d)
        PROVE  SnapshotOf(d)' /\ VerdictOf(d)'
    <2>1. Checking(d) /\ SnapshotOf(d) /\ VerdictOf(d) /\ sub'[d] = sub[d]
      BY <1>0, <1>1 DEF Checking, Spared, Snapshots
    <2>2. /\ SnapshotOf(d)'
          /\ SameStream(d)' => SameStream(d) /\ last' = last /\ stored' = stored
      BY <1>0, <2>1, SnapshotAges
    <2>3. CASE group'[d] = group[d]
      BY <2>1, <2>2, <2>3 DEF VerdictOf, Reported, Renewed, Complete, Waiting
    <2>4. CASE group'[d].pending = {} /\ (group'[d].live => group'[d].delivered = last)
      <3>1. last \in Nat
        BY <1>0, StreamFacts
      <3>2. (group'[d].live /\ SameStream(d)') => Renewed(d)' /\ Complete(d)'
        BY <2>2, <2>4, <3>1 DEF Renewed, Complete
      <3> QED BY <2>2, <3>2 DEF VerdictOf
    <2> QED BY <1>1, <2>2, <2>3, <2>4 DEF Spared
  <1>2. CASE Publish \/ Trim \/ ForeignTrim \/ ForeignDelete \/ UNCHANGED busVars
    BY <1>1, <1>2 DEF Publish, Trim, ForeignTrim, ForeignDelete, busVars, Spared
  <1>3. ASSUME NEW c \in Consumer, NEW old \in Consumer,
               \/ CloseConsumerGroupIfIdle(c) \/ CloseRefused(c) \/ DeleteConsumerGroup(c)
               \/ CheckPending(c) \/ ReplaceConsumer(c, old) \/ ReplaceRefused(c, old)
        PROVE  SnapshotOf(d)' /\ VerdictOf(d)'
    <2>1. UNCHANGED <<sub, handled>>
      BY <1>3 DEF CloseConsumerGroupIfIdle, CloseRefused, DeleteConsumerGroup, CheckPending,
                  ReplaceConsumer, ReplaceRefused
    <2>2. group'[d] = group[d] \/ group'[d] = NoGroup \/ group'[d] = NewGroup
      BY <1>0, <1>3 DEF CloseConsumerGroupIfIdle, CloseRefused, DeleteConsumerGroup,
                        CheckPending, ReplaceConsumer, ReplaceRefused, StreamShape
    <2>3. Spared(d)
      BY <2>1, <2>2 DEF Spared, NoGroup, NewGroup
    <2> QED BY <1>1, <2>3
  <1>4. ASSUME NEW c \in Consumer, c # d,
               Subscribe(c) \/ Proceed(c) \/ Fails(c) \/ Cancel(c)
        PROVE  SnapshotOf(d)' /\ VerdictOf(d)'
    <2>1. Spared(d)
      BY <1>0, <1>4
         DEF Subscribe, Proceed, ReadInfo, ReadGroups, ReadPending, Confirm, ReadBacklog,
             ReadNew, Handle, Ack, Broken, Fails, Cancel, GiveUpDegraded, StreamShape, Spared
    <2> QED BY <1>1, <2>1
  <1>5. \/ Subscribe(d) \/ Confirm(d) \/ ReadBacklog(d) \/ ReadNew(d) \/ Handle(d) \/ Ack(d)
        \/ Broken(d) \/ Fails(d) \/ Cancel(d)
        => ~Checking(d)'
    <2> SUFFICES ASSUME \/ Subscribe(d) \/ Confirm(d) \/ ReadBacklog(d) \/ ReadNew(d)
                        \/ Handle(d) \/ Ack(d) \/ Broken(d) \/ Fails(d) \/ Cancel(d)
                 PROVE  sub'[d].pc \in {"off", "info", "backlog", "new", "ack"}
      BY DEF Checking
    <2>1. CASE Ack(d)
      <3>1. sub[d].back \in {"backlog", "new"}
        BY <1>0, <2>1 DEF Ack, Batches, Batched, BatchOrdered
      <3> QED BY <1>0, <2>1, <3>1 DEF Ack, StreamShape
    <2>2. CASE Handle(d) \/ ReadNew(d) \/ ReadBacklog(d) \/ Subscribe(d)
      BY <1>0, <2>2 DEF Handle, ReadNew, ReadBacklog, Subscribe, StreamShape
    <2>3. CASE Confirm(d) \/ Broken(d) \/ Fails(d) \/ Cancel(d)
      BY <1>0, <2>3 DEF Confirm, Broken, Fails, Cancel, GiveUpDegraded, StreamShape, Off
    <2> QED BY <2>1, <2>2, <2>3
  <1>6. CASE ReadInfo(d)
    <2>1. /\ UNCHANGED streamVars /\ sub'[d].pc = "groups"
          /\ sub'[d].info.last = last /\ sub'[d].info.length = Cardinality(stored)
      BY <1>0, <1>6 DEF ReadInfo, StreamInfo, StreamShape
    <2>2. last \in Nat /\ Cardinality(stored) \in Nat
      BY <1>0, StreamFacts, StoredFinite
    <2> QED BY <2>1, <2>2 DEF SnapshotOf, VerdictOf, streamVars
  <1>7. CASE ReadGroups(d)
    <2>1. /\ UNCHANGED <<streamVars, group>> /\ sub'[d].info = sub[d].info
          /\ Checking(d) /\ SnapshotOf(d)
      BY <1>0, <1>7 DEF ReadGroups, StreamShape, Checking, Snapshots
    <2>2. SnapshotOf(d)'
      BY <1>0, <2>1, SnapshotAges
    <2>3. CASE ~group[d].live
      BY <2>1, <2>2, <2>3 DEF VerdictOf
    <2>4. CASE group[d].live
      <3>1. PICK g \in GroupInfo(d) : /\ sub'[d].pc = "pending"
                                      /\ sub'[d].g = g
        BY <1>0, <1>7, <2>4 DEF ReadGroups, StreamShape
      <3>2. /\ g.delivered = group[d].delivered /\ g.lag = Cardinality(Waiting(d))
            /\ g.read \in {group[d].delivered, 0} /\ g.lagKnown \in BOOLEAN
        BY <3>1 DEF GroupInfo
      <3>3. Waiting(d)' = Waiting(d)
        BY <2>1 DEF Waiting, streamVars
      <3> QED BY <2>1, <2>2, <3>1, <3>2, <3>3 DEF VerdictOf, Reported
    <2> QED BY <2>3, <2>4
  <1>8. CASE ReadPending(d)
    <2>1. /\ UNCHANGED <<streamVars, group>> /\ sub'[d].info = sub[d].info
          /\ sub[d].pc = "pending" /\ group[d].live /\ sub'[d].pc = "confirm"
          /\ sub'[d].gap = (PendingGap(d, sub[d].info) \/ WaitingGap(sub[d].info, sub[d].g))
          /\ SnapshotOf(d) /\ VerdictOf(d)
      BY <1>0, <1>8 DEF ReadPending, StreamShape, Checking, Snapshots
    <2>2. SnapshotOf(d)' /\ (SameStream(d)' => SameStream(d))
      BY <1>0, <2>1, SnapshotAges
    <2>3. ASSUME SameStream(d), ~sub'[d].gap
          PROVE  Complete(d)
      BY <1>0, <2>1, <2>3, NoGapMeansComplete DEF VerdictOf
    <2>4. Complete(d) => Complete(d)'
      BY <2>1 DEF Complete, streamVars
    <2> QED BY <2>1, <2>2, <2>3, <2>4 DEF VerdictOf
  <1> QED BY <1>2, <1>3, <1>4, <1>5, <1>6, <1>7, <1>8 DEF StreamNext, Proceed

\* CheckContinuity lets a subscription begin only when every entry it still has to
\* see is there, whoever deleted what before and during its four round trips, and
\* whichever of its counters Redis could tell.
THEOREM ContinuityIsComplete == StreamSpec => ContinuityMeansComplete
  <1> DEFINE A == \A c \in Consumer :
                    (sub[c].pc = "confirm" /\ sub'[c].pc = "backlog" /\ group[c].live)
                      => /\ (group[c].delivered + 1) .. last \subseteq stored
                         /\ group[c].pending \ handled[c] \subseteq stored
  <1>1. StreamInit => ContinuityInv
    BY ShapeInit DEF StreamInit, Batches, Batched, Off, StreamInv, ContinuityInv, Snapshots,
                     Checking
  <1>2. ContinuityInv /\ [StreamNext]_busVars => ContinuityInv'
    BY ShapeKept, BatchesKept, SnapshotsKept DEF ContinuityInv, StreamInv
  <1>3. ContinuityInv /\ [StreamNext]_busVars => A
    <2> SUFFICES ASSUME ContinuityInv, [StreamNext]_busVars, NEW c \in Consumer,
                        sub[c].pc = "confirm", sub'[c].pc = "backlog", group[c].live
                 PROVE  Complete(c)
      BY DEF Complete
    <2>1. StreamShape /\ Snapshots
      BY DEF ContinuityInv, StreamInv
    <2>2. Confirm(c)
      <3>1. sub'[c] # sub[c]
        OBVIOUS
      <3>2. PICK e \in Consumer : Subscribe(e) \/ Proceed(e) \/ Fails(e) \/ Cancel(e)
        BY <3>1 DEF StreamNext, Publish, Trim, ForeignTrim, ForeignDelete,
                    CloseConsumerGroupIfIdle, CloseRefused, DeleteConsumerGroup, CheckPending,
                    ReplaceConsumer, ReplaceRefused, busVars
      <3>3. \A f \in Consumer \ {e} : sub'[f] = sub[f]
        BY <2>1, <3>2
           DEF Subscribe, Proceed, ReadInfo, ReadGroups, ReadPending, Confirm, ReadBacklog,
               ReadNew, Handle, Ack, Broken, Fails, Cancel, GiveUpDegraded, StreamShape
      <3>4. e = c
        BY <3>1, <3>3
      <3>5. ~Subscribe(c) /\ ~Fails(c) /\ ~Cancel(c)
        BY <2>1 DEF Subscribe, Fails, Cancel, GiveUpDegraded, Off, StreamShape
      <3>6. Proceed(c) => Confirm(c)
        BY DEF Proceed, ReadInfo, ReadGroups, ReadPending, ReadBacklog, ReadNew, Handle, Ack,
               Broken
      <3> QED BY <3>2, <3>4, <3>5, <3>6
    <2>3. Stable(c) /\ ~sub[c].gap
      BY <2>1, <2>2 DEF Confirm, GiveUpDegraded, Off, StreamShape
    <2>4. SameStream(c)
      BY <2>3 DEF Stable, StreamInfo, SameStream
    <2> QED BY <2>1, <2>3, <2>4 DEF Snapshots, Checking, VerdictOf
  <1>4. ContinuityInv /\ [StreamNext]_busVars => [A]_busVars
    BY <1>3
  <1> QED BY <1>1, <1>2, <1>4, PTL DEF StreamSpec, ContinuityMeansComplete
=============================================================================
