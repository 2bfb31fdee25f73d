---------------------------- MODULE EventStream ----------------------------
(***************************************************************************)
(* The reliable event stream (src/redis/event_bus.go, src/redis/lua/stream)*)
(* between the scripts that append domain events and the routers that must *)
(* see every one of them.  Each node session reads through a consumer      *)
(* group of its own: entries are delivered, stay pending until they are    *)
(* acknowledged and are read again after a restart of the subscription.    *)
(* Trimming, handing the group over to the next session and closing it are *)
(* Lua scripts that look at every group first; CheckContinuity asks, in    *)
(* several round trips, whether entries were lost in spite of that.        *)
(*                                                                         *)
(* Entry i is the i-th appended event.  The consumers are the sessions of  *)
(* one node and of others alike; what an event says is no matter here.     *)
(***************************************************************************)
EXTENDS Integers, FiniteSets, FiniteSetsExt

CONSTANTS Consumer,               \* EventBus instances, one per node session
          eventReadBatchSize,     \* entries per XREADGROUP (10 in the code)
          continuityMaxAttempts,  \* rounds of CheckContinuity (3 in the code)
          maxLen,                 \* what Trim leaves in the stream
          MaxEvents,              \* bound: events appended
          Foreign                 \* whether someone else deletes entries

ASSUME StreamAssumption ==
    /\ {eventReadBatchSize, continuityMaxAttempts} \subseteq Nat \ {0}
    /\ {maxLen, MaxEvents} \subseteq Nat
    /\ Foreign \in BOOLEAN

VARIABLES last,      \* entries appended so far
          stored,    \* entries the stream still holds
          deleted,   \* max-deleted-entry-id of XINFO STREAM, 0 for none
          group,     \* the consumer group of each session, or NoGroup
          sub,       \* where the Subscribe call of each session stands
          degraded,  \* EventBus.degraded
          handled    \* entries whose handler has returned, of each session

streamVars == <<last, stored, deleted>>
busVars == <<streamVars, group, sub, degraded, handled>>

-----------------------------------------------------------------------------
NoGroup == [from |-> 0, delivered |-> 0, pending |-> {}, live |-> FALSE]

\* XGROUP CREATE ... $: the group begins after the last entry.
NewGroup == [from |-> last, delivered |-> last, pending |-> {}, live |-> TRUE]

Off == [pc |-> "off"]

\* Entries not yet delivered to c.
Waiting(c) == {i \in stored : i > group[c].delivered}

Caught(c) == group[c].pending = {} /\ Waiting(c) = {}

Running(c) == sub[c].pc # "off"

StreamInit ==
    /\ last = 0 /\ stored = {} /\ deleted = 0
    /\ group = [c \in Consumer |-> NoGroup]
    /\ sub = [c \in Consumer |-> Off]
    /\ degraded = [c \in Consumer |-> FALSE]
    /\ handled = [c \in Consumer |-> {}]

\* XADD of a script.
Publish ==
    /\ last < MaxEvents
    /\ last' = last + 1
    /\ stored' = stored \cup {last + 1}
    /\ UNCHANGED <<deleted, group, sub, degraded, handled>>

\* The subscription returns an error; setDegraded unless it was cancelled.
GiveUpDegraded(c) ==
    /\ sub' = [sub EXCEPT ![c] = Off]
    /\ degraded' = [degraded EXCEPT ![c] = TRUE]

-----------------------------------------------------------------------------
(* Groups.                                                                 *)

\* EnsureConsumerGroup keeps a group that is there (BUSYGROUP).
Subscribe(c) ==
    /\ sub[c] = Off
    /\ group' = IF group[c].live THEN group ELSE [group EXCEPT ![c] = NewGroup]
    /\ sub' = [sub EXCEPT ![c] = [pc |-> "info", attempt |-> 1]]
    /\ UNCHANGED <<streamVars, degraded, handled>>

\* Mutant of Idle: entries not yet delivered do not count.
NothingPending(c) == group[c].pending = {}

\* What the three scripts ask of a group before they let go of its entries.
Idle(c) == Caught(c)

\* Trim: only when every group is idle.
Trim ==
    /\ \A c \in Consumer : group[c].live => Idle(c)
    /\ stored' = {i \in stored : i + maxLen > last}
    /\ UNCHANGED <<last, deleted, group, sub, degraded, handled>>

\* The successor's group begins where the idle old group ends, in one script.
ReplaceConsumer(c, old) ==
    /\ c # old
    /\ group[old].live /\ Idle(old)
    /\ group' = [group EXCEPT ![old] = NoGroup,
                              ![c] = IF group[c].live THEN @ ELSE NewGroup]
    /\ UNCHANGED <<streamVars, sub, degraded, handled>>

\* The old group is gone and the new one was never made, or the old one has
\* entries left - or Redis cannot tell its lag.
ReplaceRefused(c, old) ==
    /\ c # old
    /\ group[c].live => group[old].live
    /\ degraded' = [degraded EXCEPT ![c] = TRUE]
    /\ UNCHANGED <<streamVars, group, sub, handled>>

CloseConsumerGroupIfIdle(c) ==
    /\ group[c].live /\ Idle(c)
    /\ group' = [group EXCEPT ![c] = NoGroup]
    /\ UNCHANGED <<streamVars, sub, degraded, handled>>

\* Close reports a group it had to leave behind.
CloseRefused(c) ==
    /\ group[c].live
    /\ degraded' = [degraded EXCEPT ![c] = TRUE]
    /\ UNCHANGED <<streamVars, group, sub, handled>>

\* DeleteConsumerGroup and CleanupConsumerGroup do not ask.
DeleteConsumerGroup(c) ==
    /\ group[c].live
    /\ group' = [group EXCEPT ![c] = NoGroup]
    /\ UNCHANGED <<streamVars, sub, degraded, handled>>

\* Somebody else trims or deletes.
ForeignTrim ==
    /\ Foreign
    /\ \E i \in stored : stored' = {j \in stored : j > i}
    /\ UNCHANGED <<last, deleted, group, sub, degraded, handled>>

ForeignDelete ==
    /\ Foreign
    /\ \E i \in stored : /\ stored' = stored \ {i}
                         /\ deleted' = IF i > deleted THEN i ELSE deleted
    /\ UNCHANGED <<last, group, sub, degraded, handled>>

-----------------------------------------------------------------------------
(* CheckContinuity: XINFO STREAM, XINFO GROUPS, XPENDING, XINFO STREAM.    *)

StreamInfo == [length |-> Cardinality(stored), last |-> last, deleted |-> deleted,
               first |-> IF stored = {} THEN 0 ELSE Min(stored),
               final |-> IF stored = {} THEN 0 ELSE Max(stored),
               groups |-> Cardinality({c \in Consumer : group[c].live})]

ReadInfo(c) ==
    /\ sub[c].pc = "info"
    /\ sub' = [sub EXCEPT ![c] = [pc |-> "groups", attempt |-> sub[c].attempt,
                                  info |-> StreamInfo]]
    /\ UNCHANGED <<streamVars, group, degraded, handled>>

\* Redis reports how many entries a group has read (unknown reads as 0 while
\* nothing was read since its creation) and its lag, when it can tell.
GroupInfo(c) ==
    {[delivered |-> group[c].delivered, pending |-> Cardinality(group[c].pending),
      read |-> read, lagKnown |-> known, lag |-> Cardinality(Waiting(c))] :
         read \in {group[c].delivered}
                    \cup (IF group[c].delivered = group[c].from THEN {0} ELSE {}),
         known \in BOOLEAN}

\* A group that is gone has no gap.
ReadGroups(c) ==
    /\ sub[c].pc = "groups"
    /\ IF group[c].live
       THEN \E g \in GroupInfo(c) :
              sub' = [sub EXCEPT ![c] = [pc |-> "pending", attempt |-> sub[c].attempt,
                                         info |-> sub[c].info, g |-> g]]
       ELSE sub' = [sub EXCEPT ![c] = [pc |-> "confirm", attempt |-> sub[c].attempt,
                                       info |-> sub[c].info, gap |-> FALSE]]
    /\ UNCHANGED <<streamVars, group, degraded, handled>>

\* A pending entry whose payload is gone.
PendingGap(c, info) ==
    /\ group[c].pending # {}
    /\ \/ info.length = 0
       \/ Min(group[c].pending) < info.first
       \/ /\ info.deleted # 0 \/ info.last > info.length
          /\ ~(group[c].pending \subseteq stored)

\* Entries that vanished before they were delivered.
WaitingGap(info, g) ==
    \/ info.deleted > g.delivered
    \/ /\ ~(g.pending = 0 /\ g.lagKnown /\ g.lag = 0 /\ g.delivered = info.last)
       /\ IF info.last > 0 /\ g.lagKnown
          THEN g.read > info.last \/ g.lag > info.last - g.read \/ g.read + g.lag < info.last
          ELSE info.last > info.length

\* XPENDING and, one entry after the other, XRANGE.  They are one step: what
\* changes between them changes the second XINFO STREAM too.
ReadPending(c) ==
    /\ sub[c].pc = "pending"
    /\ group[c].live
    /\ LET info == sub[c].info
       IN sub' = [sub EXCEPT ![c] =
                    [pc |-> "confirm", attempt |-> sub[c].attempt, info |-> info,
                     gap |-> PendingGap(c, info) \/ WaitingGap(info, sub[c].g)]]
    /\ UNCHANGED <<streamVars, group, degraded, handled>>

\* Mutant of Stable: the second XINFO STREAM is left out.
AlwaysStable(c) == TRUE

Stable(c) == sub[c].info = StreamInfo

Confirm(c) ==
    /\ sub[c].pc = "confirm"
    /\ IF ~Stable(c)
       THEN /\ sub' = [sub EXCEPT ![c] =
                         IF sub[c].attempt < continuityMaxAttempts
                         THEN [pc |-> "info", attempt |-> sub[c].attempt + 1] ELSE Off]
            /\ UNCHANGED degraded
       ELSE IF sub[c].gap THEN GiveUpDegraded(c)
       ELSE /\ sub' = [sub EXCEPT ![c] = [pc |-> "backlog", batch |-> {}, broken |-> {}]]
            /\ UNCHANGED degraded
    /\ UNCHANGED <<streamVars, group, handled>>

-----------------------------------------------------------------------------
(* consume: first what is still pending, then what is new.                 *)

\* The first entries of a set, as many as one XREADGROUP returns.
Batch(ids) ==
    {i \in ids : Cardinality({j \in ids : j < i}) < eventReadBatchSize}

\* Mutant of ReadBacklog: straight to the new entries.
SkipBacklog(c) ==
    /\ sub[c].pc = "backlog" /\ sub[c].batch = {}
    /\ group[c].live
    /\ sub' = [sub EXCEPT ![c] = [pc |-> "new", batch |-> {}, broken |-> {}]]
    /\ UNCHANGED <<streamVars, group, degraded, handled>>

\* XREADGROUP 0; a deleted entry comes without its payload.
ReadBacklog(c) ==
    /\ sub[c].pc = "backlog" /\ sub[c].batch = {}
    /\ group[c].live
    /\ LET ids == Batch(group[c].pending)
       IN sub' = [sub EXCEPT ![c] = [pc |-> IF ids = {} THEN "new" ELSE "backlog",
                                     batch |-> ids, broken |-> ids \ stored]]
    /\ UNCHANGED <<streamVars, group, degraded, handled>>

\* Mutant of ReadNew: only the first entry of the answer is handled.
ReadNewHandlingFirst(c) ==
    /\ sub[c].pc = "new" /\ sub[c].batch = {}
    /\ group[c].live /\ Waiting(c) # {}
    /\ LET ids == Batch(Waiting(c))
       IN /\ group' = [group EXCEPT ![c].delivered = Max(ids),
                                    ![c].pending = @ \cup ids]
          /\ sub' = [sub EXCEPT ![c] = [pc |-> "new", batch |-> {Min(ids)}, broken |-> {}]]
    /\ UNCHANGED <<streamVars, degraded, handled>>

\* Mutant of ReadNew: the group's cursor stays at the first entry of the answer.
ReadNewCursorAtFirst(c) ==
    /\ sub[c].pc = "new" /\ sub[c].batch = {}
    /\ group[c].live /\ Waiting(c) # {}
    /\ LET ids == Batch(Waiting(c))
       IN /\ group' = [group EXCEPT ![c].delivered = Min(ids),
                                    ![c].pending = @ \cup ids]
          /\ sub' = [sub EXCEPT ![c] = [pc |-> "new", batch |-> ids, broken |-> {}]]
    /\ UNCHANGED <<streamVars, degraded, handled>>

\* XREADGROUP >
ReadNew(c) ==
    /\ sub[c].pc = "new" /\ sub[c].batch = {}
    /\ group[c].live /\ Waiting(c) # {}
    /\ LET ids == Batch(Waiting(c))
       IN /\ group' = [group EXCEPT ![c].delivered = Max(ids),
                                    ![c].pending = @ \cup ids]
          /\ sub' = [sub EXCEPT ![c] = [pc |-> "new", batch |-> ids, broken |-> {}]]
    /\ UNCHANGED <<streamVars, degraded, handled>>

\* The handler of the next entry returns; its XACK comes later.
Handle(c) ==
    /\ sub[c].pc \in {"backlog", "new"} /\ sub[c].batch # {}
    /\ Min(sub[c].batch) \notin sub[c].broken
    /\ handled' = [handled EXCEPT ![c] = @ \cup {Min(sub[c].batch)}]
    /\ sub' = [sub EXCEPT ![c] = [pc |-> "ack", back |-> sub[c].pc,
                                  batch |-> sub[c].batch, broken |-> sub[c].broken]]
    /\ UNCHANGED <<streamVars, group, degraded>>

Ack(c) ==
    /\ sub[c].pc = "ack"
    /\ LET i == Min(sub[c].batch)
       IN /\ group' = [group EXCEPT ![c].pending = @ \ {i}]
          /\ sub' = [sub EXCEPT ![c] = [pc |-> sub[c].back, batch |-> sub[c].batch \ {i},
                                        broken |-> sub[c].broken \ {i}]]
    /\ UNCHANGED <<streamVars, degraded, handled>>

\* An entry without payload, or the group was destroyed meanwhile.
Broken(c) ==
    /\ \/ sub[c].pc \in {"backlog", "new"} /\ sub[c].batch # {}
          /\ Min(sub[c].batch) \in sub[c].broken
       \/ sub[c].pc = "pending" /\ ~group[c].live
       \/ sub[c].pc \in {"backlog", "new"} /\ sub[c].batch = {} /\ ~group[c].live
    /\ GiveUpDegraded(c)
    /\ UNCHANGED <<streamVars, group, handled>>

\* Any Redis error, or a handler that returns one.
Fails(c) ==
    /\ Running(c)
    /\ GiveUpDegraded(c)
    /\ UNCHANGED <<streamVars, group, handled>>

\* The context ends, or the process restarts its subscription.
Cancel(c) ==
    /\ Running(c)
    /\ sub' = [sub EXCEPT ![c] = Off]
    /\ UNCHANGED <<streamVars, group, degraded, handled>>

\* CheckPending: entries have been pending for longer than a threshold.
CheckPending(c) ==
    /\ group[c].pending # {}
    /\ degraded' = [degraded EXCEPT ![c] = TRUE]
    /\ UNCHANGED <<streamVars, group, sub, handled>>

Proceed(c) == \/ ReadInfo(c) \/ ReadGroups(c) \/ ReadPending(c) \/ Confirm(c)
              \/ ReadBacklog(c) \/ ReadNew(c) \/ Handle(c) \/ Ack(c) \/ Broken(c)

StreamNext ==
    \/ Publish
    \/ Trim
    \/ ForeignTrim
    \/ ForeignDelete
    \/ \E c \in Consumer :
         \/ Subscribe(c)
         \/ Proceed(c)
         \/ Fails(c)
         \/ Cancel(c)
         \/ CloseConsumerGroupIfIdle(c)
         \/ CloseRefused(c)
         \/ DeleteConsumerGroup(c)
         \/ CheckPending(c)
         \/ \E old \in Consumer : ReplaceConsumer(c, old) \/ ReplaceRefused(c, old)

\* A subscription that is neither cancelled nor fails keeps going: its calls are
\* answered and its handler returns.
StreamSpec == /\ StreamInit /\ [][StreamNext]_busVars
              /\ \A c \in Consumer : WF_busVars(Proceed(c))

-----------------------------------------------------------------------------
(* Properties.                                                             *)

\* Every variable keeps its shape; what is pending was delivered.
StreamTypeOK ==
    /\ last \in 0 .. MaxEvents
    /\ stored \subseteq 1 .. last
    /\ deleted \in 0 .. last
    /\ \A c \in Consumer :
         /\ group[c].from <= group[c].delivered /\ group[c].delivered <= last
         /\ group[c].pending \subseteq 1 .. group[c].delivered
         /\ handled[c] \subseteq 1 .. last
    /\ degraded \in [Consumer -> BOOLEAN]

\* Entries the group of c still has to offer: never delivered, or delivered and
\* not acknowledged, with their payload.
Offered(c) == Waiting(c) \cup (group[c].pending \cap stored)

\* Entries c should have seen since its group began and never will.
Lost(c) == ((group[c].from + 1) .. last) \ (handled[c] \cup Offered(c))

\* Trim and the group scripts never take an entry away from a session that has
\* not handled it ("Trim shortens the Stream only when every consumer group is
\* caught up and has no pending messages"), across crashes between a handler
\* and its XACK, resubscriptions and concurrent sessions.
NothingMissed == \A c \in Consumer : group[c].live => Lost(c) = {}

\* ReplaceConsumer hands over without a gap: the old session has handled
\* everything before the point where the new session's group begins.
HandoverLosesNothing ==
    [][\A c, old \in Consumer :
         (/\ group[old].live /\ ~group[c].live
          /\ ~group'[old].live /\ group'[c].live)
           => (group[old].from + 1) .. group'[c].from \subseteq handled[old]]_busVars

\* Events reach the handler in stream order: one is never handled for the first
\* time after a later one, whatever was redelivered in between.
HandledInOrder ==
    [][\A c \in Consumer :
         group[c].live =>
           \A i \in handled'[c] \ handled[c] :
             (group[c].from + 1) .. (i - 1) \subseteq handled[c]]_busVars

\* When CheckContinuity lets a subscription begin, nothing the group still has to
\* deliver, or has delivered and the session has not handled, has been deleted by
\* anyone: entries trimmed or deleted before or during its four round trips are
\* noticed.  (An entry deleted behind a running subscription is skipped by
\* XREADGROUP without a trace; no later check can see it.)
ContinuityMeansComplete ==
    [][\A c \in Consumer :
         (sub[c].pc = "confirm" /\ sub'[c].pc = "backlog" /\ group[c].live)
           => /\ (group[c].delivered + 1) .. last \subseteq stored
              /\ group[c].pending \ handled[c] \subseteq stored]_busVars

\* As long as a subscription goes on, every entry offered to it is handled,
\* unless somebody deletes it first.
EventsReachHandler ==
    \A c \in Consumer, i \in 1 .. MaxEvents :
      (Running(c) /\ i \in Offered(c))
        ~> (i \in handled[c] \/ i \notin stored \/ ~Running(c) \/ ~group[c].live)
=============================================================================
