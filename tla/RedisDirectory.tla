--------------------------- MODULE RedisDirectory ---------------------------
(***************************************************************************)
(* The Go client of the directory (src/redis/directory.go): several        *)
(* processes share one Redis.  A placement operation is two round trips, a *)
(* GET that snapshots the placement and an EVAL that carries the snapshot, *)
(* and anything may happen in between.  ResolveRoute repeats both when the *)
(* script answers "conflict".  The script may run without its answer       *)
(* arriving: the caller then sees an error, or go-redis sends the same     *)
(* EVAL again, a creation under its old identifier.                        *)
(*                                                                         *)
(* One clock stands for Redis TIME and for the processes' clocks: only     *)
(* durations matter to ValidUntil.                                         *)
(***************************************************************************)
EXTENDS PlacementDirectory

CONSTANTS Client,      \* processes that use the directory
          resolveRouteMaxAttempts,  \* rounds of ResolveRoute (3 in the code)
          MayDo,       \* MayDo[c]: the operations process c uses
          ResendOps    \* operations whose EVAL go-redis may send again

MutateOps == {"release", "transfer", "recover"}

Ops == MutateOps \cup {"lookup", "resolve", "allocate"}

ASSUME ClientAssumption == /\ resolveRouteMaxAttempts \in Nat \ {0}
                           /\ MayDo \in [Client -> SUBSET Ops]
                           /\ ResendOps \subseteq Ops

VARIABLES call,  \* the operation each client has in flight
          held,  \* the placement or route each client was last answered
          reused \* history: identifiers that named a second lifetime

clientVars == <<call, held>>
storedVars == <<directoryVars, reused>>
redisVars == <<storedVars, clientVars>>

-----------------------------------------------------------------------------
Idle == [pc |-> "idle"]

\* until = 0: a Placement, which carries no permission to route.
Nothing == [grain |-> "none", p |-> NoPlacement, until |-> 0]

RedisInit == /\ DirectoryInit
             /\ call = [c \in Client |-> Idle]
             /\ held = [c \in Client |-> Nothing]
             /\ reused = {}

\* The GET of an operation and what the process remembers of it.
Snapshot(c, op, g, group, target, cmd, attempt) ==
    /\ op \in MayDo[c]
    /\ call' = [call EXCEPT ![c] =
                  [pc |-> "eval", op |-> op, grain |-> g, group |-> group,
                   target |-> target, cmd |-> cmd, id |-> NoID,
                   raw |-> placement[g], start |-> now,
                   attempt |-> attempt, resent |-> FALSE]]
    /\ UNCHANGED <<storedVars, held>>

\* A missing placement ends every operation but the two that may create one.
StartLookup(c, g) ==
    /\ call[c] = Idle /\ Placed(g)
    /\ Snapshot(c, "lookup", g, "", NoNode, NoPlacement, 1)

StartAllocate(c, g, group) ==
    /\ call[c] = Idle
    /\ Snapshot(c, "allocate", g, group, NoNode, NoPlacement, 1)

StartResolve(c, g, group) ==
    /\ call[c] = Idle
    /\ Snapshot(c, "resolve", g, group, NoNode, NoPlacement, 1)

\* Release, Transfer and Recover name the placement the process was last told.
StartMutate(c, op, target) ==
    LET g == held[c].grain IN
    /\ call[c] = Idle /\ held[c] # Nothing /\ Placed(g)
    /\ Snapshot(c, op, g, "", target, held[c].p, 1)

\* The next round of ResolveRoute: a new snapshot, a new identifier.
Reread(c) ==
    /\ call[c].pc = "reread"
    /\ Snapshot(c, "resolve", call[c].grain, call[c].group, NoNode, NoPlacement,
                call[c].attempt)

-----------------------------------------------------------------------------
(* The script of a call, when it writes.                                   *)

Writes(k, id) ==
    \/ k.op = "allocate" /\ Allocate(k.grain, k.group, id)
    \/ k.op = "resolve" /\ ResolveRoute(k.grain, k.group, id, k.raw)
    \/ k.op = "release" /\ Release(k.grain, k.raw, k.cmd)
    \/ k.op = "transfer" /\ Transfer(k.grain, k.raw, k.cmd, k.cmd.node, k.target)
    \/ k.op = "recover" /\ Recover(k.grain, k.raw, k.cmd, k.target)

\* The answers that only report the stored placement: its owner is healthy.
Reports(k) ==
    /\ k.op \in {"lookup", "allocate", "resolve"}
    /\ Placed(k.grain) /\ placement[k.grain] = k.raw
    /\ Healthy(k.raw.node, k.raw.session)
    /\ k.op = "resolve" => GroupOf[k.raw.node] = k.group
    /\ UNCHANGED directoryVars

\* Only a script that may create a placement carries an identifier, the same
\* whenever it runs.  The code draws it before the GET; no one can tell until a
\* placement has been created under it.
IDs(k) == IF k.op \in {"allocate", "resolve"} /\ k.id = NoID THEN FreshIDs ELSE {k.id}

\* Lookup takes requestStart before its GET, ResolveRoute between the GET and
\* the script.
RequestStart(k) == IF k.op = "resolve" /\ ~k.resent THEN k.start .. now ELSE {k.start}

\* The request as go-redis sends it again.
Again(k, id, start) ==
    [k EXCEPT !.id = IF id \in spent' THEN id ELSE NoID, !.start = start, !.resent = TRUE]

\* The answer carries the placement and the remaining lease; the client keeps
\* the request where it may send it again.
Answered(c, k, id) ==
    \E start \in RequestStart(k) :
    LET p == placement'[k.grain] IN
    call' = [call EXCEPT ![c] =
               [pc |-> "answered", op |-> k.op, grain |-> k.grain, start |-> start,
                p |-> p,
                remaining |-> IF p = NoPlacement THEN 0 ELSE lease[p.node] - now,
                again |-> IF k.op \in ResendOps THEN Again(k, id, start) ELSE Idle]]

Eval(c) ==
    LET k == call[c] IN
    /\ k.pc = "eval"
    /\ \/ \E id \in IDs(k) : Writes(k, id) /\ Answered(c, k, id)
       \/ Reports(k) /\ Answered(c, k, k.id)
    /\ reused' = IF Placed(k.grain) THEN reused
                 ELSE reused \cup ({placement'[k.grain].id} \cap spent)
    /\ UNCHANGED held

\* The answer is lost and go-redis sends the script again.
Resend(c) ==
    /\ call[c].pc = "answered" /\ call[c].again # Idle
    /\ call' = [call EXCEPT ![c] = call[c].again]
    /\ UNCHANGED <<storedVars, held>>

\* Mutant of ValidUntil: counted from the arrival of the answer.
ValidUntilFromArrival(k) == now + k.remaining

\* nodeLeaseGrant arithmetic of Lookup and ResolveRoute: the lease that remained
\* when the script ran, counted from before the script ran.
ValidUntil(k) == k.start + k.remaining

\* The answer arrives; a route that has already run out is an error.
Receive(c) ==
    LET k == call[c] IN
    /\ k.pc = "answered"
    /\ call' = [call EXCEPT ![c] = Idle]
    /\ \/ k.op \in {"lookup", "resolve"}
          /\ held' = IF now < ValidUntil(k)
                     THEN [held EXCEPT ![c] = [grain |-> k.grain, p |-> k.p,
                                               until |-> ValidUntil(k)]]
                     ELSE held
       \/ k.op \in {"allocate", "transfer", "recover"}
          /\ held' = [held EXCEPT ![c] = [grain |-> k.grain, p |-> k.p, until |-> 0]]
       \/ k.op = "release" /\ held' = [held EXCEPT ![c] = Nothing]
    /\ UNCHANGED storedVars

\* Only ResolveRoute asks again, and only so often.  Two lifetimes under one
\* identifier conflict by their timestamps, which the model leaves out.
Conflict(c) ==
    LET k == call[c] IN
    /\ k.pc = "eval" /\ k.op = "resolve"
    /\ placement[k.grain] # k.raw \/ k.raw.id \in reused
    /\ k.attempt < resolveRouteMaxAttempts
    /\ call' = [call EXCEPT ![c] = [pc |-> "reread", grain |-> k.grain,
                                    group |-> k.group, attempt |-> k.attempt + 1]]
    /\ UNCHANGED <<storedVars, held>>

\* Any error: the script refused, the request or its answer was lost, the
\* context was cancelled.
Fail(c) ==
    /\ call[c] # Idle
    /\ call' = [call EXCEPT ![c] = Idle]
    /\ UNCHANGED <<storedVars, held>>

ClientStep(c) ==
    \/ \E g \in Grain : \/ StartLookup(c, g)
                        \/ \E group \in Group : \/ StartAllocate(c, g, group)
                                                \/ StartResolve(c, g, group)
    \/ StartMutate(c, "release", NoNode)
    \/ \E target \in Node : \/ StartMutate(c, "transfer", target)
                            \/ StartMutate(c, "recover", target)
    \/ Reread(c)
    \/ Eval(c)
    \/ Resend(c)
    \/ Receive(c)
    \/ Conflict(c)
    \/ Fail(c)

\* Node processes, operators and the lease scanner go on beside the clients;
\* their operations read no snapshot that could change the script's effect.
NodeSideStep ==
    /\ \/ RegistryStep
       \/ \E n \in Node, s \in Session : CompleteDrain(n, s)
    /\ UNCHANGED <<clientVars, reused>>

RedisNext == NodeSideStep \/ \E c \in Client : ClientStep(c)

RedisSpec == RedisInit /\ [][RedisNext]_redisVars

-----------------------------------------------------------------------------
(* Properties.                                                             *)

\* Whatever the interleaving of snapshots and scripts, Redis only moves by
\* whole scripts that saw the placement they replace: a stale snapshot never
\* overwrites, re-indexes or releases someone else's placement.  Only a creation
\* that go-redis sends again may come under an identifier already used.
ScriptsSeeCurrentPlacement == RepeatingDirectorySpec

\* ValidUntil is conservative: as long as a process may use the route it was
\* given, the session it names holds an unexpired lease, unless the session was
\* replaced or removed (which is announced).  So nobody can recover the grain
\* away while the route is in use.
RouteConservative ==
    \A c \in Client :
      LET p == held[c].p IN
      (held[c].until > now /\ node[p.node].session = p.session)
        => Healthy(p.node, p.session)

\* An identifier never names placements of two grains, and together with the
\* version it names one owner: two processes that were told the same pair were
\* told the same - unless the identifier's creation ran again.
VersionNamesOneOwner ==
    \A c, d \in Client :
      (held[c] # Nothing /\ held[d] # Nothing /\ held[c].p.id = held[d].p.id)
        => /\ held[c].grain = held[d].grain
           /\ held[c].p.id \notin reused /\ held[c].p.version = held[d].p.version
                => held[c].p = held[d].p

\* A Release, Transfer or Recover whose answer was lost is applied once, however
\* often go-redis sends it: the snapshot no longer matches, unless the creation
\* of that lifetime ran again too.
MutationAppliedOnce ==
    [][\A c \in Client :
         (call[c].pc = "eval" /\ call[c].op \in MutateOps /\ call[c].resent
            /\ call'[c] # call[c] /\ call[c].raw.id \notin reused)
           => placement' = placement]_redisVars

\* model.go says of PlacementID that it identifies one allocation lifetime of a
\* grain: no lifetime begins under the identifier of an earlier one.
IdentifierNamesOneLifetime ==
    [][\A g \in Grain :
         (~Placed(g) /\ Placed(g)') => placement'[g].id \notin spent]_redisVars
=============================================================================
