------------------------------ MODULE NodeLease ------------------------------
(***************************************************************************)
(* The processes of a node and the leases they believe to hold             *)
(* (RegisterNode, RenewNode, ReplaceNodeSession and nodeLeaseGrantResult   *)
(* in src/redis/directory.go).  A session is one run of a process; it      *)
(* starts by registering or by replacing the session before it, and then   *)
(* renews.  The script of a call may run late, after its caller has given  *)
(* up or go-redis has sent it again, and its answer may be lost.           *)
(*                                                                         *)
(* One clock stands for Redis TIME and the processes' clocks.              *)
(***************************************************************************)
EXTENDS NodeRegistry, FiniteSets

CONSTANTS NodeOf,  \* NodeOf[s]: the node that session s is a run of
          MaxLate  \* bound: scripts under way that nobody waits for

ASSUME LeaseAssumption == /\ NodeOf \in [Session -> Node]
                          /\ MaxLate \in Nat

VARIABLES request,  \* the call each process is waiting for
          grant,    \* what each process was last granted
          late      \* scripts under way that nobody waits for

processVars == <<request, grant, late>>
leaseVars == <<registryVars, processVars>>

Idle == [pc |-> "idle"]

NoGrant == [version |-> 0, until |-> 0]

Script(s, op) == [session |-> s, op |-> op]

LeaseInit == /\ RegistryInit
             /\ request = [s \in Session |-> Idle]
             /\ grant = [s \in Session |-> NoGrant]
             /\ late = {}

-----------------------------------------------------------------------------
\* A process that holds no grant yet starts; one that does renews.  RenewNode
\* reads the record first, to find the group of its lease index.
Begin(s, op) ==
    /\ request[s] = Idle
    /\ \/ op \in {"register", "replace"} /\ grant[s] = NoGrant
       \/ op = "renew" /\ grant[s] # NoGrant /\ Exists(NodeOf[s])
    /\ request' = [request EXCEPT ![s] = [pc |-> "sent", op |-> op, start |-> now]]
    /\ UNCHANGED <<registryVars, grant, late>>

\* A repeated registration of a live session is answered and changes nothing.
AlreadyRegistered(n, s) ==
    /\ Exists(n) /\ node[n].session = s
    /\ Live(n) /\ ScoreAgrees(n)
    /\ Unexpired(n)
    /\ UNCHANGED registryVars

\* The scripts, when they answer with a lease.
Succeeds(n, s, op) ==
    \/ op = "register" /\ (RegisterNode(n, s) \/ AlreadyRegistered(n, s))
    \/ op = "renew" /\ RenewNode(n, s)
    \/ op = "replace" /\ ReplaceNodeSession(n, s)

\* Mutant of Remaining: a full lease, whatever is left of it.
RemainingAssumed(n) == TTL

\* The remaining lease in the script's answer.
Remaining(n) == node'[n].expire - now

Run(s) ==
    LET n == NodeOf[s] IN
    /\ request[s].pc = "sent"
    /\ Succeeds(n, s, request[s].op)
    /\ request' = [request EXCEPT ![s] =
                     [pc |-> "answered", op |-> request[s].op, start |-> request[s].start,
                      version |-> node'[n].version, remaining |-> Remaining(n)]]
    /\ UNCHANGED <<grant, late>>

RunLate(m) ==
    /\ m \in late
    /\ Succeeds(NodeOf[m.session], m.session, m.op)
    /\ late' = late \ {m}
    /\ UNCHANGED <<request, grant>>

\* Mutant of GrantUntil: counted from the arrival of the answer.
GrantUntilFromArrival(r) == now + r.remaining

\* nodeLeaseGrantResult: the lease that remained, counted from before the call.
GrantUntil(r) == r.start + r.remaining

Receive(s) ==
    LET r == request[s] IN
    /\ r.pc = "answered"
    /\ r.remaining > 0
    /\ grant' = [grant EXCEPT ![s] = [version |-> r.version, until |-> GrantUntil(r)]]
    /\ request' = [request EXCEPT ![s] = Idle]
    /\ UNCHANGED <<registryVars, late>>

\* What may become of a script nobody waits for any longer: it is lost, or
\* still on its way.
Abandoned(s) ==
    {late} \cup IF request[s].pc = "sent" /\ Cardinality(late) < MaxLate
                THEN {late \cup {Script(s, request[s].op)}} ELSE {}

\* go-redis sends the script again: the first one may have run, or still run.
Resend(s) ==
    LET r == request[s] IN
    /\ r # Idle
    /\ request' = [request EXCEPT ![s] = [pc |-> "sent", op |-> r.op, start |-> r.start]]
    /\ late' \in Abandoned(s)
    /\ UNCHANGED <<registryVars, grant>>

\* The script refused, its answer is lost, or the context ran out.
Fail(s) ==
    /\ request[s] # Idle
    /\ request' = [request EXCEPT ![s] = Idle]
    /\ late' \in Abandoned(s)
    /\ UNCHANGED <<registryVars, grant>>

\* A late script finds a state it refuses, or was lost on the way.
Drop(m) ==
    /\ m \in late
    /\ late' = late \ {m}
    /\ UNCHANGED <<registryVars, request, grant>>

\* The process leaves in good order; it may never learn that it has left, if the
\* answer is lost.  The GET before the script only finds the keys.
Leave(s) ==
    /\ UnregisterNode(NodeOf[s], s)
    /\ grant' \in {grant, [grant EXCEPT ![s] = NoGrant]}
    /\ UNCHANGED <<request, late>>

ProcessStep ==
    \/ \E s \in Session : \/ \E op \in {"register", "renew", "replace"} : Begin(s, op)
                          \/ Run(s)
                          \/ Receive(s)
                          \/ Resend(s)
                          \/ Fail(s)
                          \/ Leave(s)
    \/ \E m \in late : RunLate(m) \/ Drop(m)

\* Operators, the lease scanner and the clock.
OthersStep ==
    /\ \/ Tick
       \/ \E n \in Node : \/ DrainNode(n)
                          \/ MarkNodeInvalid(n)
                          \/ RestoreNode(n)
                          \/ ExpireNodeLease(n, lease[n], node[n])
    /\ UNCHANGED processVars

LeaseNext == ProcessStep \/ OthersStep

LeaseSpec == LeaseInit /\ [][LeaseNext]_leaseVars

-----------------------------------------------------------------------------
(* Properties.                                                             *)

Granted(s) == grant[s].until > now

\* The deadline a process computes is conservative (ValidUntil in src/model.go):
\* while it may act on its grant, its session holds an unexpired lease, unless
\* the node was taken from it or given up.
GrantConservative ==
    \A s \in Session : (Granted(s) /\ node[NodeOf[s]].session = s) => Healthy(NodeOf[s], s)

\* So a process with a valid grant loses its node by a decision, a replacement or
\* a removal, and never by the passing of time.
GrantLostByDecision ==
    [][\A s \in Session :
         LET n == NodeOf[s] IN
         (Granted(s) /\ node[n].session = s /\ Live(n) /\ ~(node'[n].session = s /\ Live(n)'))
           => emitted' \in {NodeEvent("NodeReplaced", n), NodeEvent("NodeUnregistered", n)}
      ]_leaseVars
=============================================================================
