------------------------------ MODULE Transport -----------------------------
(***************************************************************************)
(* internal/network between the engines of several replicas: Transport     *)
(* with its deadlines, ConnPool with its two-step lookup, the router that  *)
(* calls the engine, and the mutex every engine holds while it sends.      *)
(*                                                                         *)
(* A task is one call of Transport.Send by a goroutine: the broadcast of a *)
(* proposal runs one to each other member and waits for all of them with   *)
(* the engine's mutex held, HandlePropose runs one for its vote with the   *)
(* mutex held, and a timeout runs one for its new-view message without.    *)
(* A job is a call of the engine that waits for, or has, its mutex: the    *)
(* answer to an RPC.  It goes on when its caller has given up.             *)
(*                                                                         *)
(* What the handlers decide (to vote, to propose, who leads) is left open  *)
(* here; DHotStuff models it.  Dialling blocks until it succeeds or the    *)
(* deadline passes (grpc.WithBlock).                                       *)
(***************************************************************************)
EXTENDS Naturals, FiniteSets

CONSTANTS
  Node,          \* the members of the committee
  Unreachable,   \* members nobody can connect to
  Leader,        \* members votes and new-view messages are sent to
  Timers,        \* members whose timer expires once
  MaxProposals,  \* bound: proposals, of all members together
  MaxCloses      \* bound: calls of ConnPool.Close, of all members together

ASSUME TransportAssumption ==
  /\ Unreachable \subseteq Node /\ Leader \subseteq Node /\ Timers \subseteq Node
  /\ MaxProposals \in Nat /\ MaxCloses \in Nat

Nobody == [kind |-> "none"]

Kind == {"propose", "vote", "newview"}

\* number is the place of a proposal among all of them, and 0 for the others.
Task == [src : Node, dst : Node, kind : Kind, number : 0 .. MaxProposals]

Job == {t \in Task : t.kind # "vote"}

VARIABLES
  engine,     \* the job that holds the mutex of each engine
  waiting,    \* the jobs that wait for a mutex
  wire,       \* requests on the wire
  at,         \* where each task in progress is
  pool,       \* the task that holds each pool's write lock
  conns,      \* the peers each pool has a connection to
  open,       \* history: connections open from one member to another
  expired,    \* history: jobs whose caller gave up
  proposals,  \* history: proposals made
  timeouts,   \* history: members whose timer has expired
  closes      \* history: calls of Close

engineVars == <<engine, waiting>>
poolVars == <<pool, conns, open>>
vars == <<engineVars, wire, at, poolVars, expired, proposals, timeouts, closes>>

-----------------------------------------------------------------------------
ATask(n, m, kind, number) == [src |-> n, dst |-> m, kind |-> kind, number |-> number]

\* The tasks run by a handler, that is, with the mutex of n held.
Held(n) == {t \in DOMAIN at : t.src = n /\ t.kind \in {"propose", "vote"}}

\* at, once the tasks given have started.
Started(tasks) ==
  [t \in DOMAIN at \cup tasks |-> IF t \in tasks THEN "get" ELSE at[t]]

\* Send returns.
End(tasks) == at' = [t \in DOMAIN at \ tasks |-> at[t]]

Init ==
  /\ engine = [n \in Node |-> Nobody]
  /\ waiting = {} /\ wire = {}
  /\ at = << >>
  /\ pool = [n \in Node |-> Nobody]
  /\ conns = [n \in Node |-> {}]
  /\ open = [n \in Node |-> [m \in Node |-> 0]]
  /\ expired = {}
  /\ proposals = 0
  /\ timeouts = {}
  /\ closes = 0

-----------------------------------------------------------------------------
(***************************************************************************)
(* The engine.                                                             *)
(***************************************************************************)
\* OnTimeout sends its new-view message without the engine's mutex.
OnTimeout(n) ==
  /\ n \in Timers \ timeouts
  /\ timeouts' = timeouts \cup {n}
  /\ \E m \in Leader : at' = Started({ATask(n, m, "newview", 0)})
  /\ UNCHANGED <<engineVars, wire, poolVars, expired, proposals, closes>>

\* A handler gets the mutex; what it sends is decided here.
Handle(job, tasks) ==
  /\ job \in waiting /\ engine[job.dst] = Nobody
  /\ waiting' = waiting \ {job}
  /\ engine' = [engine EXCEPT ![job.dst] = job]
  /\ at' = Started(tasks)
  /\ UNCHANGED <<wire, poolVars, expired, timeouts, closes>>

\* HandlePropose votes, or does not.
HandlePropose(job) ==
  /\ job.kind = "propose"
  /\ \/ Handle(job, {})
     \/ \E m \in Leader : Handle(job, {ATask(job.dst, m, "vote", 0)})
  /\ UNCHANGED proposals

\* BroadcastToCommittee: one task per member other than the sender.
Broadcast(n) == {ATask(n, m, "propose", proposals + 1) : m \in Node \ {n}}

\* HandleNewView collects the message, or proposes.
HandleNewView(job) ==
  /\ job.kind = "newview"
  /\ \/ Handle(job, {}) /\ UNCHANGED proposals
     \/ /\ proposals < MaxProposals
        /\ Handle(job, Broadcast(job.dst))
        /\ proposals' = proposals + 1

\* Mutated form of Waited: the broadcast does not wait for its tasks.
NotWaited(n) == TRUE

\* wg.Wait, and the return of Send.
Waited(n) == Held(n) = {}

\* The handler returns; the caller gets the answer if it still waits.
Return(n) ==
  /\ engine[n] # Nobody /\ Waited(n)
  /\ engine' = [engine EXCEPT ![n] = Nobody]
  /\ LET job == engine[n]
     IN  IF job \in DOMAIN at /\ at[job] = "call" THEN End({job}) ELSE UNCHANGED at
  /\ UNCHANGED <<waiting, wire, poolVars, expired, proposals, timeouts, closes>>

-----------------------------------------------------------------------------
(***************************************************************************)
(* Transport.Send: GetClient, then the RPC.                                *)
(***************************************************************************)
\* Mutated form of Connected: Send calls HandleNewView for a vote.
ConnectedAll(t) == at' = [at EXCEPT ![t] = "call"] /\ wire' = wire \cup {t}

\* GetClient has a connection: the RPC is made; Send has no case for a vote.
Connected(t) ==
  IF t.kind = "vote" THEN End({t}) /\ UNCHANGED wire
  ELSE at' = [at EXCEPT ![t] = "call"] /\ wire' = wire \cup {t}

\* The fast path of GetConn, under the read lock.
Lookup(t) ==
  /\ at[t] = "get" /\ pool[t.src] = Nobody
  /\ IF t.dst \in conns[t.src] THEN Connected(t)
     ELSE at' = [at EXCEPT ![t] = "lock"] /\ UNCHANGED wire
  /\ UNCHANGED <<engineVars, poolVars, expired, proposals, timeouts, closes>>

\* Mutated form of Cached: the second look is left out.
NeverCached(t) == FALSE

\* The second look, with the write lock.
Cached(t) == t.dst \in conns[t.src]

Recheck(t) ==
  /\ at[t] = "lock" /\ pool[t.src] = Nobody /\ Cached(t)
  /\ Connected(t)
  /\ UNCHANGED <<engineVars, poolVars, expired, proposals, timeouts, closes>>

Dial(t) ==
  /\ at[t] = "lock" /\ pool[t.src] = Nobody /\ ~Cached(t)
  /\ pool' = [pool EXCEPT ![t.src] = t]
  /\ at' = [at EXCEPT ![t] = "dial"]
  /\ UNCHANGED <<engineVars, wire, conns, open, expired, proposals, timeouts,
                 closes>>

Dialled(t) ==
  /\ at[t] = "dial" /\ t.dst \notin Unreachable
  /\ pool' = [pool EXCEPT ![t.src] = Nobody]
  /\ conns' = [conns EXCEPT ![t.src] = @ \cup {t.dst}]
  /\ open' = [open EXCEPT ![t.src][t.dst] = @ + 1]
  /\ Connected(t)
  /\ UNCHANGED <<engineVars, expired, proposals, timeouts, closes>>

\* Mutated form of Timed: a call may wait for ever.
DialTimed(t) == at[t] = "dial"

(***************************************************************************)
(* Where the deadline of a task can end it.  The wait for the pool's lock  *)
(* does not watch the context: a deadline that passes meanwhile fails the  *)
(* dial, or the call, that comes next.                                     *)
(***************************************************************************)
Timed(t) == at[t] \in {"dial", "call"}

DialExpires(t) ==
  /\ at[t] = "dial" /\ Timed(t)
  /\ pool' = [pool EXCEPT ![t.src] = Nobody]
  /\ End({t})
  /\ UNCHANGED <<engineVars, wire, conns, open, expired, proposals, timeouts, closes>>

CallExpires(t) ==
  /\ at[t] = "call" /\ Timed(t)
  /\ End({t})
  /\ expired' = expired \cup {t}
  /\ UNCHANGED <<engineVars, wire, poolVars, proposals, timeouts, closes>>

-----------------------------------------------------------------------------
\* The server starts a goroutine that calls the router and waits for the mutex.
Serve(job) ==
  /\ job \in wire
  /\ wire' = wire \ {job}
  /\ waiting' = waiting \cup {job}
  /\ UNCHANGED <<engine, at, poolVars, expired, proposals, timeouts, closes>>

\* A request whose caller has given up need not arrive.
Lose(job) ==
  /\ job \in wire \cap expired
  /\ wire' = wire \ {job}
  /\ UNCHANGED <<engineVars, at, poolVars, expired, proposals, timeouts, closes>>

\* Close takes the write lock; calls on the connections fail.
Close(n) ==
  /\ pool[n] = Nobody /\ closes < MaxCloses
  /\ closes' = closes + 1
  /\ conns' = [conns EXCEPT ![n] = {}]
  /\ open' = [open EXCEPT ![n] = [m \in Node |-> @[m] - (IF m \in conns[n] THEN 1 ELSE 0)]]
  /\ LET cut == {t \in DOMAIN at : t.src = n /\ at[t] = "call"}
     IN  End(cut) /\ expired' = expired \cup cut
  /\ UNCHANGED <<engineVars, wire, pool, proposals, timeouts>>

-----------------------------------------------------------------------------
Send(t) ==
  Lookup(t) \/ Recheck(t) \/ Dial(t) \/ Dialled(t) \/ DialExpires(t) \/ CallExpires(t)

Next ==
  \/ \E n \in Node : OnTimeout(n) \/ Return(n) \/ Close(n)
  \/ \E job \in waiting : HandlePropose(job) \/ HandleNewView(job)
  \/ \E job \in wire : Serve(job) \/ Lose(job)
  \/ \E t \in DOMAIN at : Send(t)

Spec == Init /\ [][Next]_vars

(***************************************************************************)
(* In every process some goroutine that is not blocked runs, and time      *)
(* passes.                                                                 *)
(***************************************************************************)
Running(n) == Return(n) \/ \E t \in DOMAIN at : t.src = n /\ Send(t)

FairSpec == Spec /\ \A n \in Node : WF_vars(Running(n))

-----------------------------------------------------------------------------
Place == {"get", "lock", "dial", "call"}

TypeOK ==
  /\ engine \in [Node -> Job \cup {Nobody}]
  /\ waiting \subseteq Job /\ wire \subseteq Job /\ expired \subseteq Job
  /\ DOMAIN at \subseteq Task /\ at \in [DOMAIN at -> Place]
  /\ pool \in [Node -> Task \cup {Nobody}]
  /\ conns \in [Node -> SUBSET Node] /\ open \in [Node -> [Node -> Nat]]
  /\ proposals \in 0 .. MaxProposals
  /\ timeouts \subseteq Timers
  /\ closes \in 0 .. MaxCloses

(***************************************************************************)
(* No connection leaks: those that are open are those the pool holds, one  *)
(* to each peer, however many tasks find none at the same time             *)
(* (pool.go:67-97).                                                        *)
(***************************************************************************)
NoLeak ==
  \A n, m \in Node : open[n][m] = IF m \in conns[n] THEN 1 ELSE 0

Pending(job) == job \in wire \cup waiting \/ engine[job.dst] = job

(***************************************************************************)
(* A member has one proposal at a time on its way to another, unless its   *)
(* wait for the earlier one was given up, at the deadline or because Close *)
(* cut the connection (both are counted in expired): the broadcast waits   *)
(* for all answers with the mutex held, so nothing else lets proposals     *)
(* overtake each other (transport.go:87-101, dhotstuff.go:334).            *)
(***************************************************************************)
OneOutstanding ==
  \A n, m \in Node : \A k \in 1 .. MaxProposals : \A i \in 1 .. k - 1 :
    Pending(ATask(n, m, "propose", i)) /\ Pending(ATask(n, m, "propose", k))
      => ATask(n, m, "propose", i) \in expired

(***************************************************************************)
(* An engine's mutex is released in the end, although its holder may wait  *)
(* for engines that wait for its own: the deadlines see to it              *)
(* (dhotstuff.go:299-337, transport.go:43-52).                             *)
(***************************************************************************)
MutexReleased == \A n \in Node : engine[n] # Nobody ~> engine[n] = Nobody
=============================================================================
