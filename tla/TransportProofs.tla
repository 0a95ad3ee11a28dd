--------------------------- MODULE TransportProofs --------------------------
(***************************************************************************)
(* The transport between the engines, for every number of members,         *)
(* whichever of them are unreachable or lead, and every bound: no          *)
(* connection leaks, and proposals overtake each other only through        *)
(* deadlines.                                                              *)
(*                                                                         *)
(* The argument: a task is started once; while it is in progress nothing   *)
(* of it has expired, and a broadcast starts only when the tasks of the    *)
(* last one are over, because the mutex is free only then.                 *)
(***************************************************************************)
EXTENDS Transport, TLAPS

\* What was ever started and has left a trace.
Known(t) ==
  t \in DOMAIN at \cup expired \cup wire \cup waiting \/ engine[t.dst] = t

\* The mutex of a member is held by a job for it.
HoldersAtHome == \A n \in Node : engine[n] # Nobody => engine[n].dst = n

\* A request is on the wire, in a queue or in a handler, in one of them.
OnePlace ==
  /\ \A job \in wire : job \notin waiting /\ engine[job.dst] # job
  /\ \A job \in waiting : engine[job.dst] # job

\* The lock of a pool is held exactly while its holder dials, and only for a new peer.
PoolHeld ==
  /\ \A n \in Node : pool[n] # Nobody =>
       pool[n] \in DOMAIN at /\ pool[n].src = n /\ at[pool[n]] = "dial"
  /\ \A t \in DOMAIN at : at[t] = "dial" =>
       pool[t.src] = t /\ t.dst \notin conns[t.src]

\* A handler's tasks are over when its mutex is free.
HeldUnderMutex == \A n \in Node : engine[n] = Nobody => Held(n) = {}

\* Tasks are started once: a new-view message per timeout, a number per proposal.
StartedOnce ==
  \A t \in Task : Known(t) =>
    /\ t.kind = "newview" => t.src \in timeouts
    /\ t.kind = "propose" => t.number <= proposals

\* A vote is never on the wire, and what has expired is over.
CallsAreJobs == \A t \in DOMAIN at : at[t] = "call" => t.kind # "vote"

ExpiredOver == \A t \in expired : t \notin DOMAIN at

\* A request is answered for somebody who waits, or has given up.
AnsweredFor ==
  \A job \in Job : Pending(job) =>
    job \in expired \/ (job \in DOMAIN at /\ at[job] = "call")

\* The proposal a member is broadcasting is the last of all its proposals.
LatestBroadcast ==
  \A t \in DOMAIN at : \A u \in Task :
    t.kind = "propose" /\ u.kind = "propose" /\ t.src = u.src /\ Known(u)
      => u.number <= t.number

IInv ==
  /\ TypeOK /\ NoLeak
  /\ HoldersAtHome /\ OnePlace /\ PoolHeld /\ HeldUnderMutex
  /\ StartedOnce /\ CallsAreJobs /\ ExpiredOver /\ AnsweredFor /\ LatestBroadcast

-----------------------------------------------------------------------------
LEMMA NobodyIsNoTask == Nobody \notin Task
BY DEF Nobody, Task, Kind

LEMMA ATaskType ==
  ASSUME NEW n \in Node, NEW m \in Node, NEW kind \in Kind, NEW k \in 0 .. MaxProposals
  PROVE  ATask(n, m, kind, k) \in Task
BY DEF ATask, Task

LEMMA JobType ==
  \A t : t \in Job <=> t \in Task /\ t.kind \in {"propose", "newview"}
BY DEF Job, Task, Kind

LEMMA TaskFields ==
  ASSUME NEW t \in Task
  PROVE  /\ t.src \in Node /\ t.dst \in Node /\ t.kind \in Kind
         /\ t.number \in 0 .. MaxProposals /\ t.number \in Nat
BY TransportAssumption DEF Task

\* How a step changes the tasks in progress.
LEMMA StartedAt ==
  ASSUME NEW tasks, at' = Started(tasks)
  PROVE  /\ DOMAIN at' = DOMAIN at \cup tasks
         /\ \A t \in DOMAIN at' : at'[t] = IF t \in tasks THEN "get" ELSE at[t]
BY DEF Started

LEMMA EndAt ==
  ASSUME NEW tasks, End(tasks)
  PROVE  /\ DOMAIN at' = DOMAIN at \ tasks
         /\ \A t \in DOMAIN at' : at'[t] = at[t]
BY DEF End

LEMMA MovedAt ==
  ASSUME NEW t \in DOMAIN at, NEW p, at' = [at EXCEPT ![t] = p]
  PROVE  /\ DOMAIN at' = DOMAIN at
         /\ \A u \in DOMAIN at' : at'[u] = IF u = t THEN p ELSE at[u]
OBVIOUS

\* Connected either ends the task or sends its request.
LEMMA ConnectedAt ==
  ASSUME NEW t \in DOMAIN at, Connected(t)
  PROVE  \/ /\ t.kind = "vote" /\ UNCHANGED wire
            /\ DOMAIN at' = DOMAIN at \ {t}
            /\ \A u \in DOMAIN at' : at'[u] = at[u]
         \/ /\ t.kind # "vote" /\ wire' = wire \cup {t}
            /\ DOMAIN at' = DOMAIN at
            /\ \A u \in DOMAIN at' : at'[u] = IF u = t THEN "call" ELSE at[u]
BY EndAt, MovedAt DEF Connected

\* What a handler starts: nothing, its vote, or a broadcast.
LEMMA HandleStarts ==
  ASSUME TypeOK, NEW job \in waiting, HandlePropose(job) \/ HandleNewView(job)
  PROVE  /\ job \in Job /\ job.dst \in Node
         /\ \E tasks \in SUBSET Task :
              /\ Handle(job, tasks)
              /\ \A t \in tasks : t.src = job.dst
              /\ \/ /\ \A t \in tasks : t.kind = "vote"
                    /\ UNCHANGED proposals
                 \/ /\ \A t \in tasks : t.kind = "propose" /\ t.number = proposals + 1
                    /\ proposals < MaxProposals /\ proposals' = proposals + 1
<1>1. job \in Job /\ job.dst \in Node
  BY JobType, TaskFields DEF TypeOK
<1>2. CASE Handle(job, {}) /\ UNCHANGED proposals
  <2>1. {} \in SUBSET Task /\ \A t \in {} : t.src = job.dst /\ t.kind = "vote"
    OBVIOUS
  <2>2. QED
    BY <1>1, <1>2, <2>1, Zenon
<1>3. ASSUME NEW m \in Leader, Handle(job, {ATask(job.dst, m, "vote", 0)}),
             UNCHANGED proposals
      PROVE  \E tasks \in SUBSET Task :
               /\ Handle(job, tasks)
               /\ \A t \in tasks : t.src = job.dst
               /\ \A t \in tasks : t.kind = "vote"
  <2> DEFINE v == ATask(job.dst, m, "vote", 0)
  <2>1. v \in Task
    <3>1. m \in Node /\ "vote" \in Kind /\ 0 \in 0 .. MaxProposals
      BY TransportAssumption DEF Kind
    <3>2. QED
      BY <1>1, <3>1, ATaskType
  <2>2. {v} \in SUBSET Task /\ \A t \in {v} : t.src = job.dst /\ t.kind = "vote"
    BY <2>1 DEF ATask
  <2> HIDE DEF v
  <2>3. QED
    BY <1>3, <2>2, Zenon DEF v
<1>4. ASSUME proposals < MaxProposals, Handle(job, Broadcast(job.dst))
      PROVE  \E tasks \in SUBSET Task :
               /\ Handle(job, tasks)
               /\ \A t \in tasks : t.src = job.dst
               /\ \A t \in tasks : t.kind = "propose" /\ t.number = proposals + 1
  <2>1. "propose" \in Kind /\ proposals + 1 \in 0 .. MaxProposals
    BY <1>4, TransportAssumption DEF Kind, TypeOK
  <2>2. ASSUME NEW m \in Node
        PROVE  LET t == ATask(job.dst, m, "propose", proposals + 1)
               IN  /\ t \in Task /\ t.src = job.dst
                   /\ t.kind = "propose" /\ t.number = proposals + 1
    BY <1>1, <2>1, ATaskType DEF ATask
  <2>3. /\ Broadcast(job.dst) \in SUBSET Task
        /\ \A t \in Broadcast(job.dst) :
             t.src = job.dst /\ t.kind = "propose" /\ t.number = proposals + 1
    BY <2>2 DEF Broadcast
  <2>4. QED
    BY <1>4, <2>3, Zenon
<1>5. QED
  <2>1. CASE HandlePropose(job)
    BY <1>1, <1>2, <1>3, <2>1, Zenon DEF HandlePropose
  <2>2. CASE HandleNewView(job)
    BY <1>1, <1>2, <1>4, <2>2, Zenon DEF HandleNewView
  <2>3. QED
    BY <2>1, <2>2

-----------------------------------------------------------------------------
LEMMA InitIInv == Init => IInv
<1> SUFFICES ASSUME Init PROVE IInv
  OBVIOUS
<1>1. DOMAIN at = {} /\ wire = {} /\ waiting = {} /\ expired = {}
  BY DEF Init
<1>2. \A t \in Task : ~Known(t)
  BY <1>1, NobodyIsNoTask, TaskFields DEF Init, Known
<1>3. TypeOK /\ NoLeak
  BY <1>1, TransportAssumption DEF Init, TypeOK, NoLeak
<1>4. \A job \in Job : ~Pending(job)
  BY <1>1, NobodyIsNoTask, TaskFields, JobType DEF Init, Pending
<1>5. QED
  BY <1>1, <1>2, <1>3, <1>4
     DEF IInv, Init, HoldersAtHome, OnePlace, PoolHeld, HeldUnderMutex, Held, StartedOnce,
         CallsAreJobs, ExpiredOver, AnsweredFor, LatestBroadcast

-----------------------------------------------------------------------------
(***************************************************************************)
(* One lemma per action.                                                   *)
(***************************************************************************)
LEMMA OnTimeoutKeeps ==
  ASSUME IInv, NEW n \in Node, OnTimeout(n)
  PROVE  IInv'
<1>1. PICK m \in Leader : at' = Started({ATask(n, m, "newview", 0)})
  BY DEF OnTimeout
<1> DEFINE t0 == ATask(n, m, "newview", 0)
<1>2. t0 \in Task /\ t0.kind = "newview" /\ t0.src = n
  <2>1. m \in Node /\ "newview" \in Kind /\ 0 \in 0 .. MaxProposals
    BY TransportAssumption DEF Kind
  <2>2. QED
    BY <2>1, ATaskType DEF ATask
<1>3. /\ n \in Timers \ timeouts /\ timeouts' = timeouts \cup {n}
      /\ UNCHANGED <<engine, waiting, wire, pool, conns, open, expired, proposals, closes>>
  BY DEF OnTimeout, engineVars, poolVars
<1>4. /\ DOMAIN at' = DOMAIN at \cup {t0}
      /\ \A t \in DOMAIN at' : at'[t] = IF t = t0 THEN "get" ELSE at[t]
  <2>1. at' = Started({t0})
    BY <1>1
  <2> HIDE DEF t0
  <2>2. QED
    BY <2>1 DEF Started
<1>5. ~Known(t0)
  BY <1>2, <1>3 DEF IInv, StartedOnce
<1> HIDE DEF t0
<1>6. t0 \notin DOMAIN at /\ t0 \notin expired
  BY <1>5 DEF Known
<1>7. TypeOK' /\ NoLeak'
  BY <1>1, <1>2, <1>3, <1>4 DEF IInv, TypeOK, NoLeak, Place, Started
<1>8. HoldersAtHome' /\ OnePlace'
  BY <1>3 DEF IInv, HoldersAtHome, OnePlace
<1>9. PoolHeld'
  BY <1>3, <1>4, <1>6 DEF IInv, PoolHeld
<1>10. HeldUnderMutex'
  BY <1>2, <1>3, <1>4 DEF IInv, HeldUnderMutex, Held
<1>11. \A u : Known(u)' => Known(u) \/ u = t0
  BY <1>3, <1>4 DEF Known
<1>12. StartedOnce'
  BY <1>2, <1>3, <1>11 DEF IInv, StartedOnce
<1>13. CallsAreJobs' /\ ExpiredOver'
  BY <1>3, <1>4, <1>6 DEF IInv, CallsAreJobs, ExpiredOver
<1>14. AnsweredFor'
  BY <1>3, <1>4, <1>6 DEF IInv, AnsweredFor, Pending
<1>15. LatestBroadcast'
  BY <1>2, <1>4, <1>11 DEF IInv, LatestBroadcast
<1>16. QED
  BY <1>7, <1>8, <1>9, <1>10, <1>12, <1>13, <1>14, <1>15 DEF IInv

LEMMA HandleKeeps ==
  ASSUME IInv, NEW job \in waiting, HandlePropose(job) \/ HandleNewView(job)
  PROVE  IInv'
<1>1. job \in Job /\ job \in Task /\ job.dst \in Node
  BY HandleStarts, JobType DEF IInv
<1>2. PICK tasks \in SUBSET Task :
        /\ Handle(job, tasks)
        /\ \A t \in tasks : t.src = job.dst
        /\ \/ /\ \A t \in tasks : t.kind = "vote"
              /\ UNCHANGED proposals
           \/ /\ \A t \in tasks : t.kind = "propose" /\ t.number = proposals + 1
              /\ proposals < MaxProposals /\ proposals' = proposals + 1
  BY HandleStarts DEF IInv
<1>3. /\ engine[job.dst] = Nobody
      /\ engine' = [engine EXCEPT ![job.dst] = job] /\ waiting' = waiting \ {job}
      /\ UNCHANGED <<wire, pool, conns, open, expired, timeouts, closes>>
  BY <1>2 DEF Handle, poolVars
<1>4. /\ at' = Started(tasks)
      /\ DOMAIN at' = DOMAIN at \cup tasks
      /\ \A t \in DOMAIN at' : at'[t] = IF t \in tasks THEN "get" ELSE at[t]
  BY <1>2, StartedAt DEF Handle
<1>5. proposals \in Nat /\ proposals' \in Nat /\ proposals <= proposals'
        /\ proposals' \in 0 .. MaxProposals
  BY <1>2, TransportAssumption DEF IInv, TypeOK
<1>6. \A t \in DOMAIN at : t.src = job.dst => t.kind \notin {"propose", "vote"}
  BY <1>1, <1>3 DEF IInv, HeldUnderMutex, Held
<1>7. \A t \in tasks : t \in Task /\ t \notin DOMAIN at /\ t \notin expired /\ ~Pending(t)
  <2>1. \A t \in tasks : t \in Task /\ t \notin DOMAIN at
    BY <1>2, <1>6
  <2>2. CASE \A t \in tasks : t.kind = "vote"
    <3>1. \A t \in Task : t \in wire \cup waiting \cup expired => t.kind # "vote"
      BY JobType DEF IInv, TypeOK
    <3>2. \A t \in Task : engine[t.dst] = t => t.kind # "vote"
      BY JobType, NobodyIsNoTask, TaskFields DEF IInv, TypeOK
    <3>3. QED
      BY <2>1, <2>2, <3>1, <3>2 DEF Pending
  <2>3. CASE \A t \in tasks : t.kind = "propose" /\ t.number = proposals + 1
    <3>1. \A t \in tasks : ~Known(t)
      BY <1>5, <2>1, <2>3 DEF IInv, StartedOnce
    <3>2. QED
      BY <2>1, <3>1 DEF Known, Pending
  <2>4. QED
    BY <1>2, <2>2, <2>3
<1>8. TypeOK' /\ NoLeak'
  <2>1. engine' \in [Node -> Job \cup {Nobody}] /\ waiting' \subseteq Job
    BY <1>1, <1>3 DEF IInv, TypeOK
  <2>2. DOMAIN at' \subseteq Task /\ at' \in [DOMAIN at' -> Place]
    BY <1>4 DEF IInv, TypeOK, Place, Started
  <2>3. QED
    BY <1>3, <1>5, <2>1, <2>2 DEF IInv, TypeOK, NoLeak
<1>9. HoldersAtHome'
  BY <1>1, <1>3 DEF IInv, TypeOK, HoldersAtHome
<1>10. OnePlace'
  <2>1. \A t \in Task : engine'[t.dst] = IF t.dst = job.dst THEN job ELSE engine[t.dst]
    BY <1>1, <1>3, TaskFields DEF IInv, TypeOK
  <2>2. \A t \in wire \cup waiting : t \in Task
    BY JobType DEF IInv, TypeOK
  <2>3. QED
    BY <1>1, <1>3, <2>1, <2>2 DEF IInv, OnePlace
<1>11. PoolHeld'
  BY <1>3, <1>4, <1>7 DEF IInv, PoolHeld
<1>12. HeldUnderMutex'
  <2>1. SUFFICES ASSUME NEW n \in Node, engine'[n] = Nobody PROVE Held(n)' = {}
    BY DEF HeldUnderMutex
  <2>2. n # job.dst /\ engine[n] = Nobody
    BY <1>1, <1>3, <2>1, NobodyIsNoTask DEF IInv, TypeOK
  <2>3. Held(n) = {}
    BY <2>2 DEF IInv, HeldUnderMutex
  <2>4. QED
    BY <1>2, <1>4, <2>2, <2>3 DEF Held
<1>13. \A u \in Task : Known(u)' => Known(u) \/ u \in tasks
  BY <1>1, <1>3, <1>4, TaskFields DEF IInv, TypeOK, Known
<1>14. StartedOnce'
  BY <1>2, <1>3, <1>5, <1>13, TaskFields DEF IInv, StartedOnce
<1>15. CallsAreJobs' /\ ExpiredOver'
  BY <1>3, <1>4, <1>7 DEF IInv, CallsAreJobs, ExpiredOver
<1>16. AnsweredFor'
  <2>1. \A u \in Job : Pending(u)' => Pending(u)
    BY <1>1, <1>3, JobType, TaskFields DEF IInv, TypeOK, Pending
  <2>2. QED
    BY <1>3, <1>4, <1>7, <2>1 DEF IInv, AnsweredFor
<1>17. LatestBroadcast'
  <2>1. SUFFICES ASSUME NEW t \in DOMAIN at', NEW u \in Task, t.kind = "propose",
                        u.kind = "propose", t.src = u.src, Known(u)'
                 PROVE  u.number <= t.number
    BY DEF LatestBroadcast
  <2>2. CASE t \in tasks
    BY <1>2, <1>5, <1>13, <2>1, <2>2, TaskFields DEF IInv, StartedOnce
  <2>3. CASE t \notin tasks
    <3>1. t \in DOMAIN at /\ t.src # job.dst
      BY <1>4, <1>6, <2>1, <2>3
    <3>2. u \notin tasks
      BY <1>2, <2>1, <3>1
    <3>3. QED
      BY <1>13, <2>1, <3>1, <3>2 DEF IInv, LatestBroadcast
  <2>4. QED
    BY <2>2, <2>3
<1>18. QED
  BY <1>8, <1>9, <1>10, <1>11, <1>12, <1>14, <1>15, <1>16, <1>17 DEF IInv

LEMMA ReturnKeeps ==
  ASSUME IInv, NEW n \in Node, Return(n)
  PROVE  IInv'
<1> DEFINE job == engine[n]
<1>1. /\ job # Nobody /\ job \in Job /\ job \in Task /\ job.dst = n
      /\ job.kind \in {"propose", "newview"}
  BY JobType DEF Return, IInv, TypeOK, HoldersAtHome
<1>2. /\ Held(n) = {}
      /\ engine' = [engine EXCEPT ![n] = Nobody]
      /\ UNCHANGED <<waiting, wire, pool, conns, open, expired, proposals, timeouts, closes>>
  BY DEF Return, Waited, poolVars
<1>3. \/ job \in DOMAIN at /\ at[job] = "call" /\ End({job})
      \/ ~(job \in DOMAIN at /\ at[job] = "call") /\ UNCHANGED at
  BY DEF Return
<1> HIDE DEF job
<1>4. /\ DOMAIN at' \subseteq DOMAIN at /\ DOMAIN at \subseteq DOMAIN at' \cup {job}
      /\ \A t \in DOMAIN at' : at'[t] = at[t]
      /\ job \in DOMAIN at /\ job \notin DOMAIN at' => at[job] = "call"
      /\ job \in DOMAIN at' => at[job] # "call"
  BY <1>3, EndAt
<1>5. \A t \in Task : engine'[t.dst] = t => engine[t.dst] = t /\ t # job
  BY <1>1, <1>2, TaskFields, NobodyIsNoTask DEF IInv, TypeOK, job
<1>6. \A u \in Task : Known(u)' => Known(u)
  BY <1>2, <1>4, <1>5 DEF Known
<1>7. TypeOK' /\ NoLeak'
  <2>1. at' \in [DOMAIN at' -> Place]
    BY <1>3, <1>4 DEF IInv, TypeOK, End
  <2>2. QED
    BY <1>2, <1>4, <2>1 DEF IInv, TypeOK, NoLeak
<1>8. HoldersAtHome'
  BY <1>2 DEF IInv, TypeOK, HoldersAtHome
<1>9. OnePlace'
  BY <1>2, <1>5, JobType DEF IInv, TypeOK, OnePlace
<1>10. PoolHeld'
  <2>1. \A m \in Node : pool[m] # Nobody => pool[m] # job \/ job \in DOMAIN at'
    BY <1>4 DEF IInv, PoolHeld
  <2>2. QED
    BY <1>2, <1>4, <2>1 DEF IInv, PoolHeld
<1>11. HeldUnderMutex'
  <2>1. SUFFICES ASSUME NEW m \in Node, engine'[m] = Nobody PROVE Held(m)' = {}
    BY DEF HeldUnderMutex
  <2>2. Held(m) = {}
    BY <1>2, <2>1 DEF IInv, TypeOK, HeldUnderMutex
  <2>3. QED
    BY <1>4, <2>2 DEF Held
<1>12. StartedOnce'
  BY <1>2, <1>6 DEF IInv, StartedOnce
<1>13. CallsAreJobs' /\ ExpiredOver'
  BY <1>2, <1>4 DEF IInv, CallsAreJobs, ExpiredOver
<1>14. AnsweredFor'
  <2>1. ASSUME NEW u \in Job, Pending(u)' PROVE Pending(u) /\ u # job
    <3>1. job \notin wire \cup waiting
      BY <1>1 DEF IInv, OnePlace, job
    <3>2. u \in Task
      BY JobType
    <3>3. QED
      BY <1>2, <1>5, <2>1, <3>1, <3>2 DEF Pending
  <2>2. QED
    BY <1>2, <1>4, <2>1 DEF IInv, AnsweredFor
<1>15. LatestBroadcast'
  BY <1>4, <1>6 DEF IInv, LatestBroadcast
<1>16. QED
  BY <1>7, <1>8, <1>9, <1>10, <1>11, <1>12, <1>13, <1>14, <1>15 DEF IInv

LEMMA ServeKeeps ==
  ASSUME IInv, NEW job \in wire, Serve(job) \/ Lose(job)
  PROVE  IInv'
<1>1. /\ wire' = wire \ {job} /\ waiting' \in {waiting, waiting \cup {job}}
      /\ UNCHANGED <<engine, at, pool, conns, open, expired, proposals, timeouts, closes>>
  BY DEF Serve, Lose, engineVars, poolVars
<1>2. job \in Job
  BY DEF IInv, TypeOK
<1>3. TypeOK' /\ NoLeak'
  BY <1>1, <1>2 DEF IInv, TypeOK, NoLeak
<1>4. HoldersAtHome' /\ PoolHeld' /\ HeldUnderMutex' /\ CallsAreJobs' /\ ExpiredOver'
  BY <1>1 DEF IInv, HoldersAtHome, PoolHeld, HeldUnderMutex, Held, CallsAreJobs, ExpiredOver
<1>5. OnePlace'
  BY <1>1 DEF IInv, OnePlace
<1>6. \A u : Known(u)' => Known(u)
  BY <1>1 DEF Known
<1>7. StartedOnce' /\ LatestBroadcast'
  BY <1>1, <1>6 DEF IInv, StartedOnce, LatestBroadcast
<1>8. AnsweredFor'
  BY <1>1 DEF IInv, AnsweredFor, Pending
<1>9. QED
  BY <1>3, <1>4, <1>5, <1>7, <1>8 DEF IInv

-----------------------------------------------------------------------------
(***************************************************************************)
(* The steps of a task.                                                    *)
(***************************************************************************)
\* What a step that starts nothing and leaves the engines alone preserves.
LEMMA NothingStarted ==
  ASSUME IInv, UNCHANGED <<engine, waiting, proposals, timeouts>>,
         DOMAIN at' \subseteq DOMAIN at,
         expired' \subseteq expired \cup DOMAIN at, wire' \subseteq wire \cup DOMAIN at
  PROVE  HoldersAtHome' /\ HeldUnderMutex' /\ StartedOnce' /\ LatestBroadcast'
<1>1. \A u : Known(u)' => Known(u)
  BY DEF Known
<1>2. HoldersAtHome' /\ HeldUnderMutex'
  BY DEF IInv, HoldersAtHome, HeldUnderMutex, Held
<1>3. StartedOnce' /\ LatestBroadcast'
  BY <1>1 DEF IInv, StartedOnce, LatestBroadcast
<1>4. QED
  BY <1>2, <1>3

\* A task that gets its connection is not pending yet.
LEMMA ConnectedKeeps ==
  ASSUME IInv, NEW t \in DOMAIN at, at[t] # "call", Connected(t),
         UNCHANGED <<engine, waiting, expired, proposals, timeouts>>
  PROVE  /\ HoldersAtHome' /\ HeldUnderMutex' /\ StartedOnce' /\ LatestBroadcast'
         /\ OnePlace' /\ CallsAreJobs' /\ ExpiredOver' /\ AnsweredFor'
         /\ wire' \subseteq Job /\ DOMAIN at' \subseteq DOMAIN at
         /\ at' \in [DOMAIN at' -> Place]
         /\ t \in DOMAIN at' => at'[t] = "call"
         /\ \A u \in DOMAIN at : u # t => u \in DOMAIN at' /\ at'[u] = at[u]
<1>1. t \in Task /\ t \notin expired
  BY DEF IInv, TypeOK, ExpiredOver
<1>2. \/ /\ t.kind = "vote" /\ UNCHANGED wire
         /\ DOMAIN at' = DOMAIN at \ {t}
         /\ \A u \in DOMAIN at' : at'[u] = at[u]
      \/ /\ t.kind # "vote" /\ wire' = wire \cup {t}
         /\ DOMAIN at' = DOMAIN at
         /\ \A u \in DOMAIN at' : at'[u] = IF u = t THEN "call" ELSE at[u]
  BY ConnectedAt
<1>3. DOMAIN at' \subseteq DOMAIN at /\ wire' \subseteq wire \cup DOMAIN at
  BY <1>2
<1>4. HoldersAtHome' /\ HeldUnderMutex' /\ StartedOnce' /\ LatestBroadcast'
  BY <1>3, NothingStarted
<1>5. at' \in [DOMAIN at' -> Place]
  <2>1. at' = [u \in DOMAIN at' |-> at'[u]]
    BY DEF Connected, End
  <2>2. QED
    BY <1>2, <2>1 DEF IInv, TypeOK, Place
<1>6. t.kind # "vote" => t \in Job /\ ~Pending(t)
  BY <1>1, JobType, TaskFields DEF IInv, AnsweredFor, Kind
<1>7. wire' \subseteq Job
  BY <1>2, <1>6 DEF IInv, TypeOK
<1>8. OnePlace'
  BY <1>2, <1>6 DEF IInv, OnePlace, Pending
<1>9. CallsAreJobs' /\ ExpiredOver'
  BY <1>2 DEF IInv, CallsAreJobs, ExpiredOver
<1>10. AnsweredFor'
  BY <1>2, JobType DEF IInv, AnsweredFor, Pending
<1>11. QED
  BY <1>2, <1>3, <1>4, <1>5, <1>7, <1>8, <1>9, <1>10

LEMMA LookupKeeps ==
  ASSUME IInv, NEW t \in DOMAIN at, Lookup(t)
  PROVE  IInv'
<1>1. /\ at[t] = "get" /\ pool[t.src] = Nobody
      /\ UNCHANGED <<engine, waiting, pool, conns, open, expired, proposals, timeouts, closes>>
  BY DEF Lookup, engineVars, poolVars
<1>2. CASE Connected(t)
  <2>1. /\ HoldersAtHome' /\ HeldUnderMutex' /\ StartedOnce' /\ LatestBroadcast'
        /\ OnePlace' /\ CallsAreJobs' /\ ExpiredOver' /\ AnsweredFor'
        /\ wire' \subseteq Job /\ DOMAIN at' \subseteq DOMAIN at
        /\ at' \in [DOMAIN at' -> Place]
        /\ t \in DOMAIN at' => at'[t] = "call"
        /\ \A u \in DOMAIN at : u # t => u \in DOMAIN at' /\ at'[u] = at[u]
    BY <1>1, <1>2, ConnectedKeeps
  <2>2. TypeOK' /\ NoLeak'
    BY <1>1, <2>1 DEF IInv, TypeOK, NoLeak
  <2>3. PoolHeld'
    BY <1>1, <2>1 DEF IInv, PoolHeld
  <2>4. QED
    BY <2>1, <2>2, <2>3 DEF IInv
<1>3. CASE at' = [at EXCEPT ![t] = "lock"] /\ UNCHANGED wire
  <2>1. /\ DOMAIN at' = DOMAIN at
        /\ \A u \in DOMAIN at' : at'[u] = IF u = t THEN "lock" ELSE at[u]
    BY <1>3
  <2>2. HoldersAtHome' /\ HeldUnderMutex' /\ StartedOnce' /\ LatestBroadcast'
    BY <1>1, <1>3, <2>1, NothingStarted
  <2>3. TypeOK' /\ NoLeak'
    BY <1>1, <1>3 DEF IInv, TypeOK, NoLeak, Place
  <2>4. PoolHeld' /\ OnePlace' /\ CallsAreJobs' /\ ExpiredOver' /\ AnsweredFor'
    BY <1>1, <1>3, <2>1
       DEF IInv, PoolHeld, OnePlace, CallsAreJobs, ExpiredOver, AnsweredFor, Pending
  <2>5. QED
    BY <2>2, <2>3, <2>4 DEF IInv
<1>4. QED
  BY <1>2, <1>3 DEF Lookup

LEMMA RecheckKeeps ==
  ASSUME IInv, NEW t \in DOMAIN at, Recheck(t)
  PROVE  IInv'
<1>1. /\ at[t] = "lock" /\ pool[t.src] = Nobody /\ Connected(t)
      /\ UNCHANGED <<engine, waiting, pool, conns, open, expired, proposals, timeouts, closes>>
  BY DEF Recheck, engineVars, poolVars
<1>2. /\ HoldersAtHome' /\ HeldUnderMutex' /\ StartedOnce' /\ LatestBroadcast'
      /\ OnePlace' /\ CallsAreJobs' /\ ExpiredOver' /\ AnsweredFor'
      /\ wire' \subseteq Job /\ DOMAIN at' \subseteq DOMAIN at
      /\ at' \in [DOMAIN at' -> Place]
      /\ t \in DOMAIN at' => at'[t] = "call"
      /\ \A u \in DOMAIN at : u # t => u \in DOMAIN at' /\ at'[u] = at[u]
  BY <1>1, ConnectedKeeps
<1>3. TypeOK' /\ NoLeak'
  BY <1>1, <1>2 DEF IInv, TypeOK, NoLeak
<1>4. PoolHeld'
  BY <1>1, <1>2 DEF IInv, PoolHeld
<1>5. QED
  BY <1>2, <1>3, <1>4 DEF IInv

LEMMA DialKeeps ==
  ASSUME IInv, NEW t \in DOMAIN at, Dial(t)
  PROVE  IInv'
<1>1. /\ at[t] = "lock" /\ pool[t.src] = Nobody /\ t.dst \notin conns[t.src]
      /\ pool' = [pool EXCEPT ![t.src] = t]
      /\ at' = [at EXCEPT ![t] = "dial"]
      /\ UNCHANGED <<engine, waiting, wire, conns, open, expired, proposals, timeouts, closes>>
  BY DEF Dial, Cached, engineVars
<1>2. t \in Task /\ t.src \in Node
  BY TaskFields DEF IInv, TypeOK
<1>3. /\ DOMAIN at' = DOMAIN at
      /\ \A u \in DOMAIN at' : at'[u] = IF u = t THEN "dial" ELSE at[u]
  BY <1>1
<1>4. HoldersAtHome' /\ HeldUnderMutex' /\ StartedOnce' /\ LatestBroadcast'
  BY <1>1, <1>3, NothingStarted
<1>5. TypeOK' /\ NoLeak'
  BY <1>1, <1>2 DEF IInv, TypeOK, NoLeak, Place
<1>6. PoolHeld'
  <2>1. \A n \in Node : pool'[n] = IF n = t.src THEN t ELSE pool[n]
    BY <1>1, <1>2 DEF IInv, TypeOK
  <2>2. \A u \in DOMAIN at : at[u] = "dial" => u.src \in Node /\ u.src # t.src
    BY <1>1, <1>2, NobodyIsNoTask, TaskFields DEF IInv, TypeOK, PoolHeld
  <2>3. \A n \in Node : pool'[n] # Nobody =>
          pool'[n] \in DOMAIN at' /\ pool'[n].src = n /\ at'[pool'[n]] = "dial"
    BY <1>2, <1>3, <2>1 DEF IInv, PoolHeld
  <2>4. \A u \in DOMAIN at' : at'[u] = "dial" =>
          pool'[u.src] = u /\ u.dst \notin conns'[u.src]
    BY <1>1, <1>2, <1>3, <2>1, <2>2 DEF IInv, PoolHeld
  <2>5. QED
    BY <2>3, <2>4 DEF PoolHeld
<1>7. OnePlace' /\ CallsAreJobs' /\ ExpiredOver' /\ AnsweredFor'
  BY <1>1, <1>3 DEF IInv, OnePlace, CallsAreJobs, ExpiredOver, AnsweredFor, Pending
<1>8. QED
  BY <1>4, <1>5, <1>6, <1>7 DEF IInv

\* Who else would dial for the same member holds no lock, so does not dial.
LEMMA DialledKeeps ==
  ASSUME IInv, NEW t \in DOMAIN at, Dialled(t)
  PROVE  IInv'
<1>1. /\ at[t] = "dial"
      /\ pool' = [pool EXCEPT ![t.src] = Nobody]
      /\ conns' = [conns EXCEPT ![t.src] = @ \cup {t.dst}]
      /\ open' = [open EXCEPT ![t.src][t.dst] = @ + 1]
      /\ Connected(t)
      /\ UNCHANGED <<engine, waiting, expired, proposals, timeouts, closes>>
  BY DEF Dialled, engineVars
<1>2. t \in Task /\ t.src \in Node /\ t.dst \in Node /\ t.dst \notin conns[t.src]
      /\ pool[t.src] = t
  BY <1>1, TaskFields DEF IInv, TypeOK, PoolHeld
<1>3. /\ HoldersAtHome' /\ HeldUnderMutex' /\ StartedOnce' /\ LatestBroadcast'
      /\ OnePlace' /\ CallsAreJobs' /\ ExpiredOver' /\ AnsweredFor'
      /\ wire' \subseteq Job /\ DOMAIN at' \subseteq DOMAIN at
      /\ at' \in [DOMAIN at' -> Place]
      /\ t \in DOMAIN at' => at'[t] = "call"
      /\ \A u \in DOMAIN at : u # t => u \in DOMAIN at' /\ at'[u] = at[u]
  BY <1>1, ConnectedKeeps
<1>4. TypeOK'
  BY <1>1, <1>2, <1>3 DEF IInv, TypeOK
<1>5. NoLeak'
  <2>1. \A n, m \in Node :
          /\ open'[n][m] = IF n = t.src /\ m = t.dst THEN open[n][m] + 1 ELSE open[n][m]
          /\ conns'[n] = IF n = t.src THEN conns[n] \cup {t.dst} ELSE conns[n]
    BY <1>1, <1>2 DEF IInv, TypeOK
  <2>2. SUFFICES ASSUME NEW n \in Node, NEW m \in Node
                 PROVE  open'[n][m] = IF m \in conns'[n] THEN 1 ELSE 0
    BY DEF NoLeak
  <2>3. open[n][m] = IF m \in conns[n] THEN 1 ELSE 0
    BY DEF IInv, NoLeak
  <2>4. open'[n][m] = IF n = t.src /\ m = t.dst THEN open[n][m] + 1 ELSE open[n][m]
    BY <2>1
  <2>5. m \in conns'[n] <=> m \in conns[n] \/ (n = t.src /\ m = t.dst)
    <3>1. conns'[n] = IF n = t.src THEN conns[n] \cup {t.dst} ELSE conns[n]
      BY <2>1
    <3>2. QED
      BY <3>1
  <2>6. QED
    BY <1>2, <2>3, <2>4, <2>5
<1>6. PoolHeld'
  <2>1. \A n \in Node : /\ pool'[n] = IF n = t.src THEN Nobody ELSE pool[n]
                        /\ n # t.src => conns'[n] = conns[n]
    BY <1>1, <1>2 DEF IInv, TypeOK
  <2>2. \A u \in DOMAIN at : u # t /\ at[u] = "dial" => u.src \in Node /\ u.src # t.src
    BY <1>2, TaskFields DEF IInv, TypeOK, PoolHeld
  <2>3. QED
    BY <1>3, <2>1, <2>2 DEF IInv, PoolHeld
<1>7. QED
  BY <1>3, <1>4, <1>5, <1>6 DEF IInv

LEMMA DialExpiresKeeps ==
  ASSUME IInv, NEW t \in DOMAIN at, DialExpires(t)
  PROVE  IInv'
<1>1. /\ at[t] = "dial"
      /\ pool' = [pool EXCEPT ![t.src] = Nobody]
      /\ End({t})
      /\ UNCHANGED <<engine, waiting, wire, conns, open, expired, proposals, timeouts, closes>>
  BY DEF DialExpires, engineVars
<1>2. t \in Task /\ t.src \in Node /\ pool[t.src] = t
  BY <1>1, TaskFields DEF IInv, TypeOK, PoolHeld
<1>3. DOMAIN at' = DOMAIN at \ {t} /\ \A u \in DOMAIN at' : at'[u] = at[u]
  BY <1>1, EndAt
<1>4. HoldersAtHome' /\ HeldUnderMutex' /\ StartedOnce' /\ LatestBroadcast'
  BY <1>1, <1>3, NothingStarted
<1>5. TypeOK' /\ NoLeak'
  <2>1. at' \in [DOMAIN at' -> Place]
    BY <1>1, <1>3 DEF IInv, TypeOK, End
  <2>2. QED
    BY <1>1, <1>2, <1>3, <2>1 DEF IInv, TypeOK, NoLeak
<1>6. PoolHeld'
  <2>1. \A n \in Node : pool'[n] = IF n = t.src THEN Nobody ELSE pool[n]
    BY <1>1, <1>2 DEF IInv, TypeOK
  <2>2. \A u \in DOMAIN at : u # t /\ at[u] = "dial" => u.src \in Node /\ u.src # t.src
    BY <1>2, TaskFields DEF IInv, TypeOK, PoolHeld
  <2>3. QED
    BY <1>1, <1>2, <1>3, <2>1, <2>2 DEF IInv, PoolHeld
<1>7. OnePlace' /\ CallsAreJobs' /\ ExpiredOver' /\ AnsweredFor'
  BY <1>1, <1>3 DEF IInv, OnePlace, CallsAreJobs, ExpiredOver, AnsweredFor, Pending
<1>8. QED
  BY <1>4, <1>5, <1>6, <1>7 DEF IInv

\* Calls that fail: by their deadline, or because their connections are closed.
LEMMA CallsFail ==
  ASSUME IInv, NEW cut \in SUBSET (DOMAIN at), \A t \in cut : at[t] = "call",
         End(cut), expired' = expired \cup cut,
         UNCHANGED <<engine, waiting, wire, pool, proposals, timeouts>>
  PROVE  /\ HoldersAtHome' /\ HeldUnderMutex' /\ StartedOnce' /\ LatestBroadcast'
         /\ OnePlace' /\ CallsAreJobs' /\ ExpiredOver' /\ AnsweredFor'
         /\ expired' \subseteq Job /\ DOMAIN at' \subseteq Task
         /\ at' \in [DOMAIN at' -> Place]
         /\ \A t \in DOMAIN at' : t \in DOMAIN at /\ at'[t] = at[t]
         /\ \A t \in DOMAIN at : at[t] = "dial" => t \in DOMAIN at'
<1>1. DOMAIN at' = DOMAIN at \ cut /\ \A u \in DOMAIN at' : at'[u] = at[u]
  BY EndAt
<1>2. HoldersAtHome' /\ HeldUnderMutex' /\ StartedOnce' /\ LatestBroadcast'
  BY <1>1, NothingStarted
<1>3. at' \in [DOMAIN at' -> Place]
  BY <1>1 DEF IInv, TypeOK, End
<1>4. expired' \subseteq Job
  <2>1. \A t \in cut : t \in Task /\ t.kind # "vote"
    BY DEF IInv, TypeOK, CallsAreJobs
  <2>2. QED
    BY <2>1 DEF IInv, TypeOK, Job
<1>5. OnePlace' /\ CallsAreJobs' /\ ExpiredOver' /\ AnsweredFor'
  BY <1>1 DEF IInv, OnePlace, CallsAreJobs, ExpiredOver, AnsweredFor, Pending
<1>6. QED
  BY <1>1, <1>2, <1>3, <1>4, <1>5 DEF IInv, TypeOK

LEMMA CallExpiresKeeps ==
  ASSUME IInv, NEW t \in DOMAIN at, CallExpires(t)
  PROVE  IInv'
<1>1. /\ at[t] = "call" /\ End({t}) /\ expired' = expired \cup {t}
      /\ UNCHANGED <<engine, waiting, wire, pool, conns, open, proposals, timeouts, closes>>
  BY DEF CallExpires, engineVars, poolVars
<1>2. {t} \in SUBSET (DOMAIN at) /\ \A u \in {t} : at[u] = "call"
  BY <1>1
<1>3. /\ HoldersAtHome' /\ HeldUnderMutex' /\ StartedOnce' /\ LatestBroadcast'
      /\ OnePlace' /\ CallsAreJobs' /\ ExpiredOver' /\ AnsweredFor'
      /\ expired' \subseteq Job /\ DOMAIN at' \subseteq Task
      /\ at' \in [DOMAIN at' -> Place]
      /\ \A u \in DOMAIN at' : u \in DOMAIN at /\ at'[u] = at[u]
      /\ \A u \in DOMAIN at : at[u] = "dial" => u \in DOMAIN at'
  BY <1>1, <1>2, CallsFail
<1>4. TypeOK' /\ NoLeak'
  BY <1>1, <1>3 DEF IInv, TypeOK, NoLeak
<1>5. PoolHeld'
  BY <1>1, <1>3 DEF IInv, PoolHeld
<1>6. QED
  BY <1>3, <1>4, <1>5 DEF IInv

LEMMA CloseKeeps ==
  ASSUME IInv, NEW n \in Node, Close(n)
  PROVE  IInv'
<1> DEFINE cut == {t \in DOMAIN at : t.src = n /\ at[t] = "call"}
<1>1. /\ pool[n] = Nobody /\ closes < MaxCloses /\ closes' = closes + 1
      /\ conns' = [conns EXCEPT ![n] = {}]
      /\ open' = [open EXCEPT
           ![n] = [m \in Node |-> open[n][m] - (IF m \in conns[n] THEN 1 ELSE 0)]]
      /\ End(cut) /\ expired' = expired \cup cut
      /\ UNCHANGED <<engine, waiting, wire, pool, proposals, timeouts>>
  BY DEF Close, engineVars
<1>2. cut \in SUBSET (DOMAIN at) /\ \A t \in cut : at[t] = "call"
  OBVIOUS
<1> HIDE DEF cut
<1>3. /\ HoldersAtHome' /\ HeldUnderMutex' /\ StartedOnce' /\ LatestBroadcast'
      /\ OnePlace' /\ CallsAreJobs' /\ ExpiredOver' /\ AnsweredFor'
      /\ expired' \subseteq Job /\ DOMAIN at' \subseteq Task
      /\ at' \in [DOMAIN at' -> Place]
      /\ \A u \in DOMAIN at' : u \in DOMAIN at /\ at'[u] = at[u]
      /\ \A u \in DOMAIN at : at[u] = "dial" => u \in DOMAIN at'
  BY <1>1, <1>2, CallsFail
<1>4. \A k, m \in Node : /\ open'[k][m] = IF k = n THEN 0 ELSE open[k][m]
                         /\ conns'[k] = IF k = n THEN {} ELSE conns[k]
  <2>1. \A m \in Node : open[n][m] - (IF m \in conns[n] THEN 1 ELSE 0) = 0
    BY DEF IInv, NoLeak
  <2>2. QED
    BY <1>1, <2>1 DEF IInv, TypeOK
<1>5. NoLeak'
  BY <1>4 DEF IInv, NoLeak
<1>6. TypeOK'
  <2>1. closes' \in 0 .. MaxCloses /\ conns' \in [Node -> SUBSET Node]
    BY <1>1, TransportAssumption DEF IInv, TypeOK
  <2>2. open' \in [Node -> [Node -> Nat]]
    <3>1. \A m \in Node : open[n][m] - (IF m \in conns[n] THEN 1 ELSE 0) = 0
      BY DEF IInv, NoLeak
    <3>2. [m \in Node |-> open[n][m] - (IF m \in conns[n] THEN 1 ELSE 0)] \in [Node -> Nat]
      BY <3>1
    <3>3. QED
      BY <1>1, <3>2 DEF IInv, TypeOK
  <2>3. QED
    BY <1>1, <1>3, <2>1, <2>2 DEF IInv, TypeOK
<1>7. PoolHeld'
  BY <1>1, <1>3, <1>4, TaskFields DEF IInv, TypeOK, PoolHeld
<1>8. QED
  BY <1>3, <1>5, <1>6, <1>7 DEF IInv

-----------------------------------------------------------------------------
LEMMA NextIInv == IInv /\ [Next]_vars => IInv'
<1> SUFFICES ASSUME IInv, [Next]_vars PROVE IInv'
  OBVIOUS
<1>1. ASSUME NEW n \in Node, OnTimeout(n) \/ Return(n) \/ Close(n) PROVE IInv'
  BY <1>1, OnTimeoutKeeps, ReturnKeeps, CloseKeeps
<1>2. ASSUME NEW job \in waiting, HandlePropose(job) \/ HandleNewView(job) PROVE IInv'
  BY <1>2, HandleKeeps
<1>3. ASSUME NEW job \in wire, Serve(job) \/ Lose(job) PROVE IInv'
  BY <1>3, ServeKeeps
<1>4. ASSUME NEW t \in DOMAIN at, Send(t) PROVE IInv'
  BY <1>4, LookupKeeps, RecheckKeeps, DialKeeps, DialledKeeps, DialExpiresKeeps,
     CallExpiresKeeps DEF Send
<1>5. CASE UNCHANGED vars
  BY <1>5 DEF IInv, vars, engineVars, poolVars, TypeOK, NoLeak, HoldersAtHome, OnePlace,
       PoolHeld, HeldUnderMutex, Held, StartedOnce, Known, CallsAreJobs, ExpiredOver,
       AnsweredFor, Pending, LatestBroadcast
<1>6. QED
  BY <1>1, <1>2, <1>3, <1>4, <1>5, Zenon DEF Next

LEMMA Invariant == Spec => []IInv
BY InitIInv, NextIInv, PTL DEF Spec

-----------------------------------------------------------------------------
(***************************************************************************)
(* The state keeps its types: in particular no count of open connections   *)
(* goes below zero, whenever Close is called (pool.go:101-111).            *)
(***************************************************************************)
THEOREM TransportTypeOK == Spec => []TypeOK
<1>1. IInv => TypeOK
  BY DEF IInv
<1>2. QED
  BY <1>1, Invariant, PTL

(***************************************************************************)
(* No connection leaks: the look with the write lock finds what another    *)
(* task stored while this one waited for it (pool.go:67-97).               *)
(***************************************************************************)
THEOREM TransportNoLeak == Spec => []NoLeak
<1>1. IInv => NoLeak
  BY DEF IInv
<1>2. QED
  BY <1>1, Invariant, PTL

(***************************************************************************)
(* A proposal overtakes an earlier one of the same member only if the wait *)
(* for the earlier one ended at its deadline or by Close                   *)
(* (transport.go:87-101, dhotstuff.go:334).                                *)
(***************************************************************************)
THEOREM TransportOneOutstanding == Spec => []OneOutstanding
<1>1. IInv => OneOutstanding
  <2>1. SUFFICES
          ASSUME IInv, NEW n \in Node, NEW m \in Node,
                 NEW k \in 1 .. MaxProposals, NEW i \in 1 .. k - 1,
                 Pending(ATask(n, m, "propose", i)), Pending(ATask(n, m, "propose", k))
          PROVE  ATask(n, m, "propose", i) \in expired
    BY DEF OneOutstanding
  <2> DEFINE t == ATask(n, m, "propose", i)
             u == ATask(n, m, "propose", k)
  <2>2. i \in 0 .. MaxProposals /\ k \in 0 .. MaxProposals /\ i < k /\ "propose" \in Kind
    BY TransportAssumption DEF Kind
  <2>3. t \in Job /\ u \in Task
    BY <2>2, ATaskType DEF Job, ATask
  <2>4. /\ t.src = u.src /\ t.kind = "propose" /\ u.kind = "propose"
        /\ t.number = i /\ u.number = k
    BY DEF ATask
  <2> HIDE DEF t, u
  <2>5. t \in expired \/ t \in DOMAIN at
    BY <2>1, <2>3 DEF IInv, AnsweredFor, t
  <2>6. Known(u)
    BY <2>1 DEF Pending, Known, u
  <2>7. t \notin DOMAIN at
    <3>1. t \in DOMAIN at => u.number <= t.number
      BY <2>1, <2>3, <2>4, <2>6, Zenon DEF IInv, LatestBroadcast
    <3>2. ~(k <= i)
      BY <2>2
    <3>3. QED
      BY <2>4, <3>1, <3>2
  <2>8. QED
    BY <2>5, <2>7 DEF t
<1>2. QED
  BY <1>1, Invariant, PTL

=============================================================================
