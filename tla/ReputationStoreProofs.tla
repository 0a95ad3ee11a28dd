------------------------ MODULE ReputationStoreProofs -----------------------
(***************************************************************************)
(* The shared reputation store, for every number of goroutines, replicas   *)
(* and calls: no recorded call is lost, and a Score that races with the    *)
(* writers divides by no zero and takes no wrapped distance.               *)
(*                                                                         *)
(* The argument: the write lock has one holder, so a counter is what its   *)
(* holder has read of it, and counters and heights only grow; two reads of *)
(* one field that Score makes are ordered like the values they find.       *)
(***************************************************************************)
EXTENDS ReputationStore, TLAPS

Writing(c) == call[c].kind \in Writers /\ call[c].step \in {"read", "wrote"}

\* The write lock is held by the callers between Acquire and Release, one at most.
MutexHeld ==
  /\ \A c \in Caller : c \in mutex <=> Writing(c)
  /\ \A c, d \in mutex : c = d

\* What a writer has read of its counter is what it will overwrite.
SeenCurrent ==
  \A c \in Caller :
    call[c].kind \in Writers /\ call[c].step = "read"
      => call[c].seen = stats[call[c].replica][Counter(call[c].kind)]

\* The caller has raised the counter of a kind for r, and has not returned.
Wrote(c, r, k) ==
  call[c].kind = k /\ call[c].kind \in Writers /\ call[c].step = "wrote"
    /\ call[c].replica = r

\* A counter is the calls that returned and the one that is about to.
Counted ==
  \A r \in Replica : \A k \in Writers :
    stats[r][Counter(k)]
      = records[r][k] + (IF \E c \in Caller : Wrote(c, r, k) THEN 1 ELSE 0)

\* Score reads only after its lookup, and reads a field again after the first time.
LoadsInScore ==
  \A c \in Caller :
    /\ DOMAIN loads[c] # {} => call[c].kind = "score" /\ call[c].step = "load"
    /\ "rounds" \in DOMAIN loads[c] => "nonzero" \in DOMAIN loads[c]
    /\ "again" \in DOMAIN loads[c] => "last" \in DOMAIN loads[c]

\* What Score has read is behind what it may read next.
LoadsBehind ==
  \A c \in Caller :
    /\ "nonzero" \in DOMAIN loads[c]
         => loads[c]["nonzero"] <= stats[call[c].replica].rounds
    /\ "last" \in DOMAIN loads[c]
         => loads[c]["last"] <= stats[call[c].replica].lastLed
    /\ "rounds" \in DOMAIN loads[c] => loads[c]["nonzero"] <= loads[c]["rounds"]
    /\ "again" \in DOMAIN loads[c] => loads[c]["last"] <= loads[c]["again"]

IInv ==
  /\ TypeOK /\ MutexHeld /\ SeenCurrent /\ Counted
  /\ LoadsInScore /\ LoadsBehind /\ TornScoreDefined

-----------------------------------------------------------------------------
\* A kind of record has a counter of its own.
LEMMA CounterType ==
  /\ \A k \in Writers : Counter(k) \in {"rounds", "committed", "timeouts"}
  /\ \A j, k \in Writers : Counter(j) = Counter(k) => j = k
BY DEF Writers, Counter

LEMMA HeightType == \A h \in Height : h \in Nat /\ h < Wide
BY StoreAssumption, ReputationAssumption

LEMMA CallType ==
  ASSUME TypeOK, NEW c \in Caller, call[c] # Idle
  PROVE  call[c] \in Calling
BY DEF TypeOK

\* A caller with a kind other than "none" is in a call.
LEMMA InCall ==
  ASSUME TypeOK, NEW c \in Caller, call[c].kind \in Writers \cup {"score"}
  PROVE  /\ call[c] \in Calling
         /\ call[c].replica \in Replica /\ call[c].height \in Height
         /\ call[c].seen \in Nat
         /\ call[c].step \in {"wait", "read", "wrote", "load"}
<1>1. call[c] # Idle
  BY DEF Idle, Writers
<1>2. QED
  BY <1>1, CallType DEF Calling

LEMMA InitIInv == Init => IInv
<1> SUFFICES ASSUME Init PROVE IInv
  OBVIOUS
<1>1. TypeOK
  BY StoreAssumption DEF Init, TypeOK, NewStore, Fresh, ReplicaStats, Neutral, Load
<1>2. \A c \in Caller : call[c].kind = "none" /\ DOMAIN loads[c] = {}
  BY DEF Init, Idle
<1>3. Counted
  <2>1. ASSUME NEW r \in Replica, NEW k \in Writers
        PROVE  stats[r][Counter(k)] = 0 /\ records[r][k] = 0
    BY CounterType DEF Init, NewStore, Fresh
  <2>2. QED
    BY <1>2, <2>1 DEF Counted, Wrote, Writers
<1>4. TornScoreDefined
  BY DEF Init, TornScoreDefined, Neutral
<1>5. QED
  BY <1>1, <1>2, <1>3, <1>4
     DEF IInv, Init, MutexHeld, Writing, SeenCurrent, LoadsInScore, LoadsBehind, Writers

-----------------------------------------------------------------------------
LEMMA NextTypeOK ==
  ASSUME TypeOK, [Next]_vars
  PROVE  TypeOK'
<1>1. ASSUME NEW c \in Caller, Call(c) PROVE TypeOK'
  <2>1. call' \in [Caller -> Calling \cup {Idle}]
    BY <1>1, StoreAssumption DEF Call, TypeOK, Calling
  <2>2. calls' \in 0 .. MaxCalls
    BY <1>1, StoreAssumption DEF Call, TypeOK
  <2>3. QED
    BY <1>1, <2>1, <2>2 DEF Call, TypeOK
<1>2. ASSUME NEW c \in Caller, Acquire(c) PROVE TypeOK'
  <2>1. call[c] \in Calling /\ call[c].replica \in Replica /\ call[c].kind \in Writers
    BY <1>2, InCall DEF Acquire
  <2>2. stats[call[c].replica][Counter(call[c].kind)] \in Nat
    BY <2>1, CounterType DEF TypeOK, ReplicaStats
  <2>3. call' \in [Caller -> Calling \cup {Idle}]
    BY <1>2, <2>1, <2>2 DEF Acquire, TypeOK, Calling
  <2>4. QED
    BY <1>2, <2>1, <2>3 DEF Acquire, TypeOK
<1>3. ASSUME NEW c \in Caller, Increment(c) PROVE TypeOK'
  <2>1. /\ call[c] \in Calling /\ call[c].replica \in Replica /\ call[c].kind \in Writers
        /\ call[c].seen + 1 \in Nat
    BY <1>3, InCall DEF Increment
  <2>2. call' \in [Caller -> Calling \cup {Idle}]
    BY <1>3, <2>1 DEF Increment, TypeOK, Calling
  <2>3. stats' \in [Replica -> ReplicaStats]
    BY <1>3, <2>1, CounterType DEF Increment, TypeOK, ReplicaStats
  <2>4. QED
    BY <1>3, <2>2, <2>3 DEF Increment, TypeOK
<1>4. ASSUME NEW c \in Caller, Release(c) PROVE TypeOK'
  <2>1. call[c].replica \in Replica /\ call[c].kind \in Writers /\ call[c].height \in Nat
    BY <1>4, InCall, HeightType DEF Release
  <2>2. stats' \in [Replica -> ReplicaStats]
    BY <1>4, <2>1 DEF Release, TypeOK, ReplicaStats, Raised
  <2>3. records' \in [Replica -> [Writers -> Nat]]
    BY <1>4, <2>1 DEF Release, TypeOK
  <2>4. QED
    BY <1>4, <2>2, <2>3 DEF Release, TypeOK, Released
<1>5. ASSUME NEW c \in Caller, LookUp(c) PROVE TypeOK'
  <2>1. call[c] \in Calling
    BY <1>5, InCall DEF LookUp
  <2>2. call' \in [Caller -> Calling \cup {Idle}]
    <3>1. [call[c] EXCEPT !.step = "load"] \in Calling
      BY <2>1 DEF Calling
    <3>2. call' = [call EXCEPT ![c] = [call[c] EXCEPT !.step = "load"]]
            \/ call' = [call EXCEPT ![c] = Idle]
      BY <1>5 DEF LookUp, TypeOK
    <3>3. QED
      BY <3>1, <3>2 DEF TypeOK
  <2>3. score' \in [Caller -> (Nat \X Nat) \X (Nat \X Nat)]
    BY <1>5 DEF LookUp, TypeOK, Neutral
  <2>4. QED
    BY <1>5, <2>2, <2>3 DEF LookUp, TypeOK
<1>6. ASSUME NEW c \in Caller, NEW x \in Load, Read(c, x) PROVE TypeOK'
  <2>1. call[c].replica \in Replica
    BY <1>6, InCall DEF Read
  <2>2. stats[call[c].replica][Field(x)] \in Nat
    BY <2>1 DEF TypeOK, ReplicaStats, Field, Load
  <2>3. \A d \in Caller : DOMAIN loads'[d] \subseteq Load
                            /\ loads'[d] \in [DOMAIN loads'[d] -> Nat]
    BY <1>6, <2>2 DEF Read, TypeOK
  <2>4. QED
    BY <1>6, <2>3 DEF Read, TypeOK
<1>7. ASSUME NEW c \in Caller, ReturnScore(c) PROVE TypeOK'
  <2>1. call[c].height \in Nat
    <3>1. call[c].height \in Height
      BY <1>7, InCall DEF ReturnScore
    <3>2. QED
      BY <3>1, HeightType
  <2>2. \A x \in Load : loads[c][x] \in Nat
    BY <1>7 DEF ReturnScore, TypeOK
  <2>3. \A n, m, k \in Nat : CommitRate(n, m, k) \in Nat \X Nat
    BY DEF CommitRate
  <2>4. \A n, m \in Nat : Novelty(n, m, call[c].height) \in Nat \X Nat
    <3>1. ASSUME NEW n \in Nat
          PROVE  (call[c].height - n) % Wide \in Nat
      <4>1. Wide \in Nat /\ Wide > 0
        BY ReputationAssumption
      <4>2. QED
        BY <2>1, <4>1
    <3>2. QED
      BY <2>1, <3>1 DEF Novelty
  <2>5. score' \in [Caller -> (Nat \X Nat) \X (Nat \X Nat)]
    BY <1>7, <2>2, <2>3, <2>4 DEF ReturnScore, TypeOK, Load
  <2>6. QED
    BY <1>7, <2>5 DEF ReturnScore, TypeOK
<1>8. CASE UNCHANGED vars
  BY <1>8 DEF TypeOK, vars
<1>9. QED
  BY <1>1, <1>2, <1>3, <1>4, <1>5, <1>6, <1>7, <1>8 DEF Next, Proceed

-----------------------------------------------------------------------------
LEMMA NextMutexHeld ==
  ASSUME TypeOK, MutexHeld, [Next]_vars
  PROVE  MutexHeld'
<1> USE DEF MutexHeld, Writing
<1>1. ASSUME NEW c \in Caller, Call(c) PROVE MutexHeld'
  <2>1. call'[c].step = "wait" /\ call[c].kind = "none"
        /\ \A d \in Caller \ {c} : call'[d] = call[d]
    BY <1>1 DEF Call, TypeOK, Idle
  <2>2. QED
    BY <1>1, <2>1 DEF Call, Writers
<1>2. ASSUME NEW c \in Caller, Acquire(c) PROVE MutexHeld'
  <2>1. call[c] \in Calling
    BY <1>2, InCall DEF Acquire
  <2>2. call'[c].step = "read" /\ call'[c].kind = call[c].kind
        /\ \A d \in Caller \ {c} : call'[d] = call[d]
    BY <1>2, <2>1 DEF Acquire, TypeOK, Calling
  <2>3. QED
    BY <1>2, <2>2 DEF Acquire, Free
<1>3. ASSUME NEW c \in Caller, Increment(c) PROVE MutexHeld'
  <2>1. call[c] \in Calling
    BY <1>3, InCall DEF Increment
  <2>2. call'[c].step = "wrote" /\ call'[c].kind = call[c].kind
        /\ \A d \in Caller \ {c} : call'[d] = call[d]
    BY <1>3, <2>1 DEF Increment, TypeOK, Calling
  <2>3. QED
    BY <1>3, <2>2 DEF Increment
<1>4. ASSUME NEW c \in Caller, Release(c) PROVE MutexHeld'
  <2>1. call'[c].kind = "none" /\ \A d \in Caller \ {c} : call'[d] = call[d]
    BY <1>4 DEF Release, TypeOK, Idle
  <2>2. QED
    BY <1>4, <2>1 DEF Release, Released, Writers
<1>5. ASSUME NEW c \in Caller, LookUp(c) PROVE MutexHeld'
  <2>1. call[c] \in Calling
    BY <1>5, InCall DEF LookUp
  <2>2. call'[c].kind \in {"score", "none"} /\ \A d \in Caller \ {c} : call'[d] = call[d]
    BY <1>5, <2>1 DEF LookUp, TypeOK, Calling, Idle
  <2>3. QED
    BY <1>5, <2>2 DEF LookUp, Writers
<1>6. ASSUME NEW c \in Caller, NEW x \in Load, Read(c, x) PROVE MutexHeld'
  BY <1>6 DEF Read
<1>7. ASSUME NEW c \in Caller, ReturnScore(c) PROVE MutexHeld'
  <2>1. call'[c].kind = "none" /\ \A d \in Caller \ {c} : call'[d] = call[d]
    BY <1>7 DEF ReturnScore, TypeOK, Idle
  <2>2. QED
    BY <1>7, <2>1 DEF ReturnScore, Writers
<1>8. CASE UNCHANGED vars
  BY <1>8 DEF vars
<1>9. QED
  BY <1>1, <1>2, <1>3, <1>4, <1>5, <1>6, <1>7, <1>8 DEF Next, Proceed

-----------------------------------------------------------------------------
(***************************************************************************)
(* What a step does to the counters and to the height a replica last led:  *)
(* they grow, and only by the step of the caller that holds the lock.      *)
(***************************************************************************)
LEMMA StatsGrow ==
  ASSUME TypeOK, SeenCurrent, [Next]_vars, NEW r \in Replica
  PROVE  /\ stats[r].rounds <= stats'[r].rounds
         /\ stats[r].lastLed <= stats'[r].lastLed
<1>1. stats[r] \in ReplicaStats
  BY DEF TypeOK
<1>2. ASSUME NEW c \in Caller, Increment(c)
      PROVE  /\ stats[r].rounds <= stats'[r].rounds
             /\ stats[r].lastLed <= stats'[r].lastLed
  <2> DEFINE q == call[c].replica
             f == Counter(call[c].kind)
  <2>1. q \in Replica /\ f \in {"rounds", "committed", "timeouts"}
    BY <1>2, InCall, CounterType DEF Increment
  <2>2. stats' = [stats EXCEPT ![q][f] = stats[q][f] + 1]
    BY <1>2 DEF Increment, SeenCurrent
  <2> HIDE DEF q, f
  <2>3. stats'[r] = stats[r] \/ stats'[r] = [stats[r] EXCEPT ![f] = stats[r][f] + 1]
    BY <2>1, <2>2 DEF TypeOK
  <2>4. QED
    BY <1>1, <2>1, <2>3 DEF ReplicaStats
<1>3. ASSUME NEW c \in Caller, Release(c)
      PROVE  /\ stats[r].rounds <= stats'[r].rounds
             /\ stats[r].lastLed <= stats'[r].lastLed
  <2> DEFINE q == call[c].replica
             h == call[c].height
  <2>1. q \in Replica /\ h \in Int
    BY <1>3, InCall, HeightType DEF Release
  <2>2. stats' = stats \/ stats' = [stats EXCEPT ![q].lastLed = Raised(stats[q].lastLed, h)]
    BY <1>3 DEF Release
  <2> HIDE DEF q, h
  <2>3. stats'[r] = stats[r]
          \/ stats'[r] = [stats[r] EXCEPT !.lastLed = Raised(stats[r].lastLed, h)]
    BY <2>1, <2>2 DEF TypeOK
  <2>4. QED
    BY <1>1, <2>1, <2>3 DEF ReplicaStats, Raised
<1>4. CASE UNCHANGED stats
  BY <1>1, <1>4 DEF ReplicaStats
<1>5. QED
  BY <1>2, <1>3, <1>4 DEF Next, Proceed, Call, Acquire, LookUp, Read, ReturnScore, vars

LEMMA NextSeenCurrent ==
  ASSUME TypeOK, MutexHeld, SeenCurrent, [Next]_vars
  PROVE  SeenCurrent'
<1> USE DEF SeenCurrent
<1>1. ASSUME NEW c \in Caller, Call(c) PROVE SeenCurrent'
  <2>1. call'[c].step = "wait" /\ \A d \in Caller \ {c} : call'[d] = call[d]
    BY <1>1 DEF Call, TypeOK
  <2>2. QED
    BY <1>1, <2>1 DEF Call
<1>2. ASSUME NEW c \in Caller, Acquire(c) PROVE SeenCurrent'
  <2>1. call[c] \in Calling
    BY <1>2, InCall DEF Acquire
  <2>2. /\ call'[c].seen = stats[call[c].replica][Counter(call[c].kind)]
        /\ call'[c].kind = call[c].kind /\ call'[c].replica = call[c].replica
        /\ \A d \in Caller \ {c} : call'[d] = call[d]
    BY <1>2, <2>1 DEF Acquire, TypeOK, Calling
  <2>3. QED
    BY <1>2, <2>2 DEF Acquire
<1>3. ASSUME NEW c \in Caller, Increment(c) \/ Release(c) PROVE SeenCurrent'
  <2>1. c \in mutex /\ \A d \in Caller \ {c} : d \notin mutex
    BY <1>3 DEF MutexHeld, Writing, Increment, Release
  <2>2. \A d \in Caller \ {c} : call'[d] = call[d]
    BY <1>3 DEF Increment, Release, TypeOK
  <2>3. call'[c].step = "wrote" \/ call'[c].kind = "none"
    <3>1. call[c] \in Calling
      BY <1>3, InCall DEF Increment, Release
    <3>2. QED
      BY <1>3, <3>1 DEF Increment, Release, TypeOK, Calling, Idle
  <2>4. QED
    BY <2>1, <2>2, <2>3 DEF MutexHeld, Writing, Writers
<1>4. ASSUME NEW c \in Caller, LookUp(c) \/ ReturnScore(c) PROVE SeenCurrent'
  <2>1. call[c] \in Calling
    BY <1>4, InCall DEF LookUp, ReturnScore
  <2>2. call'[c].kind \in {"score", "none"} /\ \A d \in Caller \ {c} : call'[d] = call[d]
    BY <1>4, <2>1 DEF LookUp, ReturnScore, TypeOK, Calling, Idle
  <2>3. QED
    BY <1>4, <2>2 DEF LookUp, ReturnScore, Writers
<1>5. ASSUME NEW c \in Caller, NEW x \in Load, Read(c, x) PROVE SeenCurrent'
  BY <1>5 DEF Read
<1>6. CASE UNCHANGED vars
  BY <1>6 DEF vars
<1>7. QED
  BY <1>1, <1>2, <1>3, <1>4, <1>5, <1>6 DEF Next, Proceed

-----------------------------------------------------------------------------
\* Steps of others than a writer leave alone which counters were raised.
LEMMA WroteKept ==
  ASSUME TypeOK, NEW c \in Caller,
         Call(c) \/ Acquire(c) \/ LookUp(c) \/ (\E x \in Load : Read(c, x)) \/ ReturnScore(c),
         NEW d \in Caller, NEW r \in Replica, NEW k \in Writers
  PROVE  Wrote(d, r, k)' <=> Wrote(d, r, k)
<1>1. CASE d # c
  <2>1. call'[d] = call[d]
    BY <1>1 DEF Call, Acquire, LookUp, Read, ReturnScore, TypeOK
  <2>2. QED
    BY <2>1 DEF Wrote
<1>2. CASE d = c
  <2>1. CASE Call(c)
    <3>1. call'[c].step = "wait" /\ call[c].kind = "none"
      BY <2>1 DEF Call, TypeOK, Idle
    <3>2. QED
      BY <1>2, <3>1 DEF Wrote, Writers
  <2>2. CASE Acquire(c)
    <3>1. call[c] \in Calling
      BY <2>2, InCall DEF Acquire
    <3>2. call'[c].step = "read" /\ call[c].step = "wait"
      BY <2>2, <3>1 DEF Acquire, TypeOK, Calling
    <3>3. QED
      BY <1>2, <3>2 DEF Wrote
  <2>3. CASE LookUp(c) \/ ReturnScore(c)
    <3>1. call[c] \in Calling
      BY <2>3, InCall DEF LookUp, ReturnScore
    <3>2. call[c].kind = "score" /\ call'[c].kind \in {"score", "none"}
      BY <2>3, <3>1 DEF LookUp, ReturnScore, TypeOK, Calling, Idle
    <3>3. QED
      BY <1>2, <3>2 DEF Wrote, Writers
  <2>4. CASE \E x \in Load : Read(c, x)
    BY <2>4 DEF Read, Wrote
  <2>5. QED
    BY <2>1, <2>2, <2>3, <2>4
<1>3. QED
  BY <1>1, <1>2

LEMMA NextCounted ==
  ASSUME TypeOK, MutexHeld, SeenCurrent, Counted, [Next]_vars
  PROVE  Counted'
<1>1. SUFFICES ASSUME NEW r \in Replica, NEW k \in Writers
               PROVE  stats'[r][Counter(k)]
                        = records'[r][k]
                            + (IF \E d \in Caller : Wrote(d, r, k)' THEN 1 ELSE 0)
  BY DEF Counted
<1>2. stats[r][Counter(k)]
        = records[r][k] + (IF \E d \in Caller : Wrote(d, r, k) THEN 1 ELSE 0)
  BY DEF Counted
<1>3. ASSUME NEW c \in Caller,
             Call(c) \/ Acquire(c) \/ LookUp(c) \/ (\E x \in Load : Read(c, x))
               \/ ReturnScore(c)
      PROVE  stats'[r][Counter(k)]
               = records'[r][k] + (IF \E d \in Caller : Wrote(d, r, k)' THEN 1 ELSE 0)
  <2>1. \A d \in Caller : Wrote(d, r, k)' <=> Wrote(d, r, k)
    BY <1>3, WroteKept
  <2>2. UNCHANGED <<stats, records>>
    BY <1>3 DEF Call, Acquire, LookUp, Read, ReturnScore
  <2>3. QED
    BY <1>2, <2>1, <2>2
<1>4. ASSUME NEW c \in Caller, Increment(c)
      PROVE  stats'[r][Counter(k)]
               = records'[r][k] + (IF \E d \in Caller : Wrote(d, r, k)' THEN 1 ELSE 0)
  <2> DEFINE q == call[c].replica
             j == call[c].kind
  <2>1. /\ call[c] \in Calling /\ q \in Replica /\ j \in Writers
        /\ Counter(j) \in {"rounds", "committed", "timeouts"}
    BY <1>4, InCall, CounterType DEF Increment
  <2>2. \A d \in Caller : d # c => ~Writing(d)
    BY <1>4 DEF MutexHeld, Writing, Increment
  <2>3. \A d \in Caller : ~Wrote(d, r, k)
    BY <1>4, <2>2 DEF Wrote, Writing, Increment
  <2>4. /\ call'[c].kind = j /\ call'[c].replica = q /\ call'[c].step = "wrote"
        /\ \A d \in Caller \ {c} : call'[d] = call[d]
    BY <1>4, <2>1 DEF Increment, TypeOK, Calling
  <2>5. stats' = [stats EXCEPT ![q][Counter(j)] = stats[q][Counter(j)] + 1]
          /\ records' = records
    BY <1>4 DEF Increment, SeenCurrent
  <2>6. (\E d \in Caller : Wrote(d, r, k)') <=> (r = q /\ k = j)
    BY <2>1, <2>3, <2>4 DEF Wrote
  <2>7. stats[r] \in ReplicaStats /\ stats[q] \in ReplicaStats
    BY <2>1 DEF TypeOK
  <2> HIDE DEF q, j
  <2>8. CASE r = q /\ k = j
    <3>1. stats'[r][Counter(k)] = stats[r][Counter(k)] + 1
      BY <2>1, <2>5, <2>7, <2>8 DEF TypeOK, ReplicaStats
    <3>2. QED
      BY <1>2, <2>3, <2>5, <2>6, <2>8, <3>1 DEF TypeOK
  <2>9. CASE r # q \/ k # j
    <3>1. Counter(k) # Counter(j) \/ r # q
      BY <2>1, <2>9, CounterType
    <3>2. stats'[r][Counter(k)] = stats[r][Counter(k)]
      BY <2>1, <2>5, <2>7, <3>1, CounterType DEF TypeOK, ReplicaStats
    <3>3. QED
      BY <1>2, <2>3, <2>5, <2>6, <2>9, <3>2
  <2>10. QED
    BY <2>8, <2>9
<1>5. ASSUME NEW c \in Caller, Release(c)
      PROVE  stats'[r][Counter(k)]
               = records'[r][k] + (IF \E d \in Caller : Wrote(d, r, k)' THEN 1 ELSE 0)
  <2> DEFINE q == call[c].replica
             j == call[c].kind
  <2>1. /\ call[c] \in Calling /\ q \in Replica /\ j \in Writers
        /\ Counter(k) \in {"rounds", "committed", "timeouts"}
    BY <1>5, InCall, CounterType DEF Release
  <2>2. \A d \in Caller : d # c => ~Writing(d)
    BY <1>5 DEF MutexHeld, Writing, Release
  <2>3. call'[c].kind = "none" /\ \A d \in Caller \ {c} : call'[d] = call[d]
    BY <1>5 DEF Release, TypeOK, Idle
  <2>4. \A d \in Caller : ~Wrote(d, r, k)'
    BY <2>2, <2>3 DEF Wrote, Writing, Writers
  <2>5. (\E d \in Caller : Wrote(d, r, k)) <=> (r = q /\ k = j)
    BY <1>5, <2>2 DEF Wrote, Writing, Release
  <2>6. stats'[r][Counter(k)] = stats[r][Counter(k)]
    <3>1. stats[r] \in ReplicaStats
      BY DEF TypeOK
    <3>2. stats' = stats
            \/ stats' = [stats EXCEPT ![q].lastLed = Raised(stats[q].lastLed, call[c].height)]
      BY <1>5 DEF Release
    <3> HIDE DEF q
    <3>3. QED
      BY <2>1, <3>1, <3>2 DEF TypeOK, ReplicaStats
  <2>7. records' = [records EXCEPT ![q][j] = records[q][j] + 1]
    BY <1>5 DEF Release
  <2> HIDE DEF q, j
  <2>8. records'[r][k] = IF r = q /\ k = j THEN records[r][k] + 1 ELSE records[r][k]
    BY <2>1, <2>7 DEF TypeOK
  <2>9. records[r][k] \in Nat
    BY DEF TypeOK
  <2>10. QED
    BY <1>2, <2>4, <2>5, <2>6, <2>8, <2>9
<1>6. CASE UNCHANGED vars
  <2>1. \A d \in Caller : Wrote(d, r, k)' <=> Wrote(d, r, k)
    BY <1>6 DEF Wrote, vars
  <2>2. QED
    BY <1>2, <1>6, <2>1 DEF vars
<1>7. QED
  BY <1>3, <1>4, <1>5, <1>6 DEF Next, Proceed

-----------------------------------------------------------------------------
LEMMA NextLoadsInScore ==
  ASSUME TypeOK, LoadsInScore, [Next]_vars
  PROVE  LoadsInScore'
<1> USE DEF LoadsInScore
<1>1. ASSUME NEW c \in Caller, Call(c) \/ Acquire(c) \/ Increment(c) \/ Release(c) \/ LookUp(c)
      PROVE  LoadsInScore'
  <2>1. UNCHANGED loads /\ \A d \in Caller \ {c} : call'[d] = call[d]
    BY <1>1 DEF Call, Acquire, Increment, Release, LookUp, TypeOK
  <2>2. DOMAIN loads[c] = {}
    <3>1. ~(call[c].kind = "score" /\ call[c].step = "load")
      BY <1>1 DEF Call, Acquire, Increment, Release, LookUp, Idle, Writers
    <3>2. QED
      BY <3>1
  <2>3. QED
    BY <2>1, <2>2
<1>2. ASSUME NEW c \in Caller, NEW x \in Load, Read(c, x) PROVE LoadsInScore'
  <2>1. /\ DOMAIN loads'[c] = DOMAIN loads[c] \cup {x}
        /\ \A d \in Caller \ {c} : loads'[d] = loads[d]
    BY <1>2 DEF Read, TypeOK
  <2>2. QED
    BY <1>2, <2>1 DEF Read, Earlier, Load
<1>3. ASSUME NEW c \in Caller, ReturnScore(c) PROVE LoadsInScore'
  <2>1. /\ DOMAIN loads'[c] = {}
        /\ \A d \in Caller \ {c} : loads'[d] = loads[d] /\ call'[d] = call[d]
    BY <1>3 DEF ReturnScore, TypeOK
  <2>2. QED
    BY <2>1
<1>4. CASE UNCHANGED vars
  BY <1>4 DEF vars
<1>5. QED
  BY <1>1, <1>2, <1>3, <1>4 DEF Next, Proceed

LEMMA NextLoadsBehind ==
  ASSUME TypeOK, SeenCurrent, LoadsInScore, LoadsBehind, [Next]_vars
  PROVE  LoadsBehind'
<1> USE DEF LoadsBehind
<1>1. ASSUME NEW c \in Caller, Call(c) \/ Acquire(c) \/ Increment(c) \/ Release(c) \/ LookUp(c)
      PROVE  LoadsBehind'
  <2>1. UNCHANGED loads /\ \A d \in Caller \ {c} : call'[d] = call[d]
    BY <1>1 DEF Call, Acquire, Increment, Release, LookUp, TypeOK
  <2>2. DOMAIN loads[c] = {}
    BY <1>1 DEF LoadsInScore, Call, Acquire, Increment, Release, LookUp, Idle, Writers
  <2>3. ASSUME NEW d \in Caller \ {c}, DOMAIN loads[d] # {}
        PROVE  /\ call[d].replica \in Replica /\ call'[d] = call[d] /\ loads'[d] = loads[d]
               /\ stats[call[d].replica].rounds <= stats'[call[d].replica].rounds
               /\ stats[call[d].replica].lastLed <= stats'[call[d].replica].lastLed
    <3>1. call[d].replica \in Replica
      BY <2>3, InCall DEF LoadsInScore
    <3>2. QED
      BY <2>1, <3>1, StatsGrow
  <2>4. \A d \in Caller \ {c} : DOMAIN loads[d] # {} =>
          /\ stats[call[d].replica] \in ReplicaStats
          /\ stats'[call[d].replica] \in ReplicaStats
    BY <2>3, NextTypeOK DEF TypeOK
  <2>5. \A d \in Caller : \A x \in DOMAIN loads[d] : loads[d][x] \in Nat
    BY DEF TypeOK
  <2>6. QED
    BY <2>1, <2>2, <2>3, <2>4, <2>5 DEF ReplicaStats
<1>2. ASSUME NEW c \in Caller, NEW x \in Load, Read(c, x) PROVE LoadsBehind'
  <2> DEFINE st == stats[call[c].replica]
  <2>1. st \in ReplicaStats
    BY <1>2, InCall DEF Read, TypeOK
  <2>2. /\ DOMAIN loads'[c] = DOMAIN loads[c] \cup {x}
        /\ \A y \in DOMAIN loads[c] \cup {x} :
             loads'[c][y] = IF y = x THEN st[Field(x)] ELSE loads[c][y]
        /\ \A d \in Caller \ {c} : loads'[d] = loads[d]
        /\ UNCHANGED <<stats, call>>
        /\ x \notin DOMAIN loads[c] /\ Earlier(x) \subseteq DOMAIN loads[c]
    BY <1>2 DEF Read, TypeOK
  <2>3. /\ Field("nonzero") = "rounds" /\ Field("rounds") = "rounds"
        /\ Field("last") = "lastLed" /\ Field("again") = "lastLed"
        /\ Earlier("rounds") = {"nonzero"} /\ Earlier("again") = {"last"}
    BY DEF Field, Earlier
  <2>4. /\ "nonzero" \in DOMAIN loads'[c] => loads'[c]["nonzero"] <= st.rounds
        /\ "rounds" \in DOMAIN loads'[c] => loads'[c]["nonzero"] <= loads'[c]["rounds"]
    BY <2>1, <2>2, <2>3 DEF LoadsInScore, ReplicaStats
  <2>5. /\ "last" \in DOMAIN loads'[c] => loads'[c]["last"] <= st.lastLed
        /\ "again" \in DOMAIN loads'[c] => loads'[c]["last"] <= loads'[c]["again"]
    BY <2>1, <2>2, <2>3 DEF LoadsInScore, ReplicaStats
  <2>6. QED
    BY <2>2, <2>4, <2>5
<1>3. ASSUME NEW c \in Caller, ReturnScore(c) PROVE LoadsBehind'
  <2>1. /\ DOMAIN loads'[c] = {} /\ UNCHANGED stats
        /\ \A d \in Caller \ {c} : loads'[d] = loads[d] /\ call'[d] = call[d]
    BY <1>3 DEF ReturnScore, TypeOK
  <2>2. QED
    BY <2>1
<1>4. CASE UNCHANGED vars
  BY <1>4 DEF vars
<1>5. QED
  BY <1>1, <1>2, <1>3, <1>4 DEF Next, Proceed

-----------------------------------------------------------------------------
\* A divisor that was not zero when it was compared is not zero when it divides.
LEMMA CommitRateDefined ==
  ASSUME NEW nonzero \in Nat, NEW committed \in Nat, NEW rounds \in Nat, nonzero <= rounds
  PROVE  CommitRate(nonzero, committed, rounds)[2] > 0
BY DEF CommitRate

(***************************************************************************)
(* The unsigned difference does not wrap: what was subtracted is at most   *)
(* what was compared with the height.                                      *)
(***************************************************************************)
LEMMA NoveltyFraction ==
  ASSUME NEW last \in Nat, NEW again \in Nat, last <= again,
         NEW height \in Nat, height < Wide
  PROVE  /\ Novelty(last, again, height)[1] <= Novelty(last, again, height)[2]
         /\ Novelty(last, again, height)[2] > 0
<1>1. CASE height = 0 \/ again > height
  BY <1>1 DEF Novelty
<1>2. CASE height # 0 /\ again <= height
  <2>1. Wide \in Nat /\ height - last \in 0 .. Wide - 1
    BY <1>2, ReputationAssumption
  <2>2. (height - last) % Wide = height - last
    BY <2>1
  <2>3. Novelty(last, again, height) = <<height - last, height>>
    BY <1>2, <2>2 DEF Novelty
  <2>4. QED
    BY <1>2, <2>3
<1>3. QED
  BY <1>1, <1>2

LEMMA NextTornScoreDefined ==
  ASSUME TypeOK, LoadsBehind, TornScoreDefined, [Next]_vars
  PROVE  TornScoreDefined'
<1>1. ASSUME NEW c \in Caller, LookUp(c) PROVE TornScoreDefined'
  <2>1. score' = score \/ score' = [score EXCEPT ![c] = Neutral]
    BY <1>1 DEF LookUp
  <2>2. QED
    BY <2>1 DEF TornScoreDefined, Neutral, TypeOK
<1>2. ASSUME NEW c \in Caller, ReturnScore(c) PROVE TornScoreDefined'
  <2> DEFINE l == loads[c]
             rate == CommitRate(l["nonzero"], l["committed"], l["rounds"])
             novelty == Novelty(l["last"], l["again"], call[c].height)
  <2>1. /\ l["nonzero"] \in Nat /\ l["committed"] \in Nat /\ l["rounds"] \in Nat
        /\ l["last"] \in Nat /\ l["again"] \in Nat
        /\ l["nonzero"] <= l["rounds"] /\ l["last"] <= l["again"]
    BY <1>2 DEF ReturnScore, TypeOK, LoadsBehind, Load
  <2>2. call[c].height \in Nat /\ call[c].height < Wide
    BY <1>2, InCall, HeightType DEF ReturnScore
  <2>3. rate[2] > 0 /\ novelty[1] <= novelty[2] /\ novelty[2] > 0
    BY <2>1, <2>2, CommitRateDefined, NoveltyFraction
  <2>4. score' = [score EXCEPT ![c] = <<rate, novelty>>]
    BY <1>2 DEF ReturnScore
  <2> HIDE DEF rate, novelty
  <2>5. QED
    BY <2>3, <2>4 DEF TornScoreDefined, TypeOK
<1>3. CASE UNCHANGED score
  BY <1>3 DEF TornScoreDefined
<1>4. QED
  BY <1>1, <1>2, <1>3
     DEF Next, Proceed, Call, Acquire, Increment, Release, Read, vars

-----------------------------------------------------------------------------
LEMMA NextIInv == IInv /\ [Next]_vars => IInv'
BY NextTypeOK, NextMutexHeld, NextSeenCurrent, NextCounted, NextLoadsInScore,
   NextLoadsBehind, NextTornScoreDefined DEF IInv

LEMMA Invariant == Spec => []IInv
<1>1. QED
  BY InitIInv, NextIInv, PTL DEF Spec

(***************************************************************************)
(* Each variable of a shared store has its type, whatever the goroutines   *)
(* do at once (store.go:38-62).                                            *)
(***************************************************************************)
THEOREM StoreTypeOK == Spec => []TypeOK
<1>1. IInv => TypeOK
  BY DEF IInv
<1>2. QED
  BY <1>1, Invariant, PTL

(***************************************************************************)
(* A Score that reads the counters without the lock divides by a number    *)
(* that is not zero, and its novelty lies between zero and one; of the     *)
(* commit rate and the score nothing more is claimed                       *)
(* (store.go:20-36, 95-104).                                               *)
(***************************************************************************)
THEOREM StoreTornScoreDefined == Spec => []TornScoreDefined
<1>1. IInv => TornScoreDefined
  BY DEF IInv
<1>2. QED
  BY <1>1, Invariant, PTL

(***************************************************************************)
(* No recorded round, commit or timeout is lost, by any number of          *)
(* goroutines (store.go:64-93).                                            *)
(***************************************************************************)
THEOREM StoreNothingLost == Spec => []NothingLost
<1>1. ASSUME IInv PROVE NothingLost
  <2>1. SUFFICES ASSUME mutex = {}, NEW r \in Replica, NEW k \in Writers
                 PROVE  stats[r][Counter(k)] = records[r][k]
    BY DEF NothingLost
  <2>2. \A c \in Caller : ~Wrote(c, r, k)
    BY <1>1, <2>1 DEF IInv, MutexHeld, Writing, Wrote
  <2>3. records[r][k] \in Nat
    BY <1>1 DEF IInv, TypeOK
  <2>4. QED
    BY <1>1, <2>2, <2>3 DEF IInv, Counted
<1>2. QED
  BY <1>1, Invariant, PTL
=============================================================================
