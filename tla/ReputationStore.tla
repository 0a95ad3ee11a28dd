--------------------------- MODULE ReputationStore --------------------------
(***************************************************************************)
(* A reputation.Store that several goroutines share.  Record* run under    *)
(* the store's mutex.  Score holds the read lock only while it looks the   *)
(* replica up, and then reads the fields through the pointer while others  *)
(* write them: a data race.  Its loads of different fields happen in any   *)
(* order, two loads of one field in program order, each between any two    *)
(* steps of the writers.                                                   *)
(***************************************************************************)
EXTENDS Reputation

CONSTANTS
  Caller,     \* goroutines
  Height,     \* the block heights they pass
  MaxCalls    \* bound: calls started

ASSUME StoreAssumption == Height \subseteq 0 .. Wide - 1 /\ MaxCalls \in Nat

VARIABLES
  stats,    \* the counters; zero for a replica without an entry
  entries,  \* the replicas with an entry
  mutex,    \* callers that hold the write lock
  call,     \* what each caller is doing
  loads,    \* what its Score has read so far
  score,    \* the score it returned last, as <<rate, novelty>>
  records,  \* history: the Record calls finished, by replica and kind
  calls     \* history: calls started

vars == <<stats, entries, mutex, call, loads, score, records, calls>>

-----------------------------------------------------------------------------
Writers == {"round", "commit", "timeout"}

\* The field a Record call adds one to.
Counter(kind) ==
  CASE kind = "round" -> "rounds" [] kind = "commit" -> "committed" [] kind = "timeout" -> "timeouts"

\* step: waits for the lock, has read the counter, has written it, reads on.
Calling ==
  [kind : Writers \cup {"score"}, replica : Replica, height : Height,
   step : {"wait", "read", "wrote", "load"}, seen : Nat]

Idle == [kind |-> "none"]

\* The loads of Score and the field each is of.
Load == {"nonzero", "committed", "rounds", "last", "again"}

Field(x) ==
  CASE x \in {"nonzero", "rounds"} -> "rounds"
    [] x = "committed" -> "committed"
    [] x \in {"last", "again"} -> "lastLed"

\* The load of the same field that comes first in the program.
Earlier(x) ==
  CASE x = "rounds" -> {"nonzero"} [] x = "again" -> {"last"} [] OTHER -> {}

Neutral == <<<<1, 1>>, <<1, 1>>>>

Init ==
  /\ stats = NewStore /\ entries = {}
  /\ mutex = {}
  /\ call = [c \in Caller |-> Idle]
  /\ loads = [c \in Caller |-> << >>]
  /\ score = [c \in Caller |-> Neutral]
  /\ records = [r \in Replica |-> [k \in Writers |-> 0]]
  /\ calls = 0

Call(c) ==
  /\ call[c] = Idle /\ calls < MaxCalls
  /\ \E kind \in Writers \cup {"score"}, r \in Replica, h \in Height :
       call' = [call EXCEPT ![c] = [kind |-> kind, replica |-> r, height |-> h,
                                    step |-> "wait", seen |-> 0]]
  /\ calls' = calls + 1
  /\ UNCHANGED <<stats, entries, mutex, loads, score, records>>

-----------------------------------------------------------------------------
\* Mutated form of Free: the read lock, which writers share.
FreeToRead(c) == TRUE

Free(c) == mutex = {}

\* Record*: Lock, get, and the load of the counter.
Acquire(c) ==
  /\ call[c].kind \in Writers /\ call[c].step = "wait" /\ Free(c)
  /\ mutex' = mutex \cup {c}
  /\ entries' = entries \cup {call[c].replica}
  /\ call' = [call EXCEPT ![c].step = "read",
                          ![c].seen = stats[call[c].replica][Counter(call[c].kind)]]
  /\ UNCHANGED <<stats, loads, score, records, calls>>

\* The store of the counter.
Increment(c) ==
  /\ call[c].kind \in Writers /\ call[c].step = "read"
  /\ stats' = [stats EXCEPT ![call[c].replica][Counter(call[c].kind)] = call[c].seen + 1]
  /\ call' = [call EXCEPT ![c].step = "wrote"]
  /\ UNCHANGED <<entries, mutex, loads, score, records, calls>>

\* Mutated form of Raised: the height is stored whatever the field holds.
Stored(last, height) == height

\* RecordCommit keeps the higher of two heights.
Raised(last, height) == IF height > last THEN height ELSE last

\* Mutated form of Released: RecordTimeout returns with the lock held.
ReleasedUnlessTimeout(c) == IF call[c].kind = "timeout" THEN mutex ELSE mutex \ {c}

Released(c) == mutex \ {c}

\* The rest of RecordCommit, and Unlock.
Release(c) ==
  /\ call[c].kind \in Writers /\ call[c].step = "wrote"
  /\ stats' = IF call[c].kind # "commit" THEN stats
              ELSE [stats EXCEPT ![call[c].replica].lastLed = Raised(@, call[c].height)]
  /\ mutex' = Released(c)
  /\ records' = [records EXCEPT ![call[c].replica][call[c].kind] = @ + 1]
  /\ call' = [call EXCEPT ![c] = Idle]
  /\ UNCHANGED <<entries, loads, score, calls>>

-----------------------------------------------------------------------------
\* Score: the lookup under the read lock; a replica without entry scores full.
LookUp(c) ==
  /\ call[c].kind = "score" /\ call[c].step = "wait" /\ mutex = {}
  /\ IF call[c].replica \in entries
     THEN call' = [call EXCEPT ![c].step = "load"] /\ UNCHANGED score
     ELSE call' = [call EXCEPT ![c] = Idle] /\ score' = [score EXCEPT ![c] = Neutral]
  /\ UNCHANGED <<stats, entries, mutex, loads, records, calls>>

Read(c, x) ==
  /\ call[c].kind = "score" /\ call[c].step = "load"
  /\ x \notin DOMAIN loads[c] /\ Earlier(x) \subseteq DOMAIN loads[c]
  /\ loads' = [loads EXCEPT ![c] =
       [y \in DOMAIN @ \cup {x} |-> IF y = x THEN stats[call[c].replica][Field(x)] ELSE @[y]]]
  /\ UNCHANGED <<stats, entries, mutex, call, score, records, calls>>

ReturnScore(c) ==
  /\ call[c].kind = "score" /\ DOMAIN loads[c] = Load
  /\ LET l == loads[c]
     IN  score' = [score EXCEPT ![c] = <<CommitRate(l["nonzero"], l["committed"], l["rounds"]),
                                         Novelty(l["last"], l["again"], call[c].height)>>]
  /\ loads' = [loads EXCEPT ![c] = << >>]
  /\ call' = [call EXCEPT ![c] = Idle]
  /\ UNCHANGED <<stats, entries, mutex, records, calls>>

Proceed(c) ==
  \/ Acquire(c) \/ Increment(c) \/ Release(c)
  \/ LookUp(c) \/ (\E x \in Load : Read(c, x)) \/ ReturnScore(c)

Next == \E c \in Caller : Call(c) \/ Proceed(c)

Spec == Init /\ [][Next]_vars

\* Goroutines that are not blocked run; a waiting one gets the lock in the end.
FairSpec == Spec /\ \A c \in Caller : SF_vars(Proceed(c))

-----------------------------------------------------------------------------
TypeOK ==
  /\ stats \in [Replica -> ReplicaStats] /\ entries \subseteq Replica
  /\ mutex \subseteq Caller
  /\ call \in [Caller -> Calling \cup {Idle}]
  /\ DOMAIN loads = Caller
  /\ \A c \in Caller : DOMAIN loads[c] \subseteq Load /\ loads[c] \in [DOMAIN loads[c] -> Nat]
  /\ score \in [Caller -> (Nat \X Nat) \X (Nat \X Nat)]
  /\ records \in [Replica -> [Writers -> Nat]]
  /\ calls \in 0 .. MaxCalls

(***************************************************************************)
(* What Score makes of a torn read: the commit rate does not divide by     *)
(* zero, though the divisor is read again after it was compared with zero, *)
(* and the novelty lies between zero and one, though the height it is the  *)
(* distance to may have passed the caller's between the two reads          *)
(* (store.go:20-36, 95-104).  The commit rate itself, and so the score,    *)
(* has no such bound: the commits may be read after a round is recorded    *)
(* and committed, the rounds before it.                                    *)
(***************************************************************************)
TornScoreDefined ==
  \A c \in Caller :
    /\ score[c][1][2] > 0
    /\ score[c][2][1] <= score[c][2][2] /\ score[c][2][2] > 0

(***************************************************************************)
(* No call is lost: while nobody holds the lock, the counters are the      *)
(* numbers of the calls that returned (store.go:64-93).                    *)
(***************************************************************************)
NothingLost ==
  mutex = {} => \A r \in Replica : \A k \in Writers : stats[r][Counter(k)] = records[r][k]

(***************************************************************************)
(* Every call returns (store.go:73-104).                                   *)
(***************************************************************************)
CallsReturn == \A c \in Caller : call[c] # Idle ~> call[c] = Idle
=============================================================================
