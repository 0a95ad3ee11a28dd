----------------------------- MODULE Reputation -----------------------------
(***************************************************************************)
(* The statistics of internal/reputation and the leader they lead to, as   *)
(* pure functions.  A replica the store has no entry for scores as one     *)
(* whose counters are all zero, so a store is a total function.            *)
(*                                                                         *)
(* Scores are fractions <<numerator, denominator>>, in fifths: the weights *)
(* are 0.6 and 0.4.                                                        *)
(***************************************************************************)
EXTENDS Committees

CONSTANTS Rank,   \* the order of the replicas' identities as strings
          Wide    \* the range of an unsigned integer, 2^64 in the code

ASSUME ReputationAssumption ==
  /\ Rank \in [Replica -> Nat]
  /\ \A r, s \in Replica : Rank[r] = Rank[s] => r = s
  /\ Wide \in Nat \ {0}

Alpha == 3

Beta == 2

ReplicaStats == [rounds : Nat, committed : Nat, timeouts : Nat, lastLed : Nat]

Fresh == [rounds |-> 0, committed |-> 0, timeouts |-> 0, lastLed |-> 0]

NewStore == [r \in Replica |-> Fresh]

-----------------------------------------------------------------------------
\* The committed and the led rounds; nonzero is the first read of the divisor.
CommitRate(nonzero, committed, rounds) ==
  IF nonzero = 0 THEN <<1, 1>> ELSE <<committed, rounds>>

\* Mutated form of Novelty: a signed distance, not cut off at zero.
SignedNovelty(last, again, height) ==
  IF height = 0 THEN <<1, 1>> ELSE <<height - again, height>>

\* last and again are the two reads of LastLedHeight.
Novelty(last, again, height) ==
  IF height = 0 THEN <<1, 1>>
  ELSE <<IF again > height THEN 0 ELSE (height - last) % Wide, height>>

Weighted(rate, novelty) ==
  <<Alpha * rate[1] * novelty[2] + Beta * novelty[1] * rate[2], rate[2] * novelty[2]>>

-----------------------------------------------------------------------------
\* Statistics at rest: every field is read once.
RateOf(st) == CommitRate(st.rounds, st.committed, st.rounds)

NoveltyOf(st, height) == Novelty(st.lastLed, st.lastLed, height)

Score(st, height) == Weighted(RateOf(st), NoveltyOf(st, height))

Above(a, b) == a[1] * b[2] > b[1] * a[2]

Same(a, b) == a[1] * b[2] = b[1] * a[2]

(***************************************************************************)
(* The order Select sorts by.  Two scores that are equal as fractions are  *)
(* equal as floating-point numbers when their parts are; otherwise either  *)
(* may be rounded above the other.                                         *)
(***************************************************************************)
Beats(stats, height, r, s) ==
  LET a == Score(stats[r], height)
      b == Score(stats[s], height)
  IN  \/ Above(a, b)
      \/ /\ Same(RateOf(stats[r]), RateOf(stats[s]))
         /\ Same(NoveltyOf(stats[r], height), NoveltyOf(stats[s], height))
         /\ Rank[r] < Rank[s]

\* The members Select may return.
Select(stats, c, height) ==
  {r \in MemberIds(c) : \A s \in MemberIds(c) : ~Beats(stats, height, s, r)}

-----------------------------------------------------------------------------
LedRound(st) == [st EXCEPT !.rounds = @ + 1]

\* Mutated form of Committed: when a replica last led is not kept.
CommittedOnly(st, height) == [st EXCEPT !.committed = @ + 1]

Committed(st, height) ==
  [st EXCEPT !.committed = @ + 1, !.lastLed = IF height > @ THEN height ELSE @]

TimedOut(st) == [st EXCEPT !.timeouts = @ + 1]

RecordLeaderRound(stats, r) == [stats EXCEPT ![r] = LedRound(@)]

RecordCommit(stats, r, height) == [stats EXCEPT ![r] = Committed(@, height)]

RecordTimeout(stats, r) == [stats EXCEPT ![r] = TimedOut(@)]
=============================================================================
