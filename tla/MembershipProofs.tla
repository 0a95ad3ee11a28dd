-------------------------- MODULE MembershipProofs --------------------------
(***************************************************************************)
(* Lemmas and theorems about the pure functions, for every input:          *)
(* what Apply returns and the arithmetic of quorums; one call of Deliver   *)
(* on any state of a deliverer; and the rules of internal/membership that  *)
(* the program does not call, proved to agree with what it does instead:   *)
(* QuorumOf with HasQuorum and CreateQC, ValidateMembershipRequest with    *)
(* Apply.                                                                  *)
(*                                                                         *)
(* The recursive functions are unfolded by induction on sets of numbers:   *)
(* a fact about every n is stated as Nat \subseteq T.                      *)
(***************************************************************************)
EXTENDS Delivery, QuorumRules, FiniteSetTheorems, SequenceTheorems, TLAPS

-----------------------------------------------------------------------------
LessThan == {p \in Nat \X Nat : p[1] < p[2]}

LEMMA LessThanWellFounded == IsWellFoundedOn(LessThan, Nat)
BY NatLessThanWellFounded, Zenon DEF OpToRel, LessThan

\* Induction over the natural numbers, for a set instead of a predicate.
LEMMA InductionOnSet ==
  ASSUME NEW T, 0 \in T, \A n \in Nat : n \in T => n + 1 \in T
  PROVE  Nat \subseteq T
<1> SUFFICES ASSUME Nat \ T # {} PROVE FALSE
  OBVIOUS
<1>1. PICK x \in Nat \ T : \A y \in Nat \ T : <<y, x>> \notin LessThan
  <2>1. Nat \ T \subseteq Nat
    OBVIOUS
  <2>2. QED
    BY <2>1, LessThanWellFounded, WFMin
<1>2. x # 0 /\ x \in Nat
  OBVIOUS
<1>3. x - 1 \in Nat /\ (x - 1) + 1 = x
  BY <1>2
<1>4. <<x - 1, x>> \in LessThan
  BY <1>3 DEF LessThan
<1>5. x - 1 \in T
  BY <1>1, <1>3, <1>4
<1>6. QED
  BY <1>3, <1>5

-----------------------------------------------------------------------------
\* The definition of OnlyEach has a solution, so OnlyEach satisfies it.
LEMMA OnlyEachUnfolds ==
  ASSUME NEW U, NEW s \in Seq(U), NEW S
  PROVE  LET e == OnlyEach(s, S)
         IN  /\ e[0] = << >>
             /\ \A i \in 1 .. Len(s) :
                  e[i] = IF s[i] \in S THEN Append(e[i - 1], s[i]) ELSE e[i - 1]
<1> DEFINE Step(g, i) == IF i = 0 THEN << >>
                         ELSE IF s[i] \in S THEN Append(g[i - 1], s[i])
                         ELSE g[i - 1]
           Solved == {n \in Nat : \E g : g = [i \in 0 .. n |-> Step(g, i)]}
<1>1. 0 \in Solved
  <2> DEFINE g == [i \in 0 .. 0 |-> << >>]
  <2>1. g = [i \in 0 .. 0 |-> Step(g, i)]
    OBVIOUS
  <2>2. QED
    BY <2>1, Zenon
<1>2. ASSUME NEW n \in Nat, n \in Solved PROVE n + 1 \in Solved
  <2>1. PICK g : g = [i \in 0 .. n |-> Step(g, i)]
    BY <1>2, Zenon
  <2> DEFINE h == [i \in 0 .. n + 1 |-> IF i = n + 1 THEN Step(g, n + 1) ELSE g[i]]
  <2>2. ASSUME NEW i \in 0 .. n + 1 PROVE h[i] = Step(h, i)
    <3>1. CASE i = n + 1
      BY <3>1
    <3>2. CASE i \in 0 .. n
      <4>1. h[i] = g[i] /\ g[i] = Step(g, i)
        BY <3>2, <2>1
      <4>2. i # 0 => h[i - 1] = g[i - 1]
        BY <3>2
      <4>3. QED
        BY <4>1, <4>2
    <3>3. QED
      BY <3>1, <3>2
  <2>3. h = [i \in 0 .. n + 1 |-> Step(h, i)]
    BY <2>2, Zenon
  <2>4. n + 1 \in Nat
    OBVIOUS
  <2> HIDE DEF h, Step
  <2>5. QED
    BY <2>3, <2>4, Zenon
<1>3. Nat \subseteq Solved
  <2> HIDE DEF Solved
  <2>1. QED
    BY <1>1, <1>2, InductionOnSet
<1>4. PICK g : g = [i \in 0 .. Len(s) |-> Step(g, i)]
  BY <1>3
<1> DEFINE e == OnlyEach(s, S)
<1>5. e = [i \in 0 .. Len(s) |-> Step(e, i)]
  BY <1>4, Zenon DEF OnlyEach
<1> HIDE DEF e
<1>6. e[0] = << >>
  BY <1>5
<1>7. ASSUME NEW i \in 1 .. Len(s)
      PROVE  e[i] = IF s[i] \in S THEN Append(e[i - 1], s[i]) ELSE e[i - 1]
  <2>1. i \in 0 .. Len(s) /\ i # 0
    OBVIOUS
  <2>2. e[i] = Step(e, i)
    <3> HIDE DEF Step
    <3>1. QED
      BY <1>5, <2>1
  <2>3. QED
    BY <2>1, <2>2
<1>8. QED
  BY <1>6, <1>7 DEF e

\* Filtering a sequence gives a sequence of the elements kept.
LEMMA OnlyType ==
  ASSUME NEW U, NEW s \in Seq(U), NEW S
  PROVE  Only(s, S) \in Seq(U \cap S)
<1> DEFINE e == OnlyEach(s, S)
           T == {n \in Nat : n <= Len(s) => e[n] \in Seq(U \cap S)}
<1>1. 0 \in T
  <2>1. e[0] = << >>
    BY OnlyEachUnfolds
  <2>2. e[0] \in Seq(U \cap S)
    BY <2>1, EmptySeq
  <2> HIDE DEF e
  <2>3. QED
    BY <2>2
<1>2. ASSUME NEW n \in Nat, n \in T PROVE n + 1 \in T
  <2>1. SUFFICES ASSUME n + 1 <= Len(s) PROVE e[n + 1] \in Seq(U \cap S)
    OBVIOUS
  <2>2. e[n] \in Seq(U \cap S) /\ s[n + 1] \in U
    BY <1>2, <2>1
  <2>3. e[n + 1] = IF s[n + 1] \in S THEN Append(e[n], s[n + 1]) ELSE e[n]
    BY <2>1, OnlyEachUnfolds
  <2> HIDE DEF e
  <2>4. QED
    BY <2>2, <2>3
<1>3. Nat \subseteq T
  <2> HIDE DEF T
  <2>1. QED
    BY <1>1, <1>2, InductionOnSet
<1>4. QED
  BY <1>3 DEF Only

-----------------------------------------------------------------------------
\* The definition of ApplyEach has a solution, so ApplyEach satisfies it.
LEMMA ApplyEachUnfolds ==
  ASSUME NEW c \in Committee, NEW reqs \in Seq(MembershipRequest)
  PROVE  LET e == ApplyEach(c, reqs)
         IN  /\ e[0] = [ok |-> TRUE, replicas |-> c.replicas]
             /\ \A i \in 1 .. Len(reqs) : e[i] = ApplyOne(e[i - 1], reqs[i])
<1> DEFINE base == [ok |-> TRUE, replicas |-> c.replicas]
           Step(g, i) == IF i = 0 THEN base ELSE ApplyOne(g[i - 1], reqs[i])
           Solved == {n \in Nat : \E g : g = [i \in 0 .. n |-> Step(g, i)]}
<1>1. 0 \in Solved
  <2> DEFINE g == [i \in 0 .. 0 |-> base]
  <2>1. g = [i \in 0 .. 0 |-> Step(g, i)]
    OBVIOUS
  <2>2. QED
    BY <2>1, Zenon
<1>2. ASSUME NEW n \in Nat, n \in Solved PROVE n + 1 \in Solved
  <2>1. PICK g : g = [i \in 0 .. n |-> Step(g, i)]
    BY <1>2, Zenon
  <2> DEFINE h == [i \in 0 .. n + 1 |-> IF i = n + 1 THEN Step(g, n + 1) ELSE g[i]]
  <2>2. ASSUME NEW i \in 0 .. n + 1 PROVE h[i] = Step(h, i)
    <3>1. CASE i = n + 1
      BY <3>1
    <3>2. CASE i \in 0 .. n
      <4>1. h[i] = g[i] /\ g[i] = Step(g, i)
        BY <3>2, <2>1
      <4>2. i # 0 => h[i - 1] = g[i - 1]
        BY <3>2
      <4>3. QED
        BY <4>1, <4>2
    <3>3. QED
      BY <3>1, <3>2
  <2>3. h = [i \in 0 .. n + 1 |-> Step(h, i)]
    BY <2>2, Zenon
  <2>4. n + 1 \in Nat
    OBVIOUS
  <2> HIDE DEF h, Step
  <2>5. QED
    BY <2>3, <2>4, Zenon
<1>3. Nat \subseteq Solved
  <2> HIDE DEF Solved
  <2>1. QED
    BY <1>1, <1>2, InductionOnSet
<1>4. PICK g : g = [i \in 0 .. Len(reqs) |-> Step(g, i)]
  BY <1>3
<1> DEFINE e == ApplyEach(c, reqs)
<1>5. e = [i \in 0 .. Len(reqs) |-> Step(e, i)]
  BY <1>4, Zenon DEF ApplyEach
<1> HIDE DEF e
<1>6. e[0] = base
  BY <1>5
<1>7. ASSUME NEW i \in 1 .. Len(reqs) PROVE e[i] = ApplyOne(e[i - 1], reqs[i])
  <2>1. i \in 0 .. Len(reqs) /\ i # 0
    OBVIOUS
  <2>2. e[i] = Step(e, i)
    <3> HIDE DEF Step
    <3>1. QED
      BY <1>5, <2>1
  <2>3. QED
    BY <2>1, <2>2
<1>8. QED
  BY <1>6, <1>7 DEF e

\* What one request does to the replica list keeps its type.
LEMMA ApplyOneType ==
  ASSUME NEW acc \in [ok : BOOLEAN, replicas : Seq(Member)],
         NEW req \in MembershipRequest
  PROVE  ApplyOne(acc, req) \in [ok : BOOLEAN, replicas : Seq(Member)]
<1>1. CASE ~acc.ok \/ ~Applicable(acc.replicas, req)
  BY <1>1 DEF ApplyOne
<1>2. CASE acc.ok /\ Applicable(acc.replicas, req) /\ req.type = "ADD"
  <2>1. Admit(acc.replicas, req) \in Seq(Member)
    BY DEF Admit, Member, MembershipRequest
  <2>2. QED
    BY <1>2, <2>1 DEF ApplyOne
<1>3. CASE acc.ok /\ Applicable(acc.replicas, req) /\ req.type = "REMOVE"
  <2> DEFINE rest == {m \in Member : m.id # req.client}
  <2>1. Only(acc.replicas, rest) \in Seq(Member \cap rest)
    BY OnlyType
  <2>2. Expel(acc.replicas, req) \in Seq(Member)
    BY <2>1, SeqMonotonic, Member \cap rest \subseteq Member DEF Expel
  <2>3. QED
    BY <1>3, <2>2 DEF ApplyOne
<1>4. CASE acc.ok /\ Applicable(acc.replicas, req) /\ req.type = "REGULAR"
  BY <1>4 DEF ApplyOne
<1>5. QED
  BY <1>1, <1>2, <1>3, <1>4 DEF MembershipRequest, RequestType

(***************************************************************************)
(* Apply returns a committee numbered one above the one it was applied to, *)
(* with the fault cap of its own size (committee.go:147-203): nothing else *)
(* about the base or the requests matters.                                 *)
(***************************************************************************)
THEOREM ApplyType ==
  ASSUME NEW c \in Committee, NEW reqs \in Seq(MembershipRequest)
  PROVE  LET next == Apply(c, reqs).committee
         IN  /\ next \in Committee
             /\ next.number = c.number + 1
             /\ next.faultCap = FaultCap(Len(next.replicas))
<1> DEFINE each == ApplyEach(c, reqs)
           Acc == [ok : BOOLEAN, replicas : Seq(Member)]
           T == {n \in Nat : n <= Len(reqs) => each[n] \in Acc}
<1>1. 0 \in T
  <2>1. each[0] = [ok |-> TRUE, replicas |-> c.replicas]
    BY ApplyEachUnfolds
  <2>2. [ok |-> TRUE, replicas |-> c.replicas] \in Acc
    BY DEF Committee
  <2> HIDE DEF each, Acc
  <2>3. QED
    BY <2>1, <2>2
<1>2. ASSUME NEW n \in Nat, n \in T PROVE n + 1 \in T
  <2>1. SUFFICES ASSUME n + 1 <= Len(reqs) PROVE each[n + 1] \in Acc
    OBVIOUS
  <2>2. each[n] \in Acc /\ reqs[n + 1] \in MembershipRequest
    BY <1>2, <2>1
  <2>3. each[n + 1] = ApplyOne(each[n], reqs[n + 1])
    <3>1. n + 1 \in 1 .. Len(reqs) /\ (n + 1) - 1 = n
      BY <2>1
    <3>2. \A i \in 1 .. Len(reqs) : each[i] = ApplyOne(each[i - 1], reqs[i])
      BY ApplyEachUnfolds, Zenon
    <3> HIDE DEF each
    <3>3. QED
      BY <3>1, <3>2
  <2> HIDE DEF each
  <2>4. QED
    BY <2>2, <2>3, ApplyOneType
<1>3. Nat \subseteq T
  <2> HIDE DEF T
  <2>1. QED
    BY <1>1, <1>2, InductionOnSet
<1>4. each[Len(reqs)] \in Acc
  BY <1>3
<1> HIDE DEF each
<1>5. PICK replicas \in Seq(Member) :
        Apply(c, reqs).committee = NewCommittee(c.number + 1, replicas)
  BY <1>4 DEF Apply, each
<1>6. FaultCap(Len(replicas)) \in Nat
  BY DEF FaultCap
<1>7. QED
  BY <1>5, <1>6 DEF NewCommittee, Committee

-----------------------------------------------------------------------------
\* A committee has no more distinct identities than entries.
LEMMA MemberCount ==
  ASSUME NEW c \in Committee
  PROVE  /\ IsFiniteSet(MemberIds(c))
         /\ Cardinality(MemberIds(c)) <= Len(c.replicas)
<1> DEFINE n == Len(c.replicas)
           f == [i \in 1 .. n |-> c.replicas[i].id]
<1>1. n \in Nat /\ DOMAIN c.replicas = 1 .. n
  BY DEF Committee
<1>2. IsFiniteSet(1 .. n) /\ Cardinality(1 .. n) = n
  <2>1. n \in Int /\ 1 \in Int
    BY <1>1
  <2>2. QED
    BY <1>1, <2>1, FS_Interval
<1>3. f \in Surjection(1 .. n, MemberIds(c))
  BY <1>1 DEF Surjection, MemberIds
<1>4. QED
  BY <1>1, <1>2, <1>3, FS_Surjection, FS_CardinalityType

(***************************************************************************)
(* Two quorums of members of a committee have more replicas in common than *)
(* the committee tolerates faults (committee.go:79-96): the votes behind   *)
(* two certificates of a configuration share an honest signer.  It holds   *)
(* also when an identity is listed twice.                                  *)
(***************************************************************************)
THEOREM QuorumIntersection ==
  ASSUME NEW c \in Committee,
         NEW q1 \in SUBSET MemberIds(c), NEW q2 \in SUBSET MemberIds(c),
         Cardinality(q1) >= QuorumSize(c), Cardinality(q2) >= QuorumSize(c)
  PROVE  Cardinality(q1 \cap q2) > c.faultCap
<1> DEFINE n == Len(c.replicas)
           u == Cardinality(q1 \cup q2)
<1>1. n \in Nat /\ c.faultCap \in Nat
  BY DEF Committee
<1>2. IsFiniteSet(MemberIds(c)) /\ Cardinality(MemberIds(c)) <= n
        /\ Cardinality(MemberIds(c)) \in Nat
  BY MemberCount, FS_CardinalityType
<1>3. /\ IsFiniteSet(q1) /\ Cardinality(q1) \in Nat
      /\ IsFiniteSet(q2) /\ Cardinality(q2) \in Nat
  BY <1>2, FS_Subset, FS_CardinalityType
<1>4. u \in Nat /\ u <= n
  <2>1. IsFiniteSet(q1 \cup q2) /\ (q1 \cup q2) \in SUBSET MemberIds(c)
    BY <1>3, FS_Union
  <2>2. u \in Nat /\ u <= Cardinality(MemberIds(c))
    BY <1>2, <2>1, FS_Subset, FS_CardinalityType
  <2>3. QED
    BY <1>1, <1>2, <2>2
<1>5. Cardinality(q1 \cap q2) \in Nat
  <2>1. IsFiniteSet(q1 \cap q2)
    BY <1>3, FS_Subset
  <2>2. QED
    BY <2>1, FS_CardinalityType
<1>6. u = Cardinality(q1) + Cardinality(q2) - Cardinality(q1 \cap q2)
  BY <1>3, FS_Union
<1>7. 2 * QuorumSize(c) >= n + c.faultCap + 1
  BY <1>1 DEF QuorumSize
<1>8. QuorumSize(c) \in Nat
  BY <1>1 DEF QuorumSize
<1>9. QED
  BY <1>1, <1>3, <1>4, <1>5, <1>6, <1>7, <1>8

(***************************************************************************)
(* The replicas that remain when faultCap of them are faulty are a quorum, *)
(* for the fault cap NewCommittee computes (committee.go:61-72, 91-96), so *)
(* waiting for a quorum never waits for a faulty replica.                  *)
(***************************************************************************)
THEOREM QuorumAvailable ==
  ASSUME NEW number \in Nat, NEW replicas \in Seq(Member), replicas # << >>
  PROVE  LET c == NewCommittee(number, replicas)
         IN  QuorumSize(c) <= Len(c.replicas) - c.faultCap
<1> DEFINE n == Len(replicas)
<1>1. n \in Nat /\ n > 0
  OBVIOUS
<1>2. FaultCap(n) = (n - 1) \div 3
  BY <1>1 DEF FaultCap
<1>3. 3 * ((n - 1) \div 3) <= n - 1 /\ (n - 1) \div 3 \in Nat
  BY <1>1
<1>4. (n + FaultCap(n) + 2) \div 2 <= n - FaultCap(n)
  BY <1>1, <1>2, <1>3
<1>5. QED
  BY <1>4 DEF NewCommittee, QuorumSize

-----------------------------------------------------------------------------
\* The definition of DistinctEach has a solution, so DistinctEach satisfies it.
LEMMA DistinctEachUnfolds ==
  ASSUME NEW votes \in Seq(Vote)
  PROVE  LET e == DistinctEach(votes)
         IN  /\ e[0] = << >>
             /\ \A i \in 1 .. Len(votes) : e[i] = AggregateVotes(e[i - 1], votes[i])
<1> DEFINE Step(g, i) == IF i = 0 THEN << >> ELSE AggregateVotes(g[i - 1], votes[i])
           Solved == {n \in Nat : \E g : g = [i \in 0 .. n |-> Step(g, i)]}
<1>1. 0 \in Solved
  <2> DEFINE g == [i \in 0 .. 0 |-> << >>]
  <2>1. g = [i \in 0 .. 0 |-> Step(g, i)]
    OBVIOUS
  <2>2. QED
    BY <2>1, Zenon
<1>2. ASSUME NEW n \in Nat, n \in Solved PROVE n + 1 \in Solved
  <2>1. PICK g : g = [i \in 0 .. n |-> Step(g, i)]
    BY <1>2, Zenon
  <2> DEFINE h == [i \in 0 .. n + 1 |-> IF i = n + 1 THEN Step(g, n + 1) ELSE g[i]]
  <2>2. ASSUME NEW i \in 0 .. n + 1 PROVE h[i] = Step(h, i)
    <3>1. CASE i = n + 1
      BY <3>1
    <3>2. CASE i \in 0 .. n
      <4>1. h[i] = g[i] /\ g[i] = Step(g, i)
        BY <3>2, <2>1
      <4>2. i # 0 => h[i - 1] = g[i - 1]
        BY <3>2
      <4>3. QED
        BY <4>1, <4>2
    <3>3. QED
      BY <3>1, <3>2
  <2>3. h = [i \in 0 .. n + 1 |-> Step(h, i)]
    BY <2>2, Zenon
  <2>4. n + 1 \in Nat
    OBVIOUS
  <2> HIDE DEF h, Step
  <2>5. QED
    BY <2>3, <2>4, Zenon
<1>3. Nat \subseteq Solved
  <2> HIDE DEF Solved
  <2>1. QED
    BY <1>1, <1>2, InductionOnSet
<1>4. PICK g : g = [i \in 0 .. Len(votes) |-> Step(g, i)]
  BY <1>3
<1> DEFINE e == DistinctEach(votes)
<1>5. e = [i \in 0 .. Len(votes) |-> Step(e, i)]
  BY <1>4, Zenon DEF DistinctEach
<1> HIDE DEF e
<1>6. e[0] = << >>
  BY <1>5
<1>7. ASSUME NEW i \in 1 .. Len(votes) PROVE e[i] = AggregateVotes(e[i - 1], votes[i])
  <2>1. i \in 0 .. Len(votes) /\ i # 0
    OBVIOUS
  <2>2. e[i] = Step(e, i)
    <3> HIDE DEF Step
    <3>1. QED
      BY <1>5, <2>1
  <2>3. QED
    BY <2>1, <2>2
<1>8. QED
  BY <1>6, <1>7 DEF e

-----------------------------------------------------------------------------
\* One vote per signer, each taken from votes, and every signer of S has one.
OnePerSigner(kept, votes, S) ==
  /\ kept \in Seq(Vote)
  /\ \A i \in DOMAIN kept : \E j \in DOMAIN votes : kept[i] = votes[j]
  /\ \A i, j \in DOMAIN kept : kept[i].signer = kept[j].signer => i = j
  /\ Signers(kept) = S

\* Aggregating one more vote keeps one per signer.
LEMMA AggregateOnePerSigner ==
  ASSUME NEW votes \in Seq(Vote), NEW kept, NEW S, OnePerSigner(kept, votes, S),
         NEW k \in DOMAIN votes
  PROVE  OnePerSigner(AggregateVotes(kept, votes[k]), votes, S \cup {votes[k].signer})
<1> DEFINE vote == votes[k]
<1>1. vote \in Vote /\ kept \in Seq(Vote)
  BY DEF OnePerSigner
<1>2. CASE vote.signer \in Signers(kept)
  BY <1>2 DEF AggregateVotes, OnePerSigner
<1>3. CASE vote.signer \notin Signers(kept)
  <2> DEFINE n   == Len(kept)
             new == Append(kept, vote)
  <2>1. AggregateVotes(kept, vote) = new
    BY <1>3 DEF AggregateVotes
  <2>2. /\ n \in Nat /\ DOMAIN kept = 1 .. n /\ DOMAIN new = 1 .. n + 1
        /\ \A i \in 1 .. n : new[i] = kept[i]
        /\ new[n + 1] = vote
        /\ new \in Seq(Vote)
    BY <1>1, AppendProperties
  <2>3. \A i \in 1 .. n : kept[i].signer # vote.signer
    BY <1>3, <2>2 DEF Signers
  <2> HIDE DEF new, n
  <2>4. \A i \in 1 .. n + 1 : \E j \in DOMAIN votes : new[i] = votes[j]
    <3>1. ASSUME NEW i \in 1 .. n PROVE \E j \in DOMAIN votes : new[i] = votes[j]
      BY <2>2 DEF OnePerSigner
    <3>2. \E j \in DOMAIN votes : new[n + 1] = votes[j]
      BY <2>2
    <3>3. \A i \in 1 .. n + 1 : i \in 1 .. n \/ i = n + 1
      BY <2>2
    <3>4. QED
      BY <3>1, <3>2, <3>3, Zenon
  <2>5. ASSUME NEW i \in 1 .. n + 1, NEW j \in 1 .. n + 1, new[i].signer = new[j].signer
        PROVE  i = j
    <3>1. CASE i \in 1 .. n /\ j \in 1 .. n
      BY <2>2, <2>5, <3>1 DEF OnePerSigner
    <3>2. CASE i = n + 1 \/ j = n + 1
      BY <2>2, <2>3, <2>5, <3>2
    <3>3. QED
      BY <2>2, <3>1, <3>2
  <2>6. Signers(new) = S \cup {vote.signer}
    <3>1. Signers(new) = Signers(kept) \cup {vote.signer}
      BY <2>2 DEF Signers
    <3>2. QED
      BY <3>1 DEF OnePerSigner
  <2>7. QED
    BY <2>1, <2>2, <2>4, <2>5, <2>6 DEF OnePerSigner
<1>4. QED
  BY <1>2, <1>3

\* Aggregating votes one by one keeps one per signer.
LEMMA DistinctVotesOnePerSigner ==
  ASSUME NEW votes \in Seq(Vote)
  PROVE  OnePerSigner(DistinctVotes(votes), votes, Signers(votes))
<1> DEFINE e == DistinctEach(votes)
           S(n) == {votes[j].signer : j \in 1 .. n}
           T == {n \in Nat : n <= Len(votes) => OnePerSigner(e[n], votes, S(n))}
<1>1. 0 \in T
  <2>1. e[0] = << >>
    BY DistinctEachUnfolds
  <2> HIDE DEF e
  <2>2. OnePerSigner(<< >>, votes, S(0))
    BY DEF OnePerSigner, Signers
  <2>3. QED
    BY <2>1, <2>2
<1>2. ASSUME NEW n \in Nat, n \in T PROVE n + 1 \in T
  <2>1. SUFFICES ASSUME n + 1 <= Len(votes) PROVE OnePerSigner(e[n + 1], votes, S(n + 1))
    OBVIOUS
  <2>2. OnePerSigner(e[n], votes, S(n)) /\ n + 1 \in DOMAIN votes
    BY <1>2, <2>1
  <2>3. e[n + 1] = AggregateVotes(e[n], votes[n + 1])
    <3>1. n + 1 \in 1 .. Len(votes) /\ (n + 1) - 1 = n
      BY <2>1
    <3>2. \A i \in 1 .. Len(votes) : e[i] = AggregateVotes(e[i - 1], votes[i])
      BY DistinctEachUnfolds, Zenon
    <3> HIDE DEF e
    <3>3. QED
      BY <3>1, <3>2
  <2>4. S(n + 1) = S(n) \cup {votes[n + 1].signer}
    OBVIOUS
  <2> HIDE DEF e, S
  <2>5. OnePerSigner(AggregateVotes(e[n], votes[n + 1]), votes, S(n) \cup {votes[n + 1].signer})
    BY <2>2, AggregateOnePerSigner
  <2>6. QED
    BY <2>3, <2>4, <2>5
<1>3. Nat \subseteq T
  <2> HIDE DEF T
  <2>1. QED
    BY <1>1, <1>2, InductionOnSet
<1>4. OnePerSigner(e[Len(votes)], votes, S(Len(votes)))
  <2> HIDE DEF e, S
  <2>1. Len(votes) \in Nat
    OBVIOUS
  <2>2. QED
    BY <1>3, <2>1
<1>5. S(Len(votes)) = Signers(votes)
  BY DEF Signers
<1>6. QED
  BY <1>4, <1>5 DEF DistinctVotes

\* With one vote per signer, there are as many votes as signers.
LEMMA AsManyAsSigners ==
  ASSUME NEW votes, NEW kept, NEW S, OnePerSigner(kept, votes, S)
  PROVE  IsFiniteSet(S) /\ Cardinality(S) = Len(kept)
<1> DEFINE n == Len(kept)
           f == [i \in 1 .. n |-> kept[i].signer]
<1>1. n \in Nat /\ DOMAIN kept = 1 .. n
  BY DEF OnePerSigner
<1>2. IsFiniteSet(1 .. n) /\ Cardinality(1 .. n) = n
  <2> HIDE DEF n
  <2>1. n \in Int /\ 1 \in Int
    BY <1>1
  <2>2. QED
    BY <1>1, <2>1, FS_Interval
<1>3. f \in [1 .. n -> S] /\ \A s \in S : \E i \in 1 .. n : f[i] = s
  BY <1>1 DEF OnePerSigner, Signers
<1>4. \A i, j \in DOMAIN f : f[i] = f[j] => i = j
  BY <1>1 DEF OnePerSigner
<1> HIDE DEF f, n
<1>5. f \in Bijection(1 .. n, S)
  BY <1>3, <1>4 DEF Bijection, Injection, IsInjective, Surjection
<1>6. IsFiniteSet(S) /\ Cardinality(S) = Cardinality(1 .. n)
  <2>1. ExistsBijection(1 .. n, S)
    BY <1>5 DEF ExistsBijection
  <2>2. QED
    BY <1>2, <2>1, FS_Bijection
<1>7. QED
  BY <1>2, <1>6 DEF n

(***************************************************************************)
(* QuorumOf finds a quorum exactly when HasQuorum, which the engine calls  *)
(* instead, says there is one (quorum.go:120-138, ecdsa_qc.go:70-80).      *)
(***************************************************************************)
THEOREM QuorumOfAgrees ==
  ASSUME NEW votes \in Seq(Vote), NEW c \in Committee
  PROVE  QuorumOf(votes, c).ok <=> HasQuorum(votes, c)
<1>1. OnePerSigner(DistinctVotes(votes), votes, Signers(votes))
  BY DistinctVotesOnePerSigner
<1>2. Cardinality(Signers(votes)) = Len(DistinctVotes(votes))
  BY <1>1, AsManyAsSigners
<1>3. QED
  BY <1>2 DEF QuorumOf, HasQuorum

-----------------------------------------------------------------------------
\* CreateQC errs exactly when HasQuorum finds no quorum.
LEMMA CreateQCAgrees ==
  ASSUME NEW votes \in Seq(Vote), NEW c \in Committee
  PROVE  /\ HasQuorum(votes, c) => CreateQC(votes, c) = {Certificate(votes, c)}
         /\ ~HasQuorum(votes, c) => CreateQC(votes, c) = {}
<1>1. OnePerSigner(DistinctVotes(votes), votes, Signers(votes))
  BY DistinctVotesOnePerSigner
<1>2. Cardinality(Signers(votes)) = Len(DistinctVotes(votes)) /\ Len(DistinctVotes(votes)) \in Nat
  BY <1>1, AsManyAsSigners DEF OnePerSigner
<1>3. QuorumSize(c) \in Nat
  <2>1. Len(c.replicas) \in Nat /\ c.faultCap \in Nat
    BY DEF Committee
  <2>2. QED
    BY <2>1 DEF QuorumSize
<1>4. QED
  BY <1>2, <1>3 DEF HasQuorum, CreateQC

\* Each vote carries a signature of its signer.
OwnSignatures(votes) == \A j \in DOMAIN votes : votes[j].sig.by = votes[j].signer

\* The certificate holds signatures of votes, those of a quorum of signers.
LEMMA CertificateSigned ==
  ASSUME NEW votes \in Seq(Vote), NEW c \in Committee, HasQuorum(votes, c)
  PROVE  LET qc == Certificate(votes, c)
             by == {s.by : s \in qc.sigs}
         IN  /\ qc \in QuorumCert
             /\ 1 \in DOMAIN votes
             /\ \A s \in qc.sigs : \E j \in DOMAIN votes : s = votes[j].sig
             /\ OwnSignatures(votes) =>
                  /\ Cardinality(by) >= QuorumSize(c)
                  /\ Cardinality(qc.sigs) >= QuorumSize(c)
                  /\ \A s, t \in qc.sigs : s.by = t.by => s = t
<1> DEFINE kept == DistinctVotes(votes)
           q    == QuorumSize(c)
           qc   == Certificate(votes, c)
           by   == {s.by : s \in qc.sigs}
<1>1. OnePerSigner(kept, votes, Signers(votes))
  BY DistinctVotesOnePerSigner
<1>2. q \in Nat /\ q >= 1
  <2>1. Len(c.replicas) \in Nat /\ c.faultCap \in Nat
    BY DEF Committee
  <2>2. QED
    BY <2>1 DEF QuorumSize
<1>3. kept \in Seq(Vote) /\ Len(kept) \in Nat /\ DOMAIN kept = 1 .. Len(kept)
  BY <1>1 DEF OnePerSigner
<1>4. q <= Len(kept)
  <2>1. Cardinality(Signers(votes)) = Len(kept)
    BY <1>1, AsManyAsSigners
  <2>2. QED
    BY <1>2, <1>3, <2>1 DEF HasQuorum
<1>5. qc.sigs = {kept[i].sig : i \in 1 .. q}
  BY DEF Certificate
<1>6. qc = [view |-> votes[1].view, conf |-> votes[1].conf, hash |-> votes[1].hash,
            sigs |-> qc.sigs]
  BY DEF Certificate
<1> HIDE DEF kept, q, qc
<1>7. ASSUME NEW i \in 1 .. q
      PROVE  i \in DOMAIN kept /\ \E j \in DOMAIN votes : kept[i] = votes[j]
  <2>1. i \in DOMAIN kept
    BY <1>2, <1>3, <1>4
  <2>2. QED
    BY <1>1, <2>1 DEF OnePerSigner
<1>8. 1 \in DOMAIN votes
  <2>1. PICK j \in DOMAIN votes : kept[1] = votes[j]
    BY <1>2, <1>7
  <2>2. QED
    BY <2>1
<1>9. \A s \in qc.sigs : \E j \in DOMAIN votes : s = votes[j].sig
  BY <1>5, <1>7
<1>10. qc \in QuorumCert
  <2>1. \A j \in DOMAIN votes : votes[j] \in Vote
    OBVIOUS
  <2>2. \A j \in DOMAIN votes : /\ votes[j].sig \in Signature /\ votes[j].view \in Nat
                               /\ votes[j].conf \in Nat /\ votes[j].hash \in Hash
    BY <2>1 DEF Vote
  <2>3. qc.sigs \in SUBSET Signature
    BY <1>9, <2>2
  <2>4. QED
    BY <1>6, <1>8, <2>2, <2>3 DEF QuorumCert
<1>11. ASSUME OwnSignatures(votes)
       PROVE  /\ Cardinality(by) >= q /\ Cardinality(qc.sigs) >= q
              /\ \A s, t \in qc.sigs : s.by = t.by => s = t
  <2>1. \A i \in 1 .. q : kept[i].sig.by = kept[i].signer
    BY <1>7, <1>11 DEF OwnSignatures
  <2>2. \A i, j \in 1 .. q : kept[i].sig.by = kept[j].sig.by => i = j
    BY <1>1, <1>7, <2>1 DEF OnePerSigner
  <2>3. IsFiniteSet(1 .. q) /\ Cardinality(1 .. q) = q
    <3>1. 1 \in Int /\ q \in Int
      BY <1>2
    <3>2. QED
      BY <1>2, <3>1, FS_Interval
  <2> DEFINE f == [i \in 1 .. q |-> kept[i].sig]
             g == [i \in 1 .. q |-> kept[i].sig.by]
  <2>4. f \in [1 .. q -> qc.sigs] /\ \A s \in qc.sigs : \E i \in 1 .. q : f[i] = s
    BY <1>5
  <2>5. g \in [1 .. q -> by] /\ \A x \in by : \E i \in 1 .. q : g[i] = x
    BY <1>5
  <2>6. \A i, j \in DOMAIN f : f[i] = f[j] => i = j
    BY <2>2
  <2>7. \A i, j \in DOMAIN g : g[i] = g[j] => i = j
    BY <2>2
  <2> HIDE DEF f, g, by
  <2>8. ExistsBijection(1 .. q, qc.sigs)
    BY <2>4, <2>6 DEF ExistsBijection, Bijection, Injection, IsInjective, Surjection
  <2>9. ExistsBijection(1 .. q, by)
    BY <2>5, <2>7 DEF ExistsBijection, Bijection, Injection, IsInjective, Surjection
  <2>10. Cardinality(qc.sigs) = q /\ Cardinality(by) = q
    BY <2>3, <2>8, <2>9, FS_Bijection
  <2>11. \A s, t \in qc.sigs : s.by = t.by => s = t
    BY <1>5, <2>2
  <2>12. QED
    BY <1>2, <2>10, <2>11
<1>12. QED
  BY <1>8, <1>9, <1>10, <1>11 DEF qc, q

\* Votes for one block, signed by the members who cast them.
Unanimous(votes, c) ==
  \A i \in DOMAIN votes :
    /\ Verify(votes[i]) /\ votes[i].signer \in MemberIds(c)
    /\ votes[i].hash = votes[1].hash

(***************************************************************************)
(* Where QuorumOf finds a quorum, CreateQC makes one certificate, which    *)
(* ValidateQC accepts, provided the votes are verified votes of members    *)
(* for one block: what the engine checks of a vote (HandleVote), and what  *)
(* it does not (the hash).  The list may hold several votes of a signer    *)
(* (quorum.go:69-138, ecdsa_qc.go:15-57).                                  *)
(***************************************************************************)
THEOREM QuorumCertifies ==
  ASSUME NEW votes \in Seq(Vote), NEW c \in Committee,
         Unanimous(votes, c), QuorumOf(votes, c).ok
  PROVE  \E qc : CreateQC(votes, c) = {qc} /\ ValidateQC(qc, c)
<1> DEFINE qc == Certificate(votes, c)
<1>1. HasQuorum(votes, c)
  BY QuorumOfAgrees
<1>2. CreateQC(votes, c) = {qc}
  BY <1>1, CreateQCAgrees
<1>3. \A i \in DOMAIN votes :
        /\ votes[i].sig.by = votes[i].signer /\ votes[i].signer \in MemberIds(c)
        /\ votes[i].sig.hash = votes[1].hash
  <2>1. TAKE i \in DOMAIN votes
  <2>2. /\ Verify(votes[i]) /\ votes[i].signer \in MemberIds(c)
        /\ votes[i].hash = votes[1].hash
    BY DEF Unanimous
  <2>3. votes[i].sig.by = votes[i].signer /\ votes[i].sig.hash = votes[i].hash
    BY <2>2 DEF Verify, Sign
  <2>4. QED
    BY <2>2, <2>3
<1>4. OwnSignatures(votes)
  BY <1>3 DEF OwnSignatures
<1>5. /\ \A s \in qc.sigs : \E j \in DOMAIN votes : s = votes[j].sig
      /\ Cardinality(qc.sigs) >= QuorumSize(c)
      /\ \A s, t \in qc.sigs : s.by = t.by => s = t
  BY <1>1, <1>4, CertificateSigned
<1>6. qc.hash = votes[1].hash
  BY DEF Certificate
<1> HIDE DEF qc
<1>7. \A s \in qc.sigs : s.by \in MemberIds(c) /\ s.hash = qc.hash
  BY <1>3, <1>5, <1>6
<1>8. ValidateQC(qc, c)
  BY <1>5, <1>7 DEF ValidateQC
<1>9. QED
  BY <1>2, <1>8

-----------------------------------------------------------------------------
\* No identity is listed twice.
Distinct(replicas) ==
  \A i, j \in DOMAIN replicas : replicas[i].id = replicas[j].id => i = j

\* Filtering keeps elements of the sequence, each at most once.
LEMMA OnlyDistinct ==
  ASSUME NEW s \in Seq(Member), NEW S, Distinct(s)
  PROVE  Distinct(Only(s, S))
<1> DEFINE e == OnlyEach(s, S)
           From(k, n) == /\ k \in Seq(Member) /\ Distinct(k)
                         /\ \A i \in DOMAIN k : \E j \in 1 .. n : k[i] = s[j]
           T == {n \in Nat : n <= Len(s) => From(e[n], n)}
<1>1. 0 \in T
  <2>1. e[0] = << >>
    BY OnlyEachUnfolds
  <2> HIDE DEF e
  <2>2. From(<< >>, 0)
    BY DEF Distinct
  <2>3. QED
    BY <2>1, <2>2
<1>2. ASSUME NEW n \in Nat, n \in T PROVE n + 1 \in T
  <2>1. SUFFICES ASSUME n + 1 <= Len(s) PROVE From(e[n + 1], n + 1)
    OBVIOUS
  <2>2. From(e[n], n) /\ s[n + 1] \in Member /\ n + 1 \in DOMAIN s /\ 1 .. n \subseteq DOMAIN s
    BY <1>2, <2>1
  <2>3. e[n + 1] = IF s[n + 1] \in S THEN Append(e[n], s[n + 1]) ELSE e[n]
    BY <2>1, OnlyEachUnfolds
  <2> HIDE DEF e
  <2> DEFINE k   == e[n]
             m   == Len(k)
             new == Append(k, s[n + 1])
  <2>4. CASE s[n + 1] \notin S
    <3>1. \A i \in 1 .. n : i \in 1 .. n + 1
      OBVIOUS
    <3>2. QED
      BY <2>2, <2>3, <2>4, <3>1
  <2>5. CASE s[n + 1] \in S
    <3>1. /\ m \in Nat /\ DOMAIN k = 1 .. m /\ DOMAIN new = 1 .. m + 1
          /\ \A i \in 1 .. m : new[i] = k[i]
          /\ new[m + 1] = s[n + 1]
          /\ new \in Seq(Member)
      BY <2>2, AppendProperties
    <3>2. \A i \in 1 .. m : k[i].id # s[n + 1].id
      <4>1. SUFFICES ASSUME NEW i \in 1 .. m, k[i].id = s[n + 1].id PROVE FALSE
        OBVIOUS
      <4>2. PICK j \in 1 .. n : k[i] = s[j]
        BY <2>2, <3>1
      <4>3. j = n + 1
        BY <2>2, <4>1, <4>2 DEF Distinct
      <4>4. QED
        BY <4>3
    <3>3. Distinct(k) /\ \A i \in 1 .. m : \E j \in 1 .. n : k[i] = s[j]
      BY <2>2, <3>1
    <3> HIDE DEF new, m, k
    <3>4. Distinct(new)
      <4>1. SUFFICES ASSUME NEW i \in 1 .. m + 1, NEW j \in 1 .. m + 1, new[i].id = new[j].id
                     PROVE  i = j
        BY <3>1 DEF Distinct
      <4>2. CASE i \in 1 .. m /\ j \in 1 .. m
        BY <3>1, <3>3, <4>1, <4>2 DEF Distinct
      <4>3. CASE i = m + 1 \/ j = m + 1
        BY <3>1, <3>2, <4>1, <4>3
      <4>4. QED
        BY <3>1, <4>2, <4>3
    <3>5. ASSUME NEW i \in 1 .. m + 1 PROVE \E j \in 1 .. n + 1 : new[i] = s[j]
      <4>1. CASE i \in 1 .. m
        <5>1. PICK j \in 1 .. n : k[i] = s[j]
          BY <3>3, <4>1
        <5>2. j \in 1 .. n + 1
          OBVIOUS
        <5>3. QED
          BY <3>1, <4>1, <5>1, <5>2
      <4>2. CASE i = m + 1
        BY <3>1, <4>2
      <4>3. QED
        BY <3>1, <4>1, <4>2
    <3>6. QED
      BY <2>3, <2>5, <3>1, <3>4, <3>5 DEF new, k
  <2>6. QED
    BY <2>4, <2>5
<1>3. Nat \subseteq T
  <2> HIDE DEF T
  <2>1. QED
    BY <1>1, <1>2, InductionOnSet
<1>4. From(e[Len(s)], Len(s))
  BY <1>3
<1>5. QED
  BY <1>4 DEF Only

\* Apply on a single request.
LEMMA ApplySingle ==
  ASSUME NEW c \in Committee, NEW req \in MembershipRequest
  PROVE  LET one == ApplyOne([ok |-> TRUE, replicas |-> c.replicas], req)
         IN  /\ Apply(c, <<req>>).ok = one.ok
             /\ Apply(c, <<req>>).committee.replicas = one.replicas
<1> DEFINE e == ApplyEach(c, <<req>>)
<1>1. <<req>> \in Seq(MembershipRequest) /\ Len(<<req>>) = 1 /\ <<req>>[1] = req
  OBVIOUS
<1>2. e[0] = [ok |-> TRUE, replicas |-> c.replicas] /\ e[1] = ApplyOne(e[0], req)
  <2>1. e[0] = [ok |-> TRUE, replicas |-> c.replicas]
    BY <1>1, ApplyEachUnfolds
  <2>2. \A i \in 1 .. Len(<<req>>) : e[i] = ApplyOne(e[i - 1], <<req>>[i])
    BY <1>1, ApplyEachUnfolds, Zenon
  <2> HIDE DEF e
  <2>3. QED
    BY <1>1, <2>1, <2>2
<1> HIDE DEF e
<1>3. QED
  BY <1>1, <1>2 DEF Apply, NewCommittee, e

(***************************************************************************)
(* A request that passes ValidateMembershipRequest applies, and leaves a   *)
(* committee without duplicates without duplicates; Apply alone does not   *)
(* see to that (request.go:95-136, committee.go:147-203).                  *)
(***************************************************************************)
THEOREM ValidRequestApplies ==
  ASSUME NEW c \in Committee, NEW req \in MembershipRequest,
         ValidateMembershipRequest(req, c), Distinct(c.replicas)
  PROVE  /\ Apply(c, <<req>>).ok
         /\ Distinct(Apply(c, <<req>>).committee.replicas)
<1> DEFINE base == [ok |-> TRUE, replicas |-> c.replicas]
           one  == ApplyOne(base, req)
<1>1. SUFFICES one.ok /\ Distinct(one.replicas)
  BY ApplySingle, Zenon
<1>2. c.replicas \in Seq(Member)
  BY DEF Committee
<1>3. CASE req.type = "REGULAR"
  BY <1>3 DEF ApplyOne, Applicable
<1>4. CASE req.type = "REMOVE"
  <2>1. Applicable(c.replicas, req)
    BY <1>4 DEF ValidateMembershipRequest, MemberIds, Applicable
  <2>2. Distinct(Expel(c.replicas, req))
    BY <1>2, OnlyDistinct DEF Expel
  <2>3. QED
    BY <1>4, <2>1, <2>2 DEF ApplyOne
<1>5. CASE req.type = "ADD"
  <2> DEFINE n   == Len(c.replicas)
             new == Admit(c.replicas, req)
  <2>1. req.wellFormed /\ req.client \notin MemberIds(c)
    BY <1>5 DEF ValidateMembershipRequest
  <2>2. /\ n \in Nat /\ DOMAIN c.replicas = 1 .. n /\ DOMAIN new = 1 .. n + 1
        /\ \A i \in 1 .. n : new[i] = c.replicas[i]
        /\ new[n + 1].id = req.client
    BY <1>2, AppendProperties DEF Admit
  <2>3. \A i \in 1 .. n : c.replicas[i].id # req.client
    BY <2>1, <2>2 DEF MemberIds
  <2>4. one = [ok |-> TRUE, replicas |-> new]
    BY <1>5, <2>1 DEF ApplyOne, Applicable
  <2> HIDE DEF new, n, one
  <2>5. Distinct(new)
    <3>1. SUFFICES ASSUME NEW i \in 1 .. n + 1, NEW j \in 1 .. n + 1, new[i].id = new[j].id
                   PROVE  i = j
      BY <2>2 DEF Distinct
    <3>2. CASE i \in 1 .. n /\ j \in 1 .. n
      BY <2>2, <3>1, <3>2 DEF Distinct
    <3>3. CASE i = n + 1 \/ j = n + 1
      BY <2>2, <2>3, <3>1, <3>3
    <3>4. QED
      BY <2>2, <3>2, <3>3
  <2>6. QED
    BY <2>4, <2>5
<1>6. QED
  BY <1>3, <1>4, <1>5 DEF MembershipRequest, RequestType

(***************************************************************************)
(* The replica that ReplicaFromRequest reads off an ADD request is the one *)
(* that Apply appends (request.go:146-168, committee.go:151-165).          *)
(***************************************************************************)
THEOREM ParsedReplicaAdmitted ==
  ASSUME NEW c \in Committee, NEW req \in MembershipRequest,
         NEW m \in ReplicaFromRequest(req)
  PROVE  Apply(c, <<req>>).committee.replicas = Append(c.replicas, m)
<1>1. req.type = "ADD" /\ req.wellFormed
      /\ m = [id |-> req.client, addr |-> FALSE, key |-> TRUE]
  BY DEF ReplicaFromRequest
<1>2. ApplyOne([ok |-> TRUE, replicas |-> c.replicas], req).replicas = Append(c.replicas, m)
  BY <1>1 DEF ApplyOne, Applicable, Admit
<1>3. QED
  BY <1>2, ApplySingle, Zenon

-----------------------------------------------------------------------------
\* The membership requests of a block can be applied.
LEMMA MembershipRequestsType ==
  ASSUME NEW b \in Block
  PROVE  MembershipRequests(b.batch) \in Seq(MembershipRequest)
<1> DEFINE S == {req \in MembershipRequest : req.type # "REGULAR"}
<1>1. b.batch \in Seq(MembershipRequest)
  BY DEF Block
<1>2. Only(b.batch, S) \in Seq(MembershipRequest \cap S)
  BY <1>1, OnlyType
<1>3. QED
  BY <1>2, SeqMonotonic, MembershipRequest \cap S \subseteq MembershipRequest
     DEF MembershipRequests

(***************************************************************************)
(* Deliver returns a state of a deliverer, whose store continues the one   *)
(* it was called with.                                                     *)
(***************************************************************************)
Continues(new, old) ==
  /\ Len(new) >= Len(old)
  /\ \A i \in DOMAIN old : i \in DOMAIN new /\ new[i] = old[i]

LEMMA DeliverType ==
  ASSUME NEW d \in DelivererState, IsStore(d.configs), NEW b \in Block
  PROVE  /\ Deliver(d, b) \in DelivererState
         /\ IsStore(Deliver(d, b).configs)
         /\ Continues(Deliver(d, b).configs, d.configs)
<1> DEFINE next == NextCommittee(d, b).committee
           new  == Deliver(d, b)
<1>1. new.delivered \in SUBSET Hash
  <2>1. HashBlock(b) \in Hash
    BY DEF Block, HashBlock, Hash
  <2>2. QED
    BY <2>1 DEF Deliver, DelivererState
<1>2. new.executed \in Seq(Block)
  BY DEF Deliver, DelivererState
<1>3. CASE new.configs = d.configs
  <2>1. IsStore(new.configs)
    BY <1>3
  <2>2. Continues(new.configs, d.configs)
    <3>1. Len(d.configs) \in Nat
      BY DEF IsStore
    <3>2. QED
      BY <1>3, <3>1 DEF Continues
  <2>3. new \in DelivererState
    <3>1. new = [configs |-> new.configs, delivered |-> new.delivered,
                 executed |-> new.executed]
      BY DEF Deliver
    <3>2. new.configs \in Seq(Committee)
      BY <2>1 DEF IsStore
    <3> HIDE DEF new
    <3>3. QED
      BY <1>1, <1>2, <3>1, <3>2 DEF DelivererState
  <2>4. QED
    BY <2>1, <2>2, <2>3
<1>4. CASE Installs(d, b)
  <2>1. b.conf \in Nat /\ b.conf < Len(d.configs) /\ next.number = Len(d.configs)
    BY <1>4 DEF Installs, Runs, Installed, Installable, Block
  <2>2. d.configs[b.conf + 1] \in Committee
    BY <2>1 DEF IsStore
  <2>3. next \in Committee
    BY <2>2, MembershipRequestsType, ApplyType DEF NextCommittee, AtNumber
  <2>4. new.configs = Append(d.configs, next)
    BY <1>4 DEF Deliver
  <2> HIDE DEF next
  <2>5. new.configs \in Seq(Committee) /\ Len(new.configs) = Len(d.configs) + 1
        /\ \A i \in 1 .. Len(d.configs) : new.configs[i] = d.configs[i]
        /\ new.configs[Len(d.configs) + 1] = next
        /\ new.configs # << >>
    BY <2>3, <2>4, AppendProperties DEF IsStore
  <2>6. DOMAIN d.configs = 1 .. Len(d.configs) /\ Len(d.configs) \in Nat
        /\ DOMAIN new.configs = 1 .. Len(d.configs) + 1
    BY <2>5 DEF IsStore
  <2>7. \A i \in 1 .. Len(d.configs) : d.configs[i].number = i - 1
    BY <2>6 DEF IsStore
  <2>8. new = [configs |-> new.configs, delivered |-> new.delivered,
               executed |-> new.executed]
    BY DEF Deliver
  <2> HIDE DEF new
  <2>9. IsStore(new.configs)
    <3>1. ASSUME NEW i \in 1 .. Len(d.configs) + 1 PROVE new.configs[i].number = i - 1
      <4>1. CASE i \in 1 .. Len(d.configs)
        BY <2>5, <2>7, <4>1
      <4>2. CASE i = Len(d.configs) + 1
        BY <2>1, <2>5, <2>6, <4>2
      <4>3. QED
        BY <2>6, <4>1, <4>2
    <3>2. QED
      BY <2>5, <2>6, <3>1 DEF IsStore
  <2>10. Continues(new.configs, d.configs)
    BY <2>5, <2>6 DEF Continues
  <2>11. new \in DelivererState
    BY <1>1, <1>2, <2>5, <2>8 DEF DelivererState
  <2>12. QED
    BY <2>9, <2>10, <2>11 DEF new
<1>5. QED
  BY <1>3, <1>4 DEF Deliver

-----------------------------------------------------------------------------
(***************************************************************************)
(* Facts about a deliverer whose store started with so many committees.    *)
(***************************************************************************)

\* A run that did not mark its block had a change that failed.
MarksRuns(d, start) ==
  \A k \in DOMAIN d.executed :
    HashBlock(d.executed[k]) \in d.delivered \/ ChangeFailed(d, k, start)

\* A block that ran again had a change that failed.
RerunsFailed(d, start) ==
  \A i, j \in DOMAIN d.executed :
    i < j /\ HashBlock(d.executed[i]) = HashBlock(d.executed[j])
      => ChangeFailed(d, i, start)

\* A block ran in an installed configuration.
RanInstalled(d) ==
  \A k \in DOMAIN d.executed : Installed(d.configs, d.executed[k].conf)

\* The block e changes the committee of configuration c, and Apply succeeds.
Changes(d, e, c) ==
  e.conf = c /\ ChangesMembership(e) /\ NextCommittee(d, e).ok

\* Every later committee was made by a run in the configuration before it.
ChainedFrom(d, start) ==
  \A n \in DOMAIN d.configs : n > start =>
    \E h \in DOMAIN d.executed : Changes(d, d.executed[h], n - 2)

DelivererSound(d, start) ==
  /\ MarksRuns(d, start) /\ RerunsFailed(d, start)
  /\ RanInstalled(d) /\ ChainedFrom(d, start)

\* The history after a call.
LEMMA DeliverExecutes ==
  ASSUME NEW d \in DelivererState, NEW b \in Block
  PROVE  \/ Deliver(d, b).executed = d.executed
         \/ /\ Runs(d, b)
            /\ Len(Deliver(d, b).executed) = Len(d.executed) + 1
            /\ \A i \in 1 .. Len(d.executed) : Deliver(d, b).executed[i] = d.executed[i]
            /\ Deliver(d, b).executed[Len(d.executed) + 1] = b
            /\ DOMAIN Deliver(d, b).executed = 1 .. Len(d.executed) + 1
<1>1. CASE Runs(d, b)
  <2>1. Deliver(d, b).executed = Append(d.executed, b) /\ d.executed \in Seq(Block)
    BY <1>1 DEF Deliver, DelivererState
  <2>2. QED
    BY <1>1, <2>1, AppendProperties, LenProperties
<1>2. CASE ~Runs(d, b)
  BY <1>2 DEF Deliver
<1>3. QED
  BY <1>1, <1>2

\* The committee a block leads to stays what it is while the store grows.
LEMMA NextCommitteeStable ==
  ASSUME NEW d \in DelivererState, IsStore(d.configs), NEW b \in Block, NEW e \in Block,
         Installed(d.configs, e.conf)
  PROVE  NextCommittee(Deliver(d, b), e) = NextCommittee(d, e)
<1>1. e.conf \in Nat /\ e.conf + 1 \in DOMAIN d.configs
  <2>1. e.conf \in Nat /\ d.configs \in Seq(Committee)
    BY DEF Block, DelivererState
  <2>2. QED
    BY <2>1 DEF Installed
<1>2. Deliver(d, b).configs[e.conf + 1] = d.configs[e.conf + 1]
  BY <1>1, DeliverType DEF Continues
<1>3. QED
  BY <1>2 DEF NextCommittee, AtNumber

\* A change that failed has failed for good.
LEMMA ChangeFailedStable ==
  ASSUME NEW d \in DelivererState, IsStore(d.configs), NEW b \in Block,
         RanInstalled(d), NEW start, NEW k \in DOMAIN d.executed,
         ChangeFailed(d, k, start)
  PROVE  ChangeFailed(Deliver(d, b), k, start)
<1> DEFINE new == Deliver(d, b)
           n   == Len(d.executed)
<1>1. n \in Nat /\ DOMAIN d.executed = 1 .. n /\ d.executed \in Seq(Block)
  BY DEF DelivererState
<1>2. \A h \in 1 .. n : new.executed[h] = d.executed[h]
  BY DeliverExecutes
<1>3. \A h \in 1 .. n : NextCommittee(new, d.executed[h]) = NextCommittee(d, d.executed[h])
  BY <1>1, NextCommitteeStable, ElementOfSeq DEF RanInstalled
<1> HIDE DEF new
<1>4. \A h \in 1 .. k - 1 : h \in 1 .. n
  BY <1>1
<1>5. ChangeFailed(new, k, start)
  BY <1>1, <1>2, <1>3, <1>4 DEF ChangeFailed
<1>6. QED
  BY <1>5 DEF new

\* A block that runs and is not marked has a change that failed.
LEMMA UnmarkedFailed ==
  ASSUME NEW d \in DelivererState, IsStore(d.configs), NEW b \in Block,
         NEW start \in Nat, RanInstalled(d), ChainedFrom(d, start), Runs(d, b),
         ~Marks(d, b)
  PROVE  ChangeFailed(Deliver(d, b), Len(d.executed) + 1, start)
<1> DEFINE new == Deliver(d, b)
           n   == Len(d.executed)
           k   == n + 1
<1>1. /\ n \in Nat /\ DOMAIN d.executed = 1 .. n /\ d.executed \in Seq(Block)
      /\ d.configs \in Seq(Committee)
  BY DEF DelivererState
<1>2. new.executed = Append(d.executed, b)
  BY DEF Deliver
<1>3. new.executed[k] = b /\ \A h \in 1 .. n : new.executed[h] = d.executed[h]
  BY <1>1, <1>2, AppendProperties
<1>4. NextCommittee(new, b) = NextCommittee(d, b)
  BY NextCommitteeStable DEF Runs
<1>5. ChangesMembership(b)
  BY DEF Marks
<1>6. CASE ~NextCommittee(d, b).ok
  <2> HIDE DEF new
  <2>1. ChangeFailed(new, k, start)
    BY <1>3, <1>4, <1>5, <1>6 DEF ChangeFailed
  <2>2. QED
    BY <2>1 DEF new
<1>7. CASE NextCommittee(d, b).ok
  <2>1. ~Installable(d.configs, NextCommittee(d, b).committee)
    BY <1>5, <1>7 DEF Marks, Installs
  <2>2. /\ b.conf \in Nat /\ b.conf + 1 \in DOMAIN d.configs
        /\ d.configs[b.conf + 1] \in Committee /\ d.configs[b.conf + 1].number = b.conf
    BY <1>1 DEF Runs, Installed, Block, IsStore
  <2>3. NextCommittee(d, b).committee.number = b.conf + 1
    BY <2>2, MembershipRequestsType, ApplyType DEF NextCommittee, AtNumber
  <2>4. b.conf + 2 \in DOMAIN d.configs
    BY <1>1, <2>1, <2>2, <2>3 DEF Installable
  <2>5. CASE b.conf + 1 < start
    <3> HIDE DEF new
    <3>1. ChangeFailed(new, k, start)
      BY <1>3, <1>5, <2>5 DEF ChangeFailed
    <3>2. QED
      BY <3>1 DEF new
  <2>6. CASE ~(b.conf + 1 < start)
    <3>1. b.conf + 2 > start /\ (b.conf + 2) - 2 = b.conf
      BY <2>2, <2>6
    <3>2. PICK h \in 1 .. n : Changes(d, d.executed[h], b.conf)
      BY <1>1, <2>4, <3>1 DEF ChainedFrom
    <3>3. NextCommittee(new, d.executed[h]) = NextCommittee(d, d.executed[h])
      BY <1>1, <3>2, NextCommitteeStable, ElementOfSeq DEF RanInstalled
    <3> HIDE DEF new
    <3>4. h \in 1 .. k - 1
      BY <1>1
    <3>5. ChangeFailed(new, k, start)
      BY <1>3, <1>5, <3>2, <3>3, <3>4 DEF ChangeFailed, Changes
    <3>6. QED
      BY <3>5 DEF new
  <2>7. QED
    BY <2>5, <2>6
<1>8. QED
  BY <1>6, <1>7

\* A committee that is installed now was made by the run that ends now.
LEMMA DeliverChained ==
  ASSUME NEW d \in DelivererState, IsStore(d.configs), NEW b \in Block,
         NEW start \in Nat, RanInstalled(d), ChainedFrom(d, start)
  PROVE  ChainedFrom(Deliver(d, b), start)
<1> DEFINE new == Deliver(d, b)
           n   == Len(d.executed)
           m   == Len(d.configs)
<1>1. /\ n \in Nat /\ DOMAIN d.executed = 1 .. n /\ d.executed \in Seq(Block)
      /\ m \in Nat /\ DOMAIN d.configs = 1 .. m /\ d.configs \in Seq(Committee)
  BY DEF DelivererState
<1>2. \A h \in 1 .. n : h \in DOMAIN new.executed /\ new.executed[h] = d.executed[h]
  <2>1. DOMAIN d.executed \subseteq DOMAIN new.executed
    BY <1>1, DeliverExecutes
  <2>2. QED
    BY <1>1, <2>1, DeliverExecutes
<1>3. ASSUME NEW i \in 1 .. m, i > start
      PROVE  \E h \in DOMAIN new.executed : Changes(new, new.executed[h], i - 2)
  <2>1. PICK h \in 1 .. n : Changes(d, d.executed[h], i - 2)
    BY <1>1, <1>3 DEF ChainedFrom
  <2>2. NextCommittee(new, d.executed[h]) = NextCommittee(d, d.executed[h])
    BY <1>1, NextCommitteeStable, ElementOfSeq DEF RanInstalled
  <2> HIDE DEF new
  <2>3. QED
    BY <1>2, <2>1, <2>2 DEF Changes
<1>4. CASE new.configs = d.configs
  <2> HIDE DEF new
  <2>1. ChainedFrom(new, start)
    BY <1>1, <1>3, <1>4 DEF ChainedFrom
  <2>2. QED
    BY <2>1 DEF new
<1>5. CASE Installs(d, b)
  <2>1. /\ Runs(d, b) /\ ChangesMembership(b) /\ NextCommittee(d, b).ok
        /\ NextCommittee(d, b).committee.number = m
    BY <1>5 DEF Installs, Installable
  <2>2. NextCommittee(d, b).committee.number = b.conf + 1 /\ b.conf \in Nat
    <3>1. /\ b.conf \in Nat /\ b.conf + 1 \in DOMAIN d.configs
          /\ d.configs[b.conf + 1] \in Committee /\ d.configs[b.conf + 1].number = b.conf
      BY <1>1, <2>1 DEF Runs, Installed, Block, IsStore
    <3>2. QED
      BY <3>1, MembershipRequestsType, ApplyType DEF NextCommittee, AtNumber
  <2>3. NextCommittee(new, b) = NextCommittee(d, b)
    BY <2>1, NextCommitteeStable DEF Runs
  <2>4. new.executed = Append(d.executed, b)
    BY <2>1 DEF Deliver
  <2>5. n + 1 \in DOMAIN new.executed /\ new.executed[n + 1] = b
    BY <1>1, <2>4, AppendProperties
  <2>6. Len(new.configs) = m + 1 /\ new.configs \in Seq(Committee)
    <3>1. new.configs \in Seq(Committee)
      BY DeliverType DEF DelivererState
    <3> DEFINE next == NextCommittee(d, b).committee
    <3>2. new.configs = Append(d.configs, next)
      BY <1>5 DEF Deliver
    <3> HIDE DEF next, new
    <3>3. QED
      BY <1>1, <3>1, <3>2
  <2>7. b.conf = (m + 1) - 2
    BY <1>1, <2>1, <2>2
  <2> HIDE DEF new
  <2>8. Changes(new, new.executed[n + 1], (m + 1) - 2)
    BY <2>1, <2>3, <2>5, <2>7 DEF Changes
  <2>9. ASSUME NEW i \in DOMAIN new.configs, i > start
        PROVE  \E h \in DOMAIN new.executed : Changes(new, new.executed[h], i - 2)
    <3>1. i \in 1 .. m \/ i = m + 1
      BY <1>1, <2>6
    <3>2. QED
      BY <1>3, <2>5, <2>8, <2>9, <3>1
  <2>10. ChainedFrom(new, start)
    BY <2>9 DEF ChainedFrom
  <2>11. QED
    BY <2>10 DEF new
<1>6. QED
  BY <1>4, <1>5 DEF Deliver

\* A call keeps the facts.
LEMMA DeliverKeeps ==
  ASSUME NEW d \in DelivererState, IsStore(d.configs), NEW b \in Block,
         NEW start \in Nat, DelivererSound(d, start)
  PROVE  DelivererSound(Deliver(d, b), start)
<1> DEFINE new == Deliver(d, b)
           n   == Len(d.executed)
<1>1. n \in Nat /\ DOMAIN d.executed = 1 .. n /\ d.executed \in Seq(Block)
  BY DEF DelivererState
<1>2. d.delivered \subseteq new.delivered
  BY DEF Deliver
<1>3. Len(new.configs) \in Nat /\ Len(d.configs) \in Nat
        /\ Len(new.configs) >= Len(d.configs)
  BY DeliverType DEF Continues, DelivererState
<1>4. \A c \in Nat : Installed(d.configs, c) => Installed(new.configs, c)
  BY <1>3 DEF Installed
<1>5. \A k \in 1 .. n : d.executed[k].conf \in Nat
  <2>1. \A k \in 1 .. n : d.executed[k] \in Block
    BY <1>1, ElementOfSeq
  <2>2. QED
    BY <2>1 DEF Block
<1>6. \A k \in 1 .. n : ChangeFailed(d, k, start) => ChangeFailed(new, k, start)
  BY <1>1, ChangeFailedStable DEF DelivererSound
<1>7. ChainedFrom(new, start)
  BY DeliverChained DEF DelivererSound
<1>8. CASE new.executed = d.executed
  <2> HIDE DEF new
  <2>1. MarksRuns(new, start) /\ RerunsFailed(new, start) /\ RanInstalled(new)
    BY <1>1, <1>2, <1>4, <1>5, <1>6, <1>8
       DEF DelivererSound, MarksRuns, RerunsFailed, RanInstalled
  <2>2. QED
    BY <1>7, <2>1 DEF DelivererSound, new
<1>9. CASE /\ Runs(d, b)
           /\ Len(new.executed) = n + 1
           /\ \A i \in 1 .. n : new.executed[i] = d.executed[i]
           /\ new.executed[n + 1] = b
           /\ DOMAIN new.executed = 1 .. n + 1
  <2>1. HashBlock(b) \in new.delivered \/ ChangeFailed(new, n + 1, start)
    <3>1. CASE Marks(d, b)
      BY <3>1 DEF Deliver
    <3>2. CASE ~Marks(d, b)
      BY <1>9, <3>2, UnmarkedFailed DEF DelivererSound
    <3>3. QED
      BY <3>1, <3>2
  <2>2. HashBlock(b) \notin d.delivered /\ Installed(new.configs, b.conf)
    BY <1>4, <1>9 DEF Runs, Block
  <2> HIDE DEF new
  <2>3. MarksRuns(new, start)
    <3>1. ASSUME NEW k \in 1 .. n + 1
          PROVE  HashBlock(new.executed[k]) \in new.delivered \/ ChangeFailed(new, k, start)
      <4>1. CASE k = n + 1
        BY <1>9, <2>1, <4>1
      <4>2. CASE k \in 1 .. n
        BY <1>1, <1>2, <1>6, <1>9, <4>2 DEF DelivererSound, MarksRuns
      <4>3. QED
        BY <1>1, <4>1, <4>2
    <3>2. QED
      BY <1>9, <3>1 DEF MarksRuns
  <2>4. RanInstalled(new)
    BY <1>1, <1>4, <1>5, <1>9, <2>2 DEF DelivererSound, RanInstalled
  <2>5. ASSUME NEW i \in 1 .. n + 1, NEW j \in 1 .. n + 1, i < j,
               HashBlock(new.executed[i]) = HashBlock(new.executed[j])
        PROVE  ChangeFailed(new, i, start)
    <3>1. i \in 1 .. n /\ new.executed[i] = d.executed[i]
      BY <1>1, <1>9, <2>5
    <3>2. ChangeFailed(d, i, start)
      <4>1. CASE j \in 1 .. n
        BY <1>1, <1>9, <2>5, <3>1, <4>1 DEF DelivererSound, RerunsFailed
      <4>2. CASE j = n + 1
        BY <1>1, <1>9, <2>2, <2>5, <3>1, <4>2 DEF DelivererSound, MarksRuns
      <4>3. QED
        BY <1>1, <4>1, <4>2
    <3>3. QED
      BY <1>6, <3>1, <3>2
  <2>6. RerunsFailed(new, start)
    BY <1>9, <2>5 DEF RerunsFailed
  <2>7. QED
    BY <1>7, <2>3, <2>4, <2>6 DEF DelivererSound, new
<1>10. QED
  BY <1>8, <1>9, DeliverExecutes
=============================================================================
