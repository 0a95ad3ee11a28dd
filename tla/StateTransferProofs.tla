------------------------ MODULE StateTransferProofs -------------------------
(***************************************************************************)
(* State transfer, for every committee, every chain its members execute    *)
(* and every interleaving of answers, failures and deadlines.              *)
(*                                                                         *)
(* The theorems say what they need of the world outside the calls: that    *)
(* the committee lists nobody twice (Apply would, for an ADD of a member), *)
(* and that the blocks the members agree on do not go down in height (they *)
(* may when proposals are handled out of order, see reordered_delivery).   *)
(***************************************************************************)
EXTENDS StateTransfer, MembershipProofs

ListedOnce == \A i, j \in Place : IdAt(i) = IdAt(j) => i = j

Ascending == \A k, l \in DOMAIN Common : k <= l => Common[k].height <= Common[l].height

-----------------------------------------------------------------------------
\* No member has executed more than its chain, or answered with more than it has executed.
HeightsBounded == \A r \in Members : height[r] <= Len(Chain[r])

AnswersPast ==
  \A i \in Place : reply[i].state = "ok" => reply[i].height <= height[IdAt(i)]

HeardAnswered == \A i \in ToSet(heard) : reply[i].state # "waiting"

TypeInv == TypeOK /\ HeightsBounded /\ AnswersPast /\ HeardAnswered

-----------------------------------------------------------------------------
(***************************************************************************)
(* The committee, in numbers.                                              *)
(***************************************************************************)
LEMMA AskedSize ==
  LET n == Len(Asked.replicas)
      f == Asked.faultCap
  IN  /\ n \in Nat /\ n > 0 /\ Place = 1 .. n
      /\ f \in Nat /\ 3 * f + 1 <= n /\ n <= 3 * f + 3
      /\ QuorumSize(Asked) \in Nat /\ 2 * QuorumSize(Asked) >= n + f + 1
<1> DEFINE n == Len(Asked.replicas)
           f == Asked.faultCap
<1>1. Asked.replicas \in Seq(Member) /\ n \in Nat /\ n > 0 /\ Place = 1 .. n
  BY StateTransferAssumption DEF Committee, Place
<1>2. f = (n - 1) \div 3
  BY <1>1, StateTransferAssumption DEF FaultCap
<1>3. f \in Nat /\ 3 * f + 1 <= n /\ n <= 3 * f + 3
  <2>1. \A m \in Nat : m > 0 =>
          /\ (m - 1) \div 3 \in Nat
          /\ 3 * ((m - 1) \div 3) + 1 <= m /\ m <= 3 * ((m - 1) \div 3) + 3
    OBVIOUS
  <2> HIDE DEF n, f
  <2>2. QED
    BY <1>1, <1>2, <2>1
<1>4. QuorumSize(Asked) \in Nat /\ 2 * QuorumSize(Asked) >= n + f + 1
  BY <1>1, <1>3 DEF QuorumSize
<1>5. QED
  BY <1>1, <1>3, <1>4

LEMMA IdAtType == \A i \in Place : IdAt(i) \in Members
BY DEF Place, IdAt, Members, MemberIds

LEMMA MembersFinite ==
  /\ IsFiniteSet(Members) /\ Cardinality(Members) \in Nat
  /\ Cardinality(Members) <= Len(Asked.replicas)
  /\ \A S \in SUBSET Members :
       IsFiniteSet(S) /\ Cardinality(S) \in Nat /\ Cardinality(S) <= Cardinality(Members)
<1>1. Asked \in Committee
  BY StateTransferAssumption
<1>2. IsFiniteSet(Members) /\ Cardinality(Members) <= Len(Asked.replicas)
  BY <1>1, MemberCount DEF Members
<1>3. ASSUME NEW S \in SUBSET Members
      PROVE  IsFiniteSet(S) /\ Cardinality(S) \in Nat /\ Cardinality(S) <= Cardinality(Members)
  BY <1>2, FS_Subset, FS_CardinalityType
<1>4. QED
  BY <1>2, <1>3, FS_CardinalityType

\* Places heard once each are as many members, when nobody is listed twice.
LEMMA AsManyMembers ==
  ASSUME ListedOnce, NEW places \in Seq(Place), IsInjective(places),
         NEW K \in SUBSET DOMAIN places
  PROVE  LET ids == {IdAt(places[k]) : k \in K}
         IN  /\ ids \in SUBSET Members /\ IsFiniteSet(K)
             /\ Cardinality(K) \in Nat /\ Cardinality(ids) = Cardinality(K)
<1> DEFINE ids == {IdAt(places[k]) : k \in K}
           f == [k \in K |-> IdAt(places[k])]
<1>1. \A k \in K : places[k] \in Place
  OBVIOUS
<1>2. ids \in SUBSET Members
  BY <1>1, IdAtType
<1>3. IsFiniteSet(K)
  <2>1. Len(places) \in Int /\ 1 \in Int /\ DOMAIN places = 1 .. Len(places)
    OBVIOUS
  <2>2. QED
    BY <2>1, FS_Interval, FS_Subset
<1>4. \A k, l \in K : f[k] = f[l] => k = l
  BY <1>1 DEF ListedOnce, IsInjective
<1>5. f \in Injection(K, ids) /\ f \in Surjection(K, ids)
  BY <1>4 DEF Injection, Surjection, IsInjective
<1>6. Cardinality(ids) = Cardinality(K)
  BY <1>3, <1>5, FS_Surjection
<1>7. QED
  BY <1>2, <1>3, <1>6, FS_CardinalityType

-----------------------------------------------------------------------------
(***************************************************************************)
(* The first of the greatest: what a tally that replaces its candidate by  *)
(* strictly better ones ends with.                                         *)
(***************************************************************************)
LEMMA FirstOfGreatest ==
  ASSUME NEW n \in Nat, NEW W \in SUBSET (1 .. n), W # {}, NEW g \in [W -> Nat]
  PROVE  \E k \in W : \A l \in W : g[k] > g[l] \/ (g[k] = g[l] /\ k <= l)
<1> DEFINE First(V, k) == \A l \in V : g[k] > g[l] \/ (g[k] = g[l] /\ k <= l)
           V(m) == W \cap 1 .. m
           T == {m \in Nat : V(m) = {} \/ \E k \in V(m) : First(V(m), k)}
<1>1. 0 \in T
  OBVIOUS
<1>2. ASSUME NEW m \in Nat, m \in T PROVE m + 1 \in T
  <2>1. V(m + 1) = IF m + 1 \in W THEN V(m) \cup {m + 1} ELSE V(m)
    OBVIOUS
  <2>2. CASE m + 1 \notin W
    BY <1>2, <2>1, <2>2
  <2>3. CASE m + 1 \in W /\ V(m) = {}
    BY <2>1, <2>3
  <2>4. CASE m + 1 \in W /\ V(m) # {}
    <3>1. PICK k \in V(m) : First(V(m), k)
      BY <1>2, <2>4
    <3>2. k \in W /\ k \in Nat /\ k <= m /\ g[k] \in Nat /\ g[m + 1] \in Nat
      BY <2>4
    <3>3. \A l \in V(m) : l \in W /\ g[l] \in Nat
      OBVIOUS
    <3>4. CASE g[m + 1] > g[k]
      <4>1. First(V(m + 1), m + 1)
        BY <2>1, <2>4, <3>1, <3>2, <3>3, <3>4
      <4>2. QED
        BY <2>1, <2>4, <4>1
    <3>5. CASE g[m + 1] <= g[k]
      <4>1. First(V(m + 1), k)
        BY <2>1, <2>4, <3>1, <3>2, <3>3, <3>5
      <4>2. QED
        BY <2>1, <2>4, <4>1
    <3>6. QED
      BY <3>2, <3>4, <3>5
  <2>5. QED
    BY <2>2, <2>3, <2>4
<1>3. n \in T
  <2> HIDE DEF T
  <2>1. Nat \subseteq T
    BY <1>1, <1>2, InductionOnSet
  <2>2. QED
    BY <2>1
<1>4. V(n) = W
  OBVIOUS
<1>5. QED
  BY <1>3, <1>4

-----------------------------------------------------------------------------
(***************************************************************************)
(* What an answer holds, and what a tally of answers returns.              *)
(***************************************************************************)
LEMMA ChainType ==
  \A r \in Members : Chain[r] \in Seq(Block) /\ Len(Chain[r]) \in Nat
BY StateTransferAssumption

LEMMA BlocksAre ==
  ASSUME TypeInv, NEW i \in Place, reply[i].state = "ok"
  PROVE  /\ reply[i].height \in Nat /\ reply[i].height <= Len(Chain[IdAt(i)])
         /\ Blocks(i) \in Seq(Block) /\ Len(Blocks(i)) = reply[i].height
         /\ \A k \in 1 .. reply[i].height : Blocks(i)[k] = Chain[IdAt(i)][k]
<1> DEFINE r == IdAt(i)
           h == reply[i].height
<1>1. r \in Members /\ Chain[r] \in Seq(Block) /\ Len(Chain[r]) \in Nat
  BY IdAtType, ChainType
<1>2. h \in Nat /\ h <= height[r] /\ height[r] \in Nat /\ height[r] <= Len(Chain[r])
  BY <1>1 DEF TypeInv, TypeOK, Reply, AnswersPast, HeightsBounded
<1>3. h <= Len(Chain[r])
  BY <1>1, <1>2
<1>4. \A k \in 1 .. h : Chain[r][k] \in Block
  BY <1>1, <1>2, <1>3
<1> HIDE DEF h, r
<1>5. /\ SubSeq(Chain[r], 1, h) \in Seq(Block)
      /\ Len(SubSeq(Chain[r], 1, h)) = h
      /\ \A k \in 1 .. h : SubSeq(Chain[r], 1, h)[k] = Chain[r][k]
  <2>1. 1 \in Int /\ h \in Int /\ h - 1 + 1 = h
    BY <1>2
  <2>2. /\ SubSeq(Chain[r], 1, h) \in Seq(Block)
        /\ Len(SubSeq(Chain[r], 1, h)) = IF 1 <= h THEN h - 1 + 1 ELSE 0
        /\ \A k \in 1 .. h - 1 + 1 : SubSeq(Chain[r], 1, h)[k] = Chain[r][1 + k - 1]
    BY <1>4, <2>1, SubSeqProperties
  <2>3. \A k \in 1 .. h : 1 + k - 1 = k
    OBVIOUS
  <2>4. QED
    BY <1>2, <2>1, <2>2, <2>3
<1>6. QED
  BY <1>2, <1>3, <1>5 DEF Blocks, h, r

\* Histories of one hash are as long as each other.
LEMMA SameHashSameLength ==
  ASSUME NEW a \in Seq(Block), NEW b \in Seq(Block), HistoryHash(a) = HistoryHash(b)
  PROVE  Len(a) = Len(b)
<1>1. DOMAIN HistoryHash(a) = DOMAIN a /\ DOMAIN HistoryHash(b) = DOMAIN b
  BY DEF HistoryHash
<1>2. DOMAIN a = DOMAIN b
  BY <1>1
<1>3. /\ Len(a) \in Nat /\ DOMAIN a = 1 .. Len(a)
      /\ Len(b) \in Nat /\ DOMAIN b = 1 .. Len(b)
  OBVIOUS
<1>4. \A m, n \in Nat : 1 .. m = 1 .. n => m = n
  <2>1. SUFFICES ASSUME NEW m \in Nat, NEW n \in Nat, 1 .. m = 1 .. n, m < n PROVE FALSE
    OBVIOUS
  <2>2. n \in 1 .. n /\ n \notin 1 .. m
    BY <2>1
  <2>3. QED
    BY <2>1, <2>2
<1>5. QED
  BY <1>2, <1>3, <1>4

LEMMA PlacesHeard ==
  ASSUME NEW places \in Seq(Place)
  PROVE  /\ Len(places) \in Nat /\ DOMAIN places = 1 .. Len(places)
         /\ \A k \in DOMAIN places : places[k] \in Place
         /\ Good(places) \subseteq DOMAIN places
         /\ \A k \in Good(places) : reply[places[k]].state = "ok"
BY DEF Good

LEMMA AgreedHistoryIs ==
  ASSUME NEW places \in Seq(Place), Agreed(places) # {}
  PROVE  \E k \in Agreed(places) : AgreedHistory(places) = Blocks(places[k])
<1> DEFINE W == Agreed(places)
           g == [k \in W |-> 0]
<1>1. Len(places) \in Nat /\ W \in SUBSET (1 .. Len(places)) /\ g \in [W -> Nat]
  BY PlacesHeard DEF Agreed
<1>2. \E k \in W : \A l \in W : g[k] > g[l] \/ (g[k] = g[l] /\ k <= l)
  <2> HIDE DEF W, g
  <2>1. QED
    BY <1>1, FirstOfGreatest DEF W
<1>3. \E k \in W : \A l \in W : k <= l
  BY <1>2
<1>4. (CHOOSE k \in W : \A l \in W : k <= l) \in W
  BY <1>3
<1>5. QED
  BY <1>4 DEF AgreedHistory

LEMMA BestIs ==
  ASSUME TypeInv, NEW places \in Seq(Place), NEW k \in WithBlocks(places)
  PROVE  LET i == places[k]
         IN  /\ i \in Place /\ reply[i].state = "ok" /\ IdAt(i) \in Members
             /\ reply[i].height \in 1 .. Len(Chain[IdAt(i)])
             /\ Best(i) = Chain[IdAt(i)][reply[i].height]
             /\ Best(i) \in Block /\ Best(i).height \in Nat
<1> DEFINE i == places[k]
<1>1. i \in Place /\ reply[i].state = "ok" /\ reply[i].height > 0
  BY PlacesHeard DEF WithBlocks
<1>2. IdAt(i) \in Members /\ Chain[IdAt(i)] \in Seq(Block)
  BY <1>1, IdAtType, ChainType
<1> HIDE DEF i
<1>3. /\ reply[i].height \in 1 .. Len(Chain[IdAt(i)])
      /\ Best(i) = Chain[IdAt(i)][reply[i].height]
  <2>1. /\ reply[i].height \in Nat /\ reply[i].height <= Len(Chain[IdAt(i)])
        /\ Len(Blocks(i)) = reply[i].height
        /\ \A l \in 1 .. reply[i].height : Blocks(i)[l] = Chain[IdAt(i)][l]
    BY <1>1, BlocksAre
  <2>2. Best(i) = Blocks(i)[reply[i].height]
    BY <2>1 DEF Best, Last
  <2>3. QED
    BY <1>1, <1>2, <2>1, <2>2, ChainType
<1>4. Best(i) \in Block
  BY <1>2, <1>3
<1>5. QED
  BY <1>1, <1>2, <1>3, <1>4 DEF i, Block

LEMMA BestBlockIs ==
  ASSUME TypeInv, NEW places \in Seq(Place), WithBlocks(places) # {}
  PROVE  \E k \in WithBlocks(places) :
           /\ BestBlock(places) = Best(places[k])
           /\ \A l \in WithBlocks(places) : Best(places[l]).height <= Best(places[k]).height
<1> DEFINE W == WithBlocks(places)
           g == [k \in W |-> Best(places[k]).height]
           Beats(k, l) == Best(places[k]).height > Best(places[l]).height
                            \/ (Best(places[k]).height = Best(places[l]).height /\ k <= l)
<1>1. \A k \in W : Best(places[k]).height \in Nat
  BY BestIs
<1>2. Len(places) \in Nat /\ W \in SUBSET (1 .. Len(places)) /\ g \in [W -> Nat]
  BY <1>1, PlacesHeard DEF WithBlocks
<1>3. \E k \in W : \A l \in W : g[k] > g[l] \/ (g[k] = g[l] /\ k <= l)
  <2> HIDE DEF W, g
  <2>1. QED
    BY <1>2, FirstOfGreatest DEF W
<1>4. \E k \in W : \A l \in W : Beats(k, l)
  BY <1>3
<1> DEFINE best == CHOOSE k \in W : \A l \in W : Beats(k, l)
<1>5. best \in W /\ \A l \in W : Beats(best, l)
  <2> HIDE DEF W, Beats
  <2>1. QED
    BY <1>4
<1>6. BestBlock(places) = Best(places[best])
  BY DEF BestBlock
<1>7. \A l \in W : Best(places[l]).height <= Best(places[best]).height
  <2> HIDE DEF best, W
  <2>1. QED
    BY <1>1, <1>5
<1>8. QED
  BY <1>5, <1>6, <1>7

-----------------------------------------------------------------------------
\* There is a greatest height that a quorum has executed up to.
LEMMA CoveredNowIs ==
  ASSUME TypeOK
  PROVE  /\ CoveredNow \in 0 .. Len(Common)
         /\ CoveredNow = 0
              \/ Cardinality({r \in Members : height[r] >= CoveredNow}) >= QuorumSize(Asked)
<1> DEFINE Done(h) == {r \in Members : height[r] >= h}
           Reached(h) == h = 0 \/ Cardinality(Done(h)) >= QuorumSize(Asked)
           Ends(h) == h = Len(Common) \/ Cardinality(Done(h + 1)) < QuorumSize(Asked)
           T == {n \in Nat : n <= Len(Common) =>
                   Reached(n) \/ \E h \in 0 .. n : h < Len(Common) /\ Reached(h) /\ Ends(h)}
<1>1. Len(Common) \in Nat
  BY StateTransferAssumption
<1>2. \A h : Cardinality(Done(h)) \in Nat
  BY MembersFinite
<1>3. 0 \in T
  OBVIOUS
<1>4. ASSUME NEW n \in Nat, n \in T PROVE n + 1 \in T
  <2>1. ASSUME n + 1 <= Len(Common), Reached(n), ~Reached(n + 1) PROVE n < Len(Common) /\ Ends(n)
    <3>1. n < Len(Common)
      BY <1>1, <2>1
    <3>2. ~(Cardinality(Done(n + 1)) >= QuorumSize(Asked))
      BY <2>1
    <3>3. Cardinality(Done(n + 1)) \in Nat /\ QuorumSize(Asked) \in Nat
      BY <1>2, AskedSize
    <3>4. Cardinality(Done(n + 1)) < QuorumSize(Asked)
      BY <3>2, <3>3
    <3>5. QED
      BY <3>1, <3>4
  <2> HIDE DEF Reached, Ends
  <2>2. ASSUME n + 1 <= Len(Common), ~Reached(n + 1)
        PROVE  \E h \in 0 .. n + 1 : h < Len(Common) /\ Reached(h) /\ Ends(h)
    <3>1. CASE Reached(n)
      <4>1. n \in 0 .. n + 1
        OBVIOUS
      <4>2. QED
        BY <2>1, <2>2, <3>1, <4>1
    <3>2. CASE ~Reached(n)
      <4>1. n <= Len(Common)
        BY <1>1, <2>2
      <4>2. PICK h \in 0 .. n : h < Len(Common) /\ Reached(h) /\ Ends(h)
        BY <1>4, <3>2, <4>1
      <4>3. h \in 0 .. n + 1
        OBVIOUS
      <4>4. QED
        BY <4>2, <4>3
    <3>3. QED
      BY <3>1, <3>2
  <2>3. QED
    BY <2>2
<1>5. \E h \in 0 .. Len(Common) : Reached(h) /\ Ends(h)
  <2>1. Len(Common) \in T
    <3> HIDE DEF T
    <3>1. Nat \subseteq T
      BY <1>3, <1>4, InductionOnSet
    <3>2. QED
      BY <1>1, <3>1
  <2>2. Ends(Len(Common))
    OBVIOUS
  <2> HIDE DEF Reached, Ends
  <2>3. QED
    BY <1>1, <2>1, <2>2
<1>6. CoveredNow = CHOOSE h \in 0 .. Len(Common) : Reached(h) /\ Ends(h)
  BY DEF CoveredNow
<1>7. CoveredNow \in 0 .. Len(Common) /\ Reached(CoveredNow)
  <2> HIDE DEF Reached, Ends
  <2>1. QED
    BY <1>5, <1>6
<1>8. QED
  BY <1>7

-----------------------------------------------------------------------------
(***************************************************************************)
(* Type correctness.                                                       *)
(***************************************************************************)
LEMMA NoRepliesType ==
  /\ NoReplies \in [Place -> Reply] /\ << >> \in Seq(Place)
  /\ IsInjective(<< >>) /\ ToSet(<< >>) = {} /\ Len(<< >>) < Len(Asked.replicas)
BY AskedSize DEF NoReplies, Reply, IsInjective, ToSet

LEMMA InitTypeInv == Init => TypeInv
<1> SUFFICES ASSUME Init PROVE TypeInv
  OBVIOUS
<1>1. NoResult \in Result
  BY DEF NoResult, Result
<1>2. 0 \in 0 .. Len(Common)
  BY StateTransferAssumption
<1>3. TypeOK
  BY <1>1, <1>2, NoRepliesType, StateTransferAssumption DEF Init, TypeOK
<1>4. HeightsBounded /\ AnswersPast /\ HeardAnswered
  BY NoRepliesType, StateTransferAssumption
     DEF Init, HeightsBounded, AnswersPast, HeardAnswered, NoReplies
<1>5. QED
  BY <1>3, <1>4 DEF TypeInv

\* What taking an answer from the channel makes of what was heard.
LEMMA HeardIs ==
  ASSUME TypeInv, NEW i \in Place, Available(i)
  PROVE  /\ Heard(i) \in Seq(Place) /\ IsInjective(Heard(i))
         /\ Len(Heard(i)) = Len(heard) + 1 /\ Len(Heard(i)) <= Len(Asked.replicas)
         /\ ToSet(Heard(i)) = ToSet(heard) \cup {i}
         /\ \A k \in DOMAIN Heard(i) : reply[Heard(i)[k]].state # "waiting"
<1>1. /\ heard \in Seq(Place) /\ IsInjective(heard)
      /\ Len(heard) \in Nat /\ Len(heard) < Len(Asked.replicas)
  BY DEF TypeInv, TypeOK
<1>2. i \notin ToSet(heard) /\ reply[i].state # "waiting"
  BY DEF Available
<1>3. /\ Heard(i) \in Seq(Place) /\ Len(Heard(i)) = Len(heard) + 1
      /\ DOMAIN Heard(i) = 1 .. Len(heard) + 1 /\ DOMAIN heard = 1 .. Len(heard)
      /\ \A k \in DOMAIN Heard(i) : Heard(i)[k] = IF k = Len(heard) + 1 THEN i ELSE heard[k]
  BY <1>1 DEF Heard
<1>4. \A k \in DOMAIN heard : heard[k] # i
  BY <1>2 DEF ToSet
<1>5. \A k \in DOMAIN Heard(i) : k = Len(heard) + 1 \/ k \in DOMAIN heard
  BY <1>1, <1>3
<1>6. IsInjective(Heard(i))
  BY <1>1, <1>3, <1>4, <1>5 DEF IsInjective
<1>7. ToSet(Heard(i)) = ToSet(heard) \cup {i}
  <2>1. Len(heard) + 1 \in DOMAIN Heard(i) /\ DOMAIN heard \subseteq DOMAIN Heard(i)
    BY <1>1, <1>3
  <2>2. \A k \in DOMAIN heard : k # Len(heard) + 1
    BY <1>1, <1>3
  <2>3. QED
    BY <1>3, <1>5, <2>1, <2>2 DEF ToSet
<1>8. \A k \in DOMAIN Heard(i) : reply[Heard(i)[k]].state # "waiting"
  <2>1. \A k \in DOMAIN heard : reply[heard[k]].state # "waiting"
    BY DEF TypeInv, HeardAnswered, ToSet
  <2>2. QED
    BY <1>2, <1>3, <1>5, <2>1
<1>9. Len(Heard(i)) <= Len(Asked.replicas)
  BY <1>1, <1>3, AskedSize
<1>10. QED
  BY <1>3, <1>6, <1>7, <1>8, <1>9

\* A step that starts a fan-out or ends one.
LEMMA RestartKeepsTypes ==
  ASSUME TypeInv, UNCHANGED height, reply' = NoReplies, heard' = << >>,
         call' \in Call \cup {"idle"}, result' \in Result,
         covered' \in 0 .. Len(Common), disturbed' \in BOOLEAN
  PROVE  TypeInv'
<1>1. TypeOK'
  BY NoRepliesType DEF TypeInv, TypeOK
<1>2. HeightsBounded' /\ AnswersPast' /\ HeardAnswered'
  BY NoRepliesType DEF TypeInv, HeightsBounded, AnswersPast, HeardAnswered, NoReplies
<1>3. QED
  BY <1>1, <1>2 DEF TypeInv

LEMMA ExecuteKeepsTypes ==
  ASSUME TypeInv, NEW r \in Members, Execute(r)
  PROVE  TypeInv'
<1>1. /\ height[r] < Len(Chain[r]) /\ height' = [height EXCEPT ![r] = height[r] + 1]
      /\ disturbed' = TRUE
      /\ UNCHANGED <<call, reply, heard, result, covered>>
  BY DEF Execute, askVars
<1>2. \A s \in Members : height[s] \in Nat /\ height'[s] = IF s = r THEN height[s] + 1 ELSE height[s]
  BY <1>1 DEF TypeInv, TypeOK
<1>3. TypeOK'
  BY <1>1, <1>2 DEF TypeInv, TypeOK
<1>4. HeightsBounded'
  BY <1>1, <1>2, ChainType DEF TypeInv, HeightsBounded
<1>5. AnswersPast'
  BY <1>1, <1>2, IdAtType DEF TypeInv, TypeOK, Reply, AnswersPast
<1>6. HeardAnswered'
  BY <1>1 DEF TypeInv, HeardAnswered
<1>7. QED
  BY <1>3, <1>4, <1>5, <1>6 DEF TypeInv

LEMMA BeginKeepsTypes ==
  ASSUME TypeInv, RequestHistory \/ RequestUpdate \/ \E c \in 0 .. MaxConf : SyncIfBehind(c)
  PROVE  TypeInv'
<1>1. UNCHANGED height /\ covered' \in 0 .. Len(Common) /\ disturbed' \in BOOLEAN
  BY CoveredNowIs DEF RequestHistory, RequestUpdate, SyncIfBehind, Begin, TypeInv
<1>2. NoResult \in Result /\ [of |-> "sync", ok |-> TRUE, blocks |-> << >>] \in Result
  BY DEF NoResult, Result
<1>3. CASE \E c \in Call : FanOut(c) /\ result' = NoResult
  BY <1>1, <1>2, <1>3, RestartKeepsTypes DEF FanOut
<1>4. CASE /\ result' = [of |-> "sync", ok |-> TRUE, blocks |-> << >>]
           /\ UNCHANGED <<call, reply, heard>>
  BY <1>1, <1>2, <1>4 DEF TypeInv, TypeOK, HeightsBounded, AnswersPast, HeardAnswered
<1>5. {"history", "update", "sync update"} \subseteq Call
  BY DEF Call
<1>6. QED
  BY <1>3, <1>4, <1>5 DEF RequestHistory, RequestUpdate, SyncIfBehind

LEMMA SentIs ==
  ASSUME TypeInv, NEW i \in Place
  PROVE  /\ Sent(i) \in Seq(Block) /\ Len(Sent(i)) = height[IdAt(i)]
         /\ IdAt(i) \in Members /\ height[IdAt(i)] \in Nat
         /\ \A k \in DOMAIN Sent(i) :
              k \in DOMAIN Chain[IdAt(i)] /\ Sent(i)[k] = Chain[IdAt(i)][k]
<1> DEFINE r == IdAt(i)
           h == height[r]
<1>1. r \in Members /\ Chain[r] \in Seq(Block) /\ Len(Chain[r]) \in Nat
  BY IdAtType, ChainType
<1>2. h \in Nat /\ h <= Len(Chain[r])
  BY <1>1 DEF TypeInv, TypeOK, HeightsBounded
<1>3. \A k \in 1 .. h : k \in DOMAIN Chain[r] /\ Chain[r][k] \in Block
  BY <1>1, <1>2
<1> HIDE DEF h, r
<1>4. /\ SubSeq(Chain[r], 1, h) \in Seq(Block)
      /\ Len(SubSeq(Chain[r], 1, h)) = h
      /\ \A k \in 1 .. h : SubSeq(Chain[r], 1, h)[k] = Chain[r][k]
  <2>1. 1 \in Int /\ h \in Int /\ h - 1 + 1 = h
    BY <1>2
  <2>2. /\ SubSeq(Chain[r], 1, h) \in Seq(Block)
        /\ Len(SubSeq(Chain[r], 1, h)) = IF 1 <= h THEN h - 1 + 1 ELSE 0
        /\ \A k \in 1 .. h - 1 + 1 : SubSeq(Chain[r], 1, h)[k] = Chain[r][1 + k - 1]
    BY <1>3, <2>1, SubSeqProperties
  <2>3. \A k \in 1 .. h : 1 + k - 1 = k
    OBVIOUS
  <2>4. QED
    BY <1>2, <2>1, <2>2, <2>3
<1>5. DOMAIN SubSeq(Chain[r], 1, h) = 1 .. h
  BY <1>4
<1>6. QED
  BY <1>1, <1>2, <1>3, <1>4, <1>5 DEF Sent, h, r

\* What one RPC may have answered.
LEMMA AnswerIs ==
  ASSUME TypeInv, NEW i \in Place, Answer(i) \/ Fail(i)
  PROVE  /\ call # "idle" /\ reply[i].state = "waiting"
         /\ UNCHANGED <<height, call, heard, result, covered>>
         /\ disturbed' = disturbed \/ disturbed' = TRUE
         /\ \A j \in Place : j # i => reply'[j] = reply[j]
         /\ reply' \in [Place -> Reply]
         /\ \/ reply'[i].state = "error"
            \/ reply'[i].state = "ok" /\ reply'[i].height = height[IdAt(i)]
<1>1. /\ call # "idle" /\ reply[i].state = "waiting"
      /\ UNCHANGED <<height, call, heard, result, covered>>
      /\ disturbed' = disturbed \/ disturbed' = TRUE
  BY DEF Answer, Fail, historyVars
<1>2. reply \in [Place -> Reply] /\ reply[i].height \in Nat
  BY DEF TypeInv, TypeOK, Reply
<1>3. Len(Sent(i)) = height[IdAt(i)] /\ height[IdAt(i)] \in Nat
  BY SentIs
<1>4. \E x \in Reply :
        /\ reply' = [reply EXCEPT ![i] = x]
        /\ x.state = "error" \/ (x.state = "ok" /\ x.height = height[IdAt(i)])
  <2>1. CASE Answer(i)
    <3> DEFINE failed == [state |-> "error", height |-> 0]
               good == [state |-> "ok", height |-> Len(Sent(i))]
    <3>1. failed \in Reply /\ good \in Reply
      BY <1>3 DEF Reply
    <3>2. \/ reply' = [reply EXCEPT ![i] = failed]
          \/ reply' = [reply EXCEPT ![i] = good]
      BY <2>1 DEF Answer
    <3>3. failed.state = "error" /\ good.state = "ok" /\ good.height = height[IdAt(i)]
      BY <1>3
    <3> HIDE DEF failed, good
    <3>4. QED
      BY <3>1, <3>2, <3>3
  <2>2. CASE Fail(i)
    <3>1. reply' = [reply EXCEPT ![i] = [reply[i] EXCEPT !.state = "error"]]
      BY <1>2, <2>2 DEF Fail
    <3>2. [reply[i] EXCEPT !.state = "error"] \in Reply
      BY <1>2 DEF Reply
    <3>3. [reply[i] EXCEPT !.state = "error"].state = "error"
      BY <1>2 DEF Reply
    <3>4. QED
      BY <3>1, <3>2, <3>3
  <2>3. QED
    BY <2>1, <2>2
<1>5. QED
  BY <1>1, <1>2, <1>4

LEMMA AnswerKeepsTypes ==
  ASSUME TypeInv, NEW i \in Place, Answer(i) \/ Fail(i)
  PROVE  TypeInv'
<1>1. /\ reply[i].state = "waiting"
      /\ UNCHANGED <<height, call, heard, result, covered>>
      /\ disturbed' = disturbed \/ disturbed' = TRUE
      /\ \A j \in Place : j # i => reply'[j] = reply[j]
      /\ reply' \in [Place -> Reply]
      /\ \/ reply'[i].state = "error"
         \/ reply'[i].state = "ok" /\ reply'[i].height = height[IdAt(i)]
  BY AnswerIs
<1>2. TypeOK'
  BY <1>1 DEF TypeInv, TypeOK
<1>3. HeightsBounded'
  BY <1>1 DEF TypeInv, HeightsBounded
<1>4. AnswersPast'
  BY <1>1, IdAtType DEF TypeInv, TypeOK, AnswersPast
<1>5. HeardAnswered'
  <2>1. ToSet(heard) \subseteq Place /\ i \notin ToSet(heard)
    BY <1>1 DEF TypeInv, TypeOK, HeardAnswered, ToSet
  <2>2. QED
    BY <1>1, <2>1 DEF TypeInv, HeardAnswered
<1>6. QED
  BY <1>2, <1>3, <1>4, <1>5 DEF TypeInv

\* What the step that takes an answer returns, if it returns.
LEMMA ReturnedType ==
  ASSUME TypeInv, NEW i \in Place, Available(i), Successful(Heard(i))
  PROVE  /\ AsksHistory => AgreedHistory(Heard(i)) \in Seq(Block)
         /\ ~AsksHistory => BestBlock(Heard(i)) \in Block
<1>1. Heard(i) \in Seq(Place)
  BY HeardIs
<1>2. ASSUME AsksHistory PROVE AgreedHistory(Heard(i)) \in Seq(Block)
  <2>1. PICK k \in Agreed(Heard(i)) : AgreedHistory(Heard(i)) = Blocks(Heard(i)[k])
    BY <1>1, <1>2, AgreedHistoryIs DEF Successful
  <2>2. Heard(i)[k] \in Place /\ reply[Heard(i)[k]].state = "ok"
    BY <1>1, PlacesHeard DEF Agreed
  <2>3. QED
    BY <2>1, <2>2, BlocksAre
<1>3. ASSUME ~AsksHistory PROVE BestBlock(Heard(i)) \in Block
  <2>1. WithBlocks(Heard(i)) # {}
    BY <1>3 DEF Successful, Enough
  <2>2. PICK k \in WithBlocks(Heard(i)) : BestBlock(Heard(i)) = Best(Heard(i)[k])
    BY <1>1, <2>1, BestBlockIs
  <2>3. QED
    BY <1>1, <2>2, BestIs
<1>4. QED
  BY <1>2, <1>3

LEMMA TakeKeepsTypes ==
  ASSUME TypeInv, NEW i \in Place, Take(i)
  PROVE  TypeInv'
<1>1. Available(i) /\ call \in Call
  BY DEF Take, Collect, GiveUp, ReturnHistory, ReturnUpdate, AcceptUpdate, RejectUpdate,
         Available, TypeInv, TypeOK
<1>2. << >> \in Seq(Block) /\ {"sync history", "idle"} \subseteq Call \cup {"idle"}
  BY DEF Call
<1>3. CASE Collect(i)
  <2>1. /\ heard' = Heard(i) /\ Len(Heard(i)) # Len(Asked.replicas)
        /\ UNCHANGED <<height, call, reply, result, covered, disturbed>>
    BY <1>3 DEF Collect, AllReceived, Received, historyVars
  <2>2. /\ Heard(i) \in Seq(Place) /\ IsInjective(Heard(i))
        /\ Len(Heard(i)) <= Len(Asked.replicas) /\ Len(Heard(i)) \in Nat
        /\ ToSet(Heard(i)) = ToSet(heard) \cup {i}
    BY <1>1, HeardIs
  <2>3. Len(Heard(i)) < Len(Asked.replicas)
    BY <2>1, <2>2, AskedSize
  <2>4. TypeOK'
    BY <2>1, <2>2, <2>3 DEF TypeInv, TypeOK
  <2>5. HeardAnswered'
    BY <1>1, <2>1, <2>2 DEF TypeInv, HeardAnswered, Available
  <2>6. QED
    BY <2>1, <2>4, <2>5 DEF TypeInv, HeightsBounded, AnswersPast
<1>4. CASE GiveUp(i) \/ RejectUpdate(i)
  <2>1. UNCHANGED <<height, covered>> /\ Return(FALSE, << >>) /\ disturbed' \in BOOLEAN
    BY <1>4 DEF GiveUp, RejectUpdate, TypeInv, TypeOK, historyVars
  <2>2. [of |-> call, ok |-> FALSE, blocks |-> << >>] \in Result
    BY <1>1, <1>2 DEF Result
  <2>3. QED
    BY <2>1, <2>2, RestartKeepsTypes DEF Return, TypeInv, TypeOK
<1>5. CASE ReturnHistory(i)
  <2>1. AgreedHistory(Heard(i)) \in Seq(Block)
    BY <1>1, <1>5, ReturnedType DEF ReturnHistory
  <2>2. QED
    BY <1>1, <1>2, <1>5, <2>1, RestartKeepsTypes
       DEF ReturnHistory, Return, Result, TypeInv, TypeOK, historyVars
<1>6. CASE ReturnUpdate(i)
  <2>1. <<BestBlock(Heard(i))>> \in Seq(Block)
    BY <1>1, <1>6, ReturnedType DEF ReturnUpdate, AsksHistory
  <2>2. QED
    BY <1>1, <1>2, <1>6, <2>1, RestartKeepsTypes
       DEF ReturnUpdate, Return, Result, TypeInv, TypeOK, historyVars
<1>7. CASE AcceptUpdate(i)
  BY <1>2, <1>7, RestartKeepsTypes DEF AcceptUpdate, FanOut, TypeInv, TypeOK, historyVars
<1>8. QED
  BY <1>3, <1>4, <1>5, <1>6, <1>7 DEF Take

LEMMA NextTypeInv == TypeInv /\ [Next]_vars => TypeInv'
<1> SUFFICES ASSUME TypeInv, [Next]_vars PROVE TypeInv'
  OBVIOUS
<1>1. CASE Expire
  <2>1. << >> \in Seq(Block)
    OBVIOUS
  <2>2. QED
    BY <1>1, <2>1, RestartKeepsTypes DEF Expire, Return, Result, Call, TypeInv, TypeOK
<1>2. CASE UNCHANGED vars
  BY <1>2 DEF vars, askVars, historyVars, TypeInv, TypeOK, HeightsBounded, AnswersPast,
              HeardAnswered
<1>3. QED
  BY <1>1, <1>2, ExecuteKeepsTypes, BeginKeepsTypes, AnswerKeepsTypes, TakeKeepsTypes DEF Next

LEMMA TypeInvariant == Spec => []TypeInv
BY InitTypeInv, NextTypeInv, PTL DEF Spec

(***************************************************************************)
(* The state keeps its types: a call takes each answer once, and what it   *)
(* returns is made of blocks that were executed (syncer.go:116-135,        *)
(* 219-242).                                                               *)
(***************************************************************************)
THEOREM StateTransferTypeOK == Spec => []TypeOK
<1>1. TypeInv => TypeOK
  BY DEF TypeInv
<1>2. QED
  BY <1>1, TypeInvariant, PTL

-----------------------------------------------------------------------------
(***************************************************************************)
(* What a history that enough answers agree on says of the members.        *)
(***************************************************************************)
LEMMA MatchingMembers ==
  ASSUME TypeInv, ListedOnce, NEW places \in Seq(Place), IsInjective(places),
         NEW k \in Agreed(places)
  PROVE  LET blocks == Blocks(places[k])
             ids == {IdAt(places[l]) : l \in Matching(places, k)}
         IN  /\ blocks \in Seq(Block)
             /\ ids \in SUBSET Members /\ Cardinality(ids) >= MatchingNeeded
             /\ \A l \in Matching(places, k) :
                  /\ places[l] \in Place /\ reply[places[l]].state = "ok"
                  /\ reply[places[l]].height = Len(blocks)
                  /\ HistoryHash(Blocks(places[l])) = HistoryHash(blocks)
<1> DEFINE blocks == Blocks(places[k])
           K == Matching(places, k)
<1>1. k \in Good(places) /\ Cardinality(K) >= MatchingNeeded
  BY DEF Agreed
<1>2. K \subseteq Good(places) /\ K \in SUBSET DOMAIN places
  BY PlacesHeard DEF Matching
<1>3. blocks \in Seq(Block)
  BY <1>1, PlacesHeard, BlocksAre
<1>4. ASSUME NEW l \in K
      PROVE  /\ places[l] \in Place /\ reply[places[l]].state = "ok"
             /\ reply[places[l]].height = Len(blocks)
             /\ HistoryHash(Blocks(places[l])) = HistoryHash(blocks)
  <2>1. places[l] \in Place /\ reply[places[l]].state = "ok"
    BY <1>2, PlacesHeard
  <2>2. HistoryHash(Blocks(places[l])) = HistoryHash(blocks)
    BY DEF Matching
  <2>3. /\ Blocks(places[l]) \in Seq(Block)
        /\ Len(Blocks(places[l])) = reply[places[l]].height
    BY <2>1, BlocksAre
  <2>4. Len(Blocks(places[l])) = Len(blocks)
    <3> HIDE DEF blocks
    <3>1. QED
      BY <1>3, <2>2, <2>3, SameHashSameLength
  <2>5. QED
    BY <2>1, <2>2, <2>3, <2>4
<1>5. /\ {IdAt(places[l]) : l \in K} \in SUBSET Members
      /\ Cardinality({IdAt(places[l]) : l \in K}) = Cardinality(K)
  <2> HIDE DEF K
  <2>1. QED
    BY <1>2, AsManyMembers
<1>6. QED
  BY <1>1, <1>3, <1>4, <1>5

\* All but the diverged ones of a set of members.
LEMMA FewDiverged ==
  ASSUME NEW S \in SUBSET Members
  PROVE  /\ IsFiniteSet(S \ Diverged) /\ Cardinality(S \ Diverged) \in Nat
         /\ Cardinality(S) \in Nat
         /\ Cardinality(S \ Diverged) >= Cardinality(S) - Asked.faultCap
<1>1. IsFiniteSet(S) /\ Cardinality(S) \in Nat
  BY MembersFinite
<1>2. Diverged \in SUBSET Members
  BY DEF Diverged
<1>3. IsFiniteSet(Diverged) /\ Cardinality(Diverged) \in Nat
  BY <1>2, MembersFinite
<1>4. Cardinality(Diverged) <= Asked.faultCap
  BY StateTransferAssumption
<1>5. /\ Cardinality(S \cap Diverged) \in Nat
      /\ Cardinality(S \cap Diverged) <= Cardinality(Diverged)
  <2>1. IsFiniteSet(S \cap Diverged) /\ Cardinality(S \cap Diverged) <= Cardinality(Diverged)
    BY <1>3, FS_Intersection
  <2>2. QED
    BY <2>1, FS_CardinalityType
<1>6. /\ IsFiniteSet(S \ Diverged)
      /\ Cardinality(S \ Diverged) = Cardinality(S) - Cardinality(S \cap Diverged)
  BY <1>1, FS_Difference
<1>7. Cardinality(S \ Diverged) \in Nat
  BY <1>6, FS_CardinalityType
<1>8. QED
  BY <1>1, <1>3, <1>4, <1>5, <1>6, <1>7, AskedSize

\* Members that answered, and are on the common chain, have executed what they answered.
LEMMA AgreedHeld ==
  ASSUME TypeInv, ListedOnce, NEW places \in Seq(Place), IsInjective(places),
         NEW k \in Agreed(places)
  PROVE  LET blocks == Blocks(places[k])
             n == Len(blocks)
         IN  /\ n \in Nat /\ n <= Len(Common)
             /\ HistoryHash(blocks) = HistoryHash(SubSeq(Common, 1, n))
             /\ Cardinality({r \in Members \ Diverged : height[r] >= n}) > Asked.faultCap
<1> DEFINE blocks == Blocks(places[k])
           n == Len(blocks)
           ids == {IdAt(places[l]) : l \in Matching(places, k)}
           Holders == {r \in Members \ Diverged : height[r] >= n}
<1>1. /\ blocks \in Seq(Block)
      /\ ids \in SUBSET Members /\ Cardinality(ids) >= MatchingNeeded
      /\ \A l \in Matching(places, k) :
           /\ places[l] \in Place /\ reply[places[l]].state = "ok"
           /\ reply[places[l]].height = n
           /\ HistoryHash(Blocks(places[l])) = HistoryHash(blocks)
  BY MatchingMembers
<1>2. n \in Nat
  BY <1>1
<1>3. MatchingNeeded = 2 * Asked.faultCap + 1 /\ Asked.faultCap \in Nat
  BY AskedSize DEF MatchingNeeded
<1>4. Cardinality(ids \ Diverged) > Asked.faultCap /\ Cardinality(ids \ Diverged) \in Nat
  <2> HIDE DEF ids
  <2>1. QED
    BY <1>1, <1>3, FewDiverged
<1>5. ids \ Diverged # {}
  <2> HIDE DEF ids
  <2>1. QED
    <3> DEFINE D == ids \ Diverged
    <3>1. Cardinality(D) # 0
      BY <1>3, <1>4
    <3> HIDE DEF D
    <3>2. D # {}
      BY <3>1, FS_EmptySet
    <3>3. QED
      BY <3>2 DEF D
<1>6. PICK l \in Matching(places, k) : IdAt(places[l]) \notin Diverged
  BY <1>5
<1>7. /\ IdAt(places[l]) \in Members /\ Chain[IdAt(places[l])] = Common
      /\ Blocks(places[l]) = SubSeq(Common, 1, n)
      /\ n <= Len(Common)
  <2>1. IdAt(places[l]) \in Members /\ Chain[IdAt(places[l])] = Common
    BY <1>1, <1>6, IdAtType DEF Diverged
  <2>2. reply[places[l]].height <= Len(Chain[IdAt(places[l])])
    BY <1>1, BlocksAre
  <2>3. QED
    BY <1>1, <2>1, <2>2 DEF Blocks
<1>8. ids \ Diverged \subseteq Holders
  <2>1. ASSUME NEW m \in Matching(places, k), IdAt(places[m]) \notin Diverged
        PROVE  IdAt(places[m]) \in Holders
    BY <1>1, <2>1, IdAtType DEF TypeInv, AnswersPast
  <2>2. QED
    BY <2>1
<1>9. Cardinality(Holders) > Asked.faultCap
  <2>1. IsFiniteSet(Holders) /\ Cardinality(Holders) \in Nat
    <3>1. Holders \in SUBSET Members
      OBVIOUS
    <3>2. QED
      BY <3>1, MembersFinite
  <2> HIDE DEF ids, Holders
  <2>2. Cardinality(ids \ Diverged) <= Cardinality(Holders)
    BY <1>8, <2>1, FS_Subset
  <2>3. QED
    BY <1>3, <1>4, <2>1, <2>2
<1>10. HistoryHash(blocks) = HistoryHash(SubSeq(Common, 1, n))
  BY <1>1, <1>7
<1>11. QED
  BY <1>2, <1>7, <1>9, <1>10

-----------------------------------------------------------------------------
\* Members only move on, and a result stays until the next call begins.
LEMMA HeightsGrow ==
  ASSUME TypeInv, [Next]_vars
  PROVE  \A r \in Members : height'[r] \in Nat /\ height[r] \in Nat /\ height'[r] >= height[r]
<1>1. \A r \in Members : height[r] \in Nat
  BY DEF TypeInv, TypeOK
<1>2. ASSUME NEW s \in Members, Execute(s)
      PROVE  \A r \in Members : height'[r] \in Nat /\ height'[r] >= height[r]
  BY <1>1, <1>2 DEF Execute, TypeInv, TypeOK
<1>3. CASE UNCHANGED height
  BY <1>1, <1>3
<1>4. ASSUME NEW i \in Place, Answer(i) \/ Fail(i) \/ Take(i) PROVE UNCHANGED height
  BY <1>4 DEF Answer, Fail, Take, Collect, GiveUp, ReturnHistory, ReturnUpdate,
              AcceptUpdate, RejectUpdate
<1>5. ASSUME NEW c \in 0 .. MaxConf, SyncIfBehind(c) PROVE UNCHANGED height
  BY <1>5 DEF SyncIfBehind, Begin
<1>6. CASE RequestHistory \/ RequestUpdate \/ Expire \/ UNCHANGED vars
  BY <1>3, <1>6 DEF RequestHistory, RequestUpdate, Expire, Begin, vars
<1>7. QED
  BY <1>1, <1>2, <1>3, <1>4, <1>5, <1>6 DEF Next

\* What a call that fails returns, and SyncIfBehind when it is not behind.
Failed(c) == [of |-> c, ok |-> FALSE, blocks |-> << >>]

NotBehind == [of |-> "sync", ok |-> TRUE, blocks |-> << >>]

LEMMA NotReturned ==
  /\ \A c : ~Failed(c).ok
  /\ ~NoResult.ok /\ NotBehind.of = "sync"
BY Zenon DEF Failed, NoResult, NotBehind

\* How a step changes the result: a call begins, fails, or succeeds with an answer.
LEMMA ResultIs ==
  ASSUME TypeInv, [Next]_vars
  PROVE  \/ UNCHANGED <<result, covered>>
         \/ result' = NoResult
         \/ result' = NotBehind
         \/ \E c \in Call : result' = Failed(c)
         \/ \E i \in Place : ReturnHistory(i)
         \/ \E i \in Place : ReturnUpdate(i)
<1>1. ASSUME NEW i \in Place, Answer(i) \/ Fail(i) \/ Collect(i) \/ AcceptUpdate(i)
      PROVE  UNCHANGED <<result, covered>>
  BY <1>1 DEF Answer, Fail, Collect, AcceptUpdate, historyVars
<1>2. ASSUME Expire \/ \E i \in Place : GiveUp(i) \/ RejectUpdate(i)
      PROVE  call \in Call /\ result' = Failed(call)
  <2>1. call \in Call
    BY <1>2 DEF GiveUp, RejectUpdate, Expire, Available, TypeInv, TypeOK
  <2>2. result' = Failed(call)
    BY <1>2 DEF GiveUp, RejectUpdate, Expire, Return, Failed
  <2>3. QED
    BY <2>1, <2>2
<1>3. ASSUME NEW s \in Members, Execute(s) PROVE UNCHANGED <<result, covered>>
  BY <1>3 DEF Execute, askVars
<1>4. ASSUME NEW c \in 0 .. MaxConf, SyncIfBehind(c)
      PROVE  result' = NoResult \/ result' = NotBehind
  BY <1>4 DEF SyncIfBehind, NotBehind
<1>5. CASE RequestHistory \/ RequestUpdate \/ UNCHANGED vars
  BY <1>5 DEF RequestHistory, RequestUpdate, vars, askVars, historyVars
<1>6. CASE \E i \in Place : Answer(i) \/ Fail(i) \/ Take(i)
  BY <1>1, <1>2, <1>6, Zenon DEF Take
<1>7. QED
  BY <1>2, <1>3, <1>4, <1>5, <1>6, Zenon DEF Next

LEMMA HistoryHeldStays ==
  ASSUME TypeInv, HistoryHeld, [Next]_vars, UNCHANGED result
  PROVE  HistoryHeld'
<1> DEFINE n == Len(result.blocks)
           Holders == {r \in Members \ Diverged : height[r] >= n}
<1>1. SUFFICES ASSUME HistoryReturned'
               PROVE  Cardinality(Holders') > Asked.faultCap /\ n <= Len(Common)
                        /\ HistoryHash(result.blocks) = HistoryHash(SubSeq(Common, 1, n))
  BY DEF HistoryHeld
<1>2. /\ Cardinality(Holders) > Asked.faultCap /\ n <= Len(Common)
      /\ HistoryHash(result.blocks) = HistoryHash(SubSeq(Common, 1, n))
  BY <1>1 DEF HistoryHeld, HistoryReturned
<1>3. n \in Nat
  BY DEF TypeInv, TypeOK, Result
<1>4. Holders \subseteq Holders' /\ Holders' \in SUBSET Members /\ Holders \in SUBSET Members
  BY <1>3, HeightsGrow
<1>5. Cardinality(Holders) <= Cardinality(Holders')
  <2> HIDE DEF Holders
  <2>1. QED
    BY <1>4, MembersFinite, FS_Subset
<1>6. Cardinality(Holders) \in Nat /\ Cardinality(Holders') \in Nat /\ Asked.faultCap \in Nat
  BY <1>4, MembersFinite, AskedSize
<1>7. QED
  BY <1>2, <1>5, <1>6

LEMMA HistoryHeldReturned ==
  ASSUME TypeInv, ListedOnce, NEW i \in Place, ReturnHistory(i)
  PROVE  HistoryHeld'
<1>1. /\ Available(i) /\ Agreed(Heard(i)) # {} /\ UNCHANGED height
      /\ result'.blocks = AgreedHistory(Heard(i))
  BY DEF ReturnHistory, Successful, Return
<1>2. Heard(i) \in Seq(Place) /\ IsInjective(Heard(i))
  BY <1>1, HeardIs
<1>3. PICK k \in Agreed(Heard(i)) : AgreedHistory(Heard(i)) = Blocks(Heard(i)[k])
  BY <1>1, <1>2, AgreedHistoryIs
<1> DEFINE blocks == Blocks(Heard(i)[k])
<1>4. /\ Len(blocks) <= Len(Common)
      /\ HistoryHash(blocks) = HistoryHash(SubSeq(Common, 1, Len(blocks)))
      /\ Cardinality({r \in Members \ Diverged : height[r] >= Len(blocks)}) > Asked.faultCap
  BY <1>2, AgreedHeld
<1>5. result'.blocks = blocks
  BY <1>1, <1>3
<1> HIDE DEF blocks
<1>6. QED
  BY <1>1, <1>4, <1>5 DEF HistoryHeld

(***************************************************************************)
(* A returned history is one that at least f + 1 members on the common     *)
(* chain have executed, whatever the others answer and however far each    *)
(* was when it was asked (syncer.go:72-75, 122-132).                       *)
(***************************************************************************)
THEOREM StateTransferHistoryHeld ==
  ASSUME ListedOnce
  PROVE  Spec => []HistoryHeld
<1>1. Init => HistoryHeld
  BY DEF Init, NoResult, HistoryHeld, HistoryReturned
<1>2. TypeInv /\ HistoryHeld /\ [Next]_vars => HistoryHeld'
  <2> SUFFICES ASSUME TypeInv, HistoryHeld, [Next]_vars PROVE HistoryHeld'
    OBVIOUS
  <2>1. CASE UNCHANGED result
    BY <2>1, HistoryHeldStays
  <2>2. CASE result' = NoResult \/ result' = NotBehind \/ \E c \in Call : result' = Failed(c)
    <3>1. ~result'.ok \/ result'.of = "sync"
      BY <2>2, NotReturned, Zenon
    <3>2. QED
      BY <3>1 DEF HistoryHeld, HistoryReturned
  <2>3. ASSUME NEW i \in Place, ReturnHistory(i) PROVE HistoryHeld'
    BY <2>3, HistoryHeldReturned
  <2>4. ASSUME NEW i \in Place, ReturnUpdate(i) PROVE HistoryHeld'
    BY <2>4 DEF ReturnUpdate, Return, HistoryHeld, HistoryReturned
  <2>5. QED
    BY <2>1, <2>2, <2>3, <2>4, ResultIs
<1>3. QED
  BY <1>1, <1>2, TypeInvariant, PTL DEF Spec

-----------------------------------------------------------------------------
(***************************************************************************)
(* What a quorum had executed when a call began is in every answer of its  *)
(* members, as they answer later.                                          *)
(***************************************************************************)
CoveredBy(Q) ==
  \A r \in Q :
    /\ height[r] >= covered
    /\ \A i \in Place :
         call # "idle" /\ IdAt(i) = r /\ reply[i].state = "ok" => reply[i].height >= covered

CoveredInv ==
  covered = 0
    \/ \E Q \in SUBSET Members : Cardinality(Q) >= QuorumSize(Asked) /\ CoveredBy(Q)

\* Two sets that do not fit side by side into the committee have a member in common.
LEMMA MembersIntersect ==
  ASSUME NEW S \in SUBSET Members, NEW T \in SUBSET Members,
         Cardinality(S) + Cardinality(T) > Len(Asked.replicas)
  PROVE  \E r \in Members : r \in S /\ r \in T
<1>1. /\ IsFiniteSet(Members) /\ Cardinality(Members) \in Nat
      /\ Cardinality(Members) <= Len(Asked.replicas)
      /\ Cardinality(S) \in Nat /\ Cardinality(T) \in Nat
  BY MembersFinite
<1>2. Cardinality(S) + Cardinality(T) > Cardinality(Members)
  BY <1>1, AskedSize
<1>3. S \cap T # {}
  BY <1>1, <1>2, FS_MajoritiesIntersect
<1>4. QED
  BY <1>3

LEMMA CoveredStays ==
  ASSUME TypeInv, CoveredInv, [Next]_vars, UNCHANGED covered,
         \A i \in Place : call' # "idle" /\ reply'[i].state = "ok" =>
           \/ call # "idle" /\ reply'[i] = reply[i]
           \/ reply'[i].height = height[IdAt(i)]
  PROVE  CoveredInv'
<1>1. CASE covered = 0
  BY <1>1 DEF CoveredInv
<1>2. CASE covered # 0
  <2>1. PICK Q \in SUBSET Members : Cardinality(Q) >= QuorumSize(Asked) /\ CoveredBy(Q)
    BY <1>2 DEF CoveredInv
  <2>2. \A r \in Q : height'[r] >= covered'
    <3>1. covered \in Nat
      BY StateTransferAssumption DEF TypeInv, TypeOK
    <3>2. \A r \in Q : height'[r] \in Nat /\ height[r] \in Nat /\ height'[r] >= height[r]
      BY HeightsGrow
    <3>3. QED
      BY <2>1, <3>1, <3>2 DEF CoveredBy
  <2>3. CoveredBy(Q)'
    BY <2>1, <2>2 DEF CoveredBy
  <2>4. QED
    BY <2>1, <2>3 DEF CoveredInv
<1>3. QED
  BY <1>1, <1>2

LEMMA CoveredBegins ==
  ASSUME TypeInv, RequestHistory \/ RequestUpdate \/ \E c \in 0 .. MaxConf : SyncIfBehind(c)
  PROVE  CoveredInv'
<1>1. PICK Q \in SUBSET Members :
        /\ CoveredNow = 0 \/ Cardinality(Q) >= QuorumSize(Asked)
        /\ \A r \in Q : height[r] >= CoveredNow
  <2> DEFINE S == {r \in Members : height[r] >= CoveredNow}
  <2>1. CoveredNow = 0 \/ Cardinality(S) >= QuorumSize(Asked)
    BY CoveredNowIs DEF TypeInv
  <2>2. S \in SUBSET Members /\ \A r \in S : height[r] >= CoveredNow
    OBVIOUS
  <2> HIDE DEF S
  <2>3. QED
    BY <2>1, <2>2
<1>2. covered' = CoveredNow /\ UNCHANGED height
  BY DEF RequestHistory, RequestUpdate, SyncIfBehind, Begin
<1>3. \A i \in Place : ~(call' # "idle" /\ reply'[i].state = "ok")
  <2>1. CASE reply' = NoReplies
    BY <2>1 DEF NoReplies
  <2>2. CASE call = "idle" /\ UNCHANGED call
    BY <2>2
  <2>3. QED
    BY <2>1, <2>2 DEF RequestHistory, RequestUpdate, SyncIfBehind, FanOut, Begin
<1>4. CoveredBy(Q)'
  BY <1>1, <1>2, <1>3 DEF CoveredBy
<1>5. QED
  BY <1>1, <1>2, <1>4 DEF CoveredInv

LEMMA NextCoveredInv == TypeInv /\ CoveredInv /\ [Next]_vars => CoveredInv'
<1> SUFFICES ASSUME TypeInv, CoveredInv, [Next]_vars PROVE CoveredInv'
  OBVIOUS
<1>1. CASE RequestHistory \/ RequestUpdate \/ \E c \in 0 .. MaxConf : SyncIfBehind(c)
  BY <1>1, CoveredBegins
<1>2. ASSUME NEW i \in Place, Answer(i) \/ Fail(i) PROVE CoveredInv'
  <2>1. /\ call # "idle" /\ UNCHANGED <<call, covered>>
        /\ \A j \in Place : j # i => reply'[j] = reply[j]
        /\ \/ reply'[i].state = "error"
           \/ reply'[i].state = "ok" /\ reply'[i].height = height[IdAt(i)]
    BY <1>2, AnswerIs
  <2>2. QED
    BY <2>1, CoveredStays
<1>3. CASE UNCHANGED <<covered, call, reply>>
  BY <1>3, CoveredStays
<1>4. CASE UNCHANGED covered /\ reply' = NoReplies
  BY <1>4, CoveredStays DEF NoReplies
<1>5. ASSUME NEW i \in Place, Take(i)
      PROVE  UNCHANGED covered /\ (UNCHANGED <<call, reply>> \/ reply' = NoReplies)
  BY <1>5 DEF Take, Collect, GiveUp, ReturnHistory, ReturnUpdate, AcceptUpdate, RejectUpdate,
              Return, FanOut, historyVars
<1>6. CASE Expire
  BY <1>4, <1>6 DEF Expire, Return
<1>7. CASE (\E r \in Members : Execute(r)) \/ UNCHANGED vars
  BY <1>3, <1>7 DEF Execute, vars, askVars, historyVars
<1>8. QED
  BY <1>1, <1>2, <1>3, <1>4, <1>5, <1>6, <1>7 DEF Next

\* A history that 2f + 1 hold reaches into every quorum, unless the committee has three.
LEMMA HistoryCovers ==
  ASSUME TypeInv, CoveredInv, ListedOnce, Len(Asked.replicas) # 3,
         NEW i \in Place, ReturnHistory(i)
  PROVE  Len(result'.blocks) >= covered
<1>1. /\ Available(i) /\ Agreed(Heard(i)) # {} /\ call # "idle"
      /\ result'.blocks = AgreedHistory(Heard(i))
  BY DEF ReturnHistory, Successful, Return, Available
<1> DEFINE places == Heard(i)
<1>2. places \in Seq(Place) /\ IsInjective(places)
  BY <1>1, HeardIs
<1>3. PICK k \in Agreed(places) : AgreedHistory(places) = Blocks(places[k])
  BY <1>1, <1>2, AgreedHistoryIs
<1> DEFINE n == Len(Blocks(places[k]))
           ids == {IdAt(places[l]) : l \in Matching(places, k)}
<1>4. /\ n \in Nat
      /\ ids \in SUBSET Members /\ Cardinality(ids) >= MatchingNeeded
      /\ \A l \in Matching(places, k) :
           /\ places[l] \in Place /\ reply[places[l]].state = "ok"
           /\ reply[places[l]].height = n
  <2>1. /\ Blocks(places[k]) \in Seq(Block)
        /\ ids \in SUBSET Members /\ Cardinality(ids) >= MatchingNeeded
        /\ \A l \in Matching(places, k) :
             /\ places[l] \in Place /\ reply[places[l]].state = "ok"
             /\ reply[places[l]].height = n
    <3> HIDE DEF places
    <3>1. QED
      BY <1>2, MatchingMembers
  <2>2. QED
    BY <2>1
<1>5. CASE covered = 0
  BY <1>1, <1>3, <1>4, <1>5
<1>6. CASE covered # 0
  <2>1. PICK Q \in SUBSET Members : Cardinality(Q) >= QuorumSize(Asked) /\ CoveredBy(Q)
    BY <1>6 DEF CoveredInv
  <2>2. Cardinality(ids) + Cardinality(Q) > Len(Asked.replicas)
    <3>1. Cardinality(ids) \in Nat /\ Cardinality(Q) \in Nat
      BY <1>4, MembersFinite
    <3>2. \A n0, f, q, a, b \in Nat :
            3 * f + 1 <= n0 /\ n0 <= 3 * f + 3 /\ n0 # 3 /\ 2 * q >= n0 + f + 1
              /\ a >= 2 * f + 1 /\ b >= q => a + b > n0
      OBVIOUS
    <3> HIDE DEF ids
    <3>3. QED
      BY <1>4, <2>1, <3>1, <3>2, AskedSize DEF MatchingNeeded
  <2>3. PICK r \in Members : r \in ids /\ r \in Q
    <3> HIDE DEF ids
    <3>1. QED
      BY <1>4, <2>2, MembersIntersect
  <2>4. PICK l \in Matching(places, k) : IdAt(places[l]) = r
    BY <2>3
  <2>5. n >= covered
    BY <1>1, <1>4, <2>1, <2>3, <2>4 DEF CoveredBy
  <2>6. QED
    BY <1>1, <1>3, <2>5
<1>7. QED
  BY <1>5, <1>6

\* Of the n - f that answered one was in the quorum and is on the common chain.
LEMMA UpdateCovers ==
  ASSUME TypeInv, CoveredInv, ListedOnce, Ascending,
         NEW i \in Place, ReturnUpdate(i), covered > 0
  PROVE  result'.blocks[1].height >= Common[covered].height
<1>1. /\ Available(i) /\ call # "idle"
      /\ Cardinality(Good(Heard(i))) >= UpdatesNeeded /\ WithBlocks(Heard(i)) # {}
      /\ result'.blocks = <<BestBlock(Heard(i))>>
  BY DEF ReturnUpdate, Successful, AsksHistory, Enough, Return, Available
<1> DEFINE places == Heard(i)
           ids == {IdAt(places[l]) : l \in Good(places)}
<1>2. places \in Seq(Place) /\ IsInjective(places)
  BY <1>1, HeardIs
<1>3. /\ ids \in SUBSET Members /\ Cardinality(ids) = Cardinality(Good(places))
      /\ Good(places) \in SUBSET DOMAIN places
  <2> HIDE DEF places
  <2>1. Good(places) \in SUBSET DOMAIN places
    BY DEF Good
  <2>2. QED
    BY <1>2, <2>1, AsManyMembers
<1>4. PICK Q \in SUBSET Members : Cardinality(Q) >= QuorumSize(Asked) /\ CoveredBy(Q)
  BY DEF CoveredInv
<1>5. PICK r \in Members : r \in ids \ Diverged /\ r \in Q
  <2> HIDE DEF ids, places
  <2>1. /\ Cardinality(ids \ Diverged) >= Cardinality(ids) - Asked.faultCap
        /\ Cardinality(ids \ Diverged) \in Nat /\ Cardinality(ids) \in Nat
        /\ Cardinality(Q) \in Nat
    BY <1>3, FewDiverged, MembersFinite
  <2>2. Cardinality(ids) >= Len(Asked.replicas) - Asked.faultCap
    BY <1>1, <1>3 DEF UpdatesNeeded, places
  <2>3. Cardinality(ids \ Diverged) + Cardinality(Q) > Len(Asked.replicas)
    <3> DEFINE n      == Len(Asked.replicas)
               f      == Asked.faultCap
               size   == QuorumSize(Asked)
               agreed == Cardinality(ids \ Diverged)
               voters == Cardinality(Q)
    <3>1. agreed \in Nat /\ voters \in Nat /\ agreed >= n - f - f /\ voters >= size
      <4>1. n \in Nat /\ f \in Nat
        BY AskedSize
      <4>2. QED
        BY <1>4, <2>1, <2>2, <4>1
    <3>2. n \in Nat /\ f \in Nat /\ 3 * f + 1 <= n
      BY AskedSize
    <3>3. size \in Nat /\ 2 * size >= n + f + 1
      BY AskedSize
    <3> HIDE DEF n, f, size, agreed, voters
    <3>4. agreed + voters > n
      BY <3>1, <3>2, <3>3
    <3>5. QED
      BY <3>4 DEF n, agreed, voters
  <2>4. ids \ Diverged \in SUBSET Members
    BY <1>3
  <2>5. QED
    BY <2>3, <2>4, MembersIntersect
<1>6. PICK l \in Good(places) : IdAt(places[l]) = r
  BY <1>5
<1> HIDE DEF places
<1>7. /\ places[l] \in Place /\ reply[places[l]].state = "ok"
      /\ reply[places[l]].height >= covered /\ reply[places[l]].height \in Nat
  <2>1. places[l] \in Place /\ reply[places[l]].state = "ok"
    BY <1>2, PlacesHeard
  <2>2. QED
    BY <1>1, <1>4, <1>5, <1>6, <2>1 DEF CoveredBy, TypeInv, TypeOK, Reply
<1>8. covered \in Nat /\ covered <= Len(Common) /\ Len(Common) \in Nat
  BY StateTransferAssumption DEF TypeInv, TypeOK
<1>9. l \in WithBlocks(places)
  BY <1>6, <1>7, <1>8 DEF WithBlocks
<1>10. /\ reply[places[l]].height \in 1 .. Len(Common)
       /\ Best(places[l]) = Common[reply[places[l]].height]
       /\ Best(places[l]).height \in Nat
  <2>1. Chain[r] = Common
    BY <1>5 DEF Diverged
  <2>2. QED
    BY <1>2, <1>6, <1>9, <2>1, BestIs
<1>11. Best(places[l]).height >= Common[covered].height /\ Common[covered].height \in Nat
  <2>1. covered \in DOMAIN Common /\ reply[places[l]].height \in DOMAIN Common
    BY <1>8, <1>10, StateTransferAssumption
  <2>2. Common[covered].height \in Nat
    <3>1. Common[covered] \in Block
      BY <2>1, StateTransferAssumption
    <3>2. QED
      BY <3>1 DEF Block
  <2>3. Common[covered].height <= Common[reply[places[l]].height].height
    BY <1>7, <2>1 DEF Ascending
  <2>4. QED
    BY <1>10, <2>2, <2>3
<1>12. PICK k \in WithBlocks(places) :
         /\ BestBlock(places) = Best(places[k])
         /\ Best(places[l]).height <= Best(places[k]).height
  BY <1>2, <1>9, BestBlockIs
<1>13. Best(places[k]).height \in Nat
  BY <1>2, BestIs
<1>14. result'.blocks[1].height = Best(places[k]).height
  BY <1>1, <1>12 DEF places
<1>15. QED
  BY <1>10, <1>11, <1>12, <1>13, <1>14

(***************************************************************************)
(* No call returns something older than a quorum had executed when it      *)
(* began, except that with three members, of which none may be faulty,     *)
(* one answer makes a history (syncer.go:80, 186, 233-240).                *)
(***************************************************************************)
THEOREM StateTransferQuorumCovered ==
  ASSUME ListedOnce, Ascending, Len(Asked.replicas) # 3
  PROVE  Spec => []QuorumCovered
<1>1. Init => CoveredInv /\ QuorumCovered
  BY DEF Init, NoResult, CoveredInv, QuorumCovered, HistoryReturned
<1>2. TypeInv /\ CoveredInv /\ QuorumCovered /\ [Next]_vars => QuorumCovered'
  <2> SUFFICES ASSUME TypeInv, CoveredInv, QuorumCovered, [Next]_vars PROVE QuorumCovered'
    OBVIOUS
  <2>1. CASE UNCHANGED <<result, covered>>
    BY <2>1 DEF QuorumCovered, HistoryReturned
  <2>2. CASE result' = NoResult \/ result' = NotBehind \/ \E c \in Call : result' = Failed(c)
    <3>1. ~result'.ok \/ result'.of = "sync"
      BY <2>2, NotReturned, Zenon
    <3>2. QED
      BY <3>1 DEF QuorumCovered, HistoryReturned
  <2>3. ASSUME NEW i \in Place, ReturnHistory(i) PROVE QuorumCovered'
    <3>1. Len(result'.blocks) >= covered
      BY <2>3, HistoryCovers
    <3>2. result'.of \in {"history", "sync history"} /\ UNCHANGED covered
      BY <2>3 DEF ReturnHistory, AsksHistory, Return, historyVars
    <3>3. QED
      BY <3>1, <3>2 DEF QuorumCovered
  <2>4. ASSUME NEW i \in Place, ReturnUpdate(i) PROVE QuorumCovered'
    <3>1. covered > 0 => result'.blocks[1].height >= Common[covered].height
      BY <2>4, UpdateCovers
    <3>2. result'.of = "update" /\ UNCHANGED covered
      BY <2>4 DEF ReturnUpdate, Return, historyVars
    <3>3. QED
      BY <3>1, <3>2 DEF QuorumCovered, HistoryReturned
  <2>5. QED
    BY <2>1, <2>2, <2>3, <2>4, ResultIs
<1>3. QED
  BY <1>1, <1>2, NextCoveredInv, TypeInvariant, PTL DEF Spec

-----------------------------------------------------------------------------
(***************************************************************************)
(* Nothing disturbs a call: the members on the common chain stay equally   *)
(* far, and answer with that.                                              *)
(***************************************************************************)
LevelAt(h) ==
  \A i \in Place : IdAt(i) \notin Diverged =>
    /\ height[IdAt(i)] = h
    /\ reply[i].state = "waiting" \/ (reply[i].state = "ok" /\ reply[i].height = h)

SettledInv == ~disturbed /\ call # "idle" => \E h \in 1 .. Len(Common) : LevelAt(h)

LEMMA SettledBegins ==
  ASSUME TypeInv, RequestHistory \/ RequestUpdate \/ \E c \in 0 .. MaxConf : SyncIfBehind(c)
  PROVE  SettledInv'
<1>1. SUFFICES ASSUME ~disturbed', call' # "idle"
               PROVE  \E h \in 1 .. Len(Common) : LevelAt(h)'
  BY DEF SettledInv
<1>2. Level /\ UNCHANGED height
  BY <1>1 DEF RequestHistory, RequestUpdate, SyncIfBehind, Begin
<1>3. reply' = NoReplies
  BY <1>1 DEF RequestHistory, RequestUpdate, SyncIfBehind, Begin, FanOut
<1>4. PICK h \in 1 .. Len(Common) : \A r \in Members \ Diverged : height[r] = h
  BY <1>2 DEF Level
<1>5. LevelAt(h)'
  BY <1>2, <1>3, <1>4, IdAtType DEF LevelAt, NoReplies
<1>6. QED
  BY <1>5

\* A member on the common chain does not answer with an error.
LEMMA SettledAnswers ==
  ASSUME TypeInv, SettledInv, Contiguous(Common), NEW i \in Place, Answer(i)
  PROVE  SettledInv'
<1>1. SUFFICES ASSUME ~disturbed', call' # "idle"
               PROVE  \E h \in 1 .. Len(Common) : LevelAt(h)'
  BY DEF SettledInv
<1>2. /\ call # "idle" /\ ~disturbed /\ UNCHANGED height
      /\ \A j \in Place : j # i => reply'[j] = reply[j]
  <2>1. UNCHANGED disturbed /\ call # "idle"
    BY DEF Answer, historyVars
  <2>2. UNCHANGED height /\ \A j \in Place : j # i => reply'[j] = reply[j]
    BY AnswerIs
  <2>3. QED
    BY <1>1, <2>1, <2>2
<1>3. PICK h \in 1 .. Len(Common) : LevelAt(h)
  BY <1>2 DEF SettledInv
<1>4. ASSUME IdAt(i) \notin Diverged
      PROVE  reply'[i].state = "ok" /\ reply'[i].height = h
  <2>1. Chain[IdAt(i)] = Common
    BY <1>4, IdAtType DEF Diverged
  <2>2. Contiguous(Sent(i))
    BY <2>1, SentIs DEF Contiguous
  <2>3. reply \in [Place -> Reply]
    BY DEF TypeInv, TypeOK
  <2>4. reply'[i] = [state |-> "ok", height |-> Len(Sent(i))]
    BY <2>2, <2>3 DEF Answer
  <2>5. Len(Sent(i)) = h
    BY <1>3, <1>4, SentIs DEF LevelAt
  <2>6. QED
    BY <2>4, <2>5
<1>5. LevelAt(h)'
  BY <1>2, <1>3, <1>4 DEF LevelAt
<1>6. QED
  BY <1>5

LEMMA NextSettledInv ==
  ASSUME Contiguous(Common)
  PROVE  TypeInv /\ SettledInv /\ [Next]_vars => SettledInv'
<1> SUFFICES ASSUME TypeInv, SettledInv, [Next]_vars PROVE SettledInv'
  OBVIOUS
<1>1. CASE RequestHistory \/ RequestUpdate \/ \E c \in 0 .. MaxConf : SyncIfBehind(c)
  BY <1>1, SettledBegins
<1>2. ASSUME NEW i \in Place, Answer(i) PROVE SettledInv'
  BY <1>2, SettledAnswers
<1>3. CASE call' = "idle" \/ disturbed' = TRUE
  BY <1>3 DEF SettledInv
<1>4. CASE UNCHANGED <<height, call, reply, disturbed>>
  BY <1>4 DEF SettledInv, LevelAt
<1>5. ASSUME NEW i \in Place, AcceptUpdate(i) PROVE SettledInv'
  <2>1. call # "idle" /\ UNCHANGED <<height, disturbed>> /\ reply' = NoReplies
    BY <1>5 DEF AcceptUpdate, FanOut, historyVars
  <2>2. \A h : LevelAt(h) => LevelAt(h)'
    BY <2>1 DEF LevelAt, NoReplies
  <2>3. QED
    BY <2>1, <2>2 DEF SettledInv
<1>6. ASSUME NEW i \in Place, Take(i), ~AcceptUpdate(i)
      PROVE  call' = "idle" \/ UNCHANGED <<height, call, reply, disturbed>>
  BY <1>6 DEF Take, Collect, GiveUp, ReturnHistory, ReturnUpdate, RejectUpdate, Return,
              historyVars
<1>7. ASSUME Expire \/ (\E i \in Place : Fail(i)) \/ \E r \in Members : Execute(r)
      PROVE  disturbed' = TRUE
  BY <1>7 DEF Expire, Fail, Execute
<1>8. CASE UNCHANGED vars
  BY <1>4, <1>8 DEF vars, askVars, historyVars
<1>9. QED
  BY <1>1, <1>2, <1>3, <1>4, <1>5, <1>6, <1>7, <1>8, Zenon DEF Next

\* The answers of n - f members agree, and are enough for either kind of call.
LEMMA AllHeardSucceeds ==
  ASSUME TypeInv, SettledInv, ListedOnce, ~disturbed,
         NEW i \in Place, Available(i), AllReceived(Heard(i))
  PROVE  Successful(Heard(i))
<1> DEFINE places == Heard(i)
           D == {k \in DOMAIN places : IdAt(places[k]) \in Diverged}
           K == {k \in DOMAIN places : IdAt(places[k]) \notin Diverged}
<1>1. /\ places \in Seq(Place) /\ IsInjective(places)
      /\ Len(places) = Len(Asked.replicas)
      /\ \A k \in DOMAIN places : reply[places[k]].state # "waiting"
  BY HeardIs DEF AllReceived, Received
<1>2. PICK h \in 1 .. Len(Common) : LevelAt(h)
  BY DEF SettledInv, Available
<1>3. /\ Len(places) \in Nat /\ DOMAIN places = 1 .. Len(places)
      /\ \A k \in DOMAIN places : places[k] \in Place
  BY <1>1, PlacesHeard
<1> HIDE DEF places
<1>4. \A k \in K : /\ places[k] \in Place /\ reply[places[k]].state = "ok"
                   /\ Blocks(places[k]) = SubSeq(Common, 1, h)
                   /\ reply[places[k]].height = h
  BY <1>1, <1>2, <1>3, IdAtType DEF LevelAt, Diverged, Blocks
<1>5. IsFiniteSet(DOMAIN places) /\ Cardinality(DOMAIN places) = Len(Asked.replicas)
  <2>1. /\ IsFiniteSet(1 .. Len(places))
        /\ Cardinality(1 .. Len(places)) =
             IF 1 > Len(places) THEN 0 ELSE Len(places) - 1 + 1
    <3>1. 1 \in Int /\ Len(places) \in Int
      BY <1>3
    <3>2. QED
      BY <3>1, FS_Interval
  <2>2. QED
    BY <1>1, <1>3, <2>1, AskedSize
<1>6. Cardinality(D) \in Nat /\ Cardinality(D) <= Asked.faultCap
  <2> DEFINE ids == {IdAt(places[k]) : k \in D}
  <2>1. Cardinality(ids) = Cardinality(D) /\ Cardinality(D) \in Nat
    <3>1. D \in SUBSET DOMAIN places
      OBVIOUS
    <3> HIDE DEF D
    <3>2. QED
      BY <1>1, <3>1, AsManyMembers
  <2>2. ids \in SUBSET Diverged
    OBVIOUS
  <2>3. IsFiniteSet(Diverged) /\ Cardinality(Diverged) \in Nat
    <3>1. Diverged \in SUBSET Members
      BY DEF Diverged
    <3>2. QED
      BY <3>1, MembersFinite
  <2>4. Cardinality(ids) <= Cardinality(Diverged)
    <3> HIDE DEF ids
    <3>1. QED
      BY <2>2, <2>3, FS_Subset
  <2> HIDE DEF ids
  <2>5. QED
    BY <2>1, <2>3, <2>4, StateTransferAssumption, AskedSize
<1>7. /\ IsFiniteSet(K) /\ Cardinality(K) \in Nat
      /\ Cardinality(K) >= Len(Asked.replicas) - Asked.faultCap
  <2>1. K = DOMAIN places \ D /\ DOMAIN places \cap D = D
    OBVIOUS
  <2> HIDE DEF K, D
  <2>2. /\ IsFiniteSet(DOMAIN places \ D)
        /\ Cardinality(DOMAIN places \ D) =
             Cardinality(DOMAIN places) - Cardinality(DOMAIN places \cap D)
    BY <1>5, FS_Difference
  <2>3. Cardinality(K) = Len(Asked.replicas) - Cardinality(D)
    BY <1>5, <2>1, <2>2
  <2>4. QED
    BY <1>6, <2>1, <2>2, <2>3, AskedSize, FS_CardinalityType
<1>8. \A S \in SUBSET DOMAIN places : K \subseteq S =>
        Cardinality(S) \in Nat /\ Cardinality(S) >= Len(Asked.replicas) - Asked.faultCap
  <2> HIDE DEF K
  <2>1. SUFFICES ASSUME NEW S \in SUBSET DOMAIN places, K \subseteq S
                 PROVE  /\ Cardinality(S) \in Nat
                        /\ Cardinality(S) >= Len(Asked.replicas) - Asked.faultCap
    OBVIOUS
  <2>2. IsFiniteSet(S) /\ Cardinality(S) \in Nat
    BY <1>5, FS_Subset, FS_CardinalityType
  <2>3. Cardinality(K) <= Cardinality(S)
    BY <2>1, <2>2, FS_Subset
  <2>4. QED
    BY <1>7, <2>2, <2>3, AskedSize
<1>9. PICK k \in K : TRUE
  <2>1. Cardinality(K) # 0
    BY <1>7, AskedSize
  <2> HIDE DEF K
  <2>2. QED
    BY <2>1, FS_EmptySet
<1>10. Good(places) \in SUBSET DOMAIN places /\ K \subseteq Good(places)
  BY <1>4 DEF Good
<1>11. CASE AsksHistory
  <2>1. Matching(places, k) \in SUBSET DOMAIN places /\ K \subseteq Matching(places, k)
    BY <1>4, <1>10 DEF Matching
  <2>2. Cardinality(Matching(places, k)) >= MatchingNeeded
    <3> HIDE DEF K
    <3>1. /\ Cardinality(Matching(places, k)) \in Nat
          /\ Cardinality(Matching(places, k)) >= Len(Asked.replicas) - Asked.faultCap
      BY <1>8, <2>1
    <3>2. QED
      BY <3>1, AskedSize DEF MatchingNeeded
  <2>3. k \in Agreed(places)
    BY <1>10, <2>2 DEF Agreed
  <2>4. QED
    BY <1>11, <2>3 DEF Successful, places
<1>12. CASE ~AsksHistory
  <2>1. Cardinality(Good(places)) >= UpdatesNeeded
    BY <1>8, <1>10 DEF UpdatesNeeded
  <2>2. k \in WithBlocks(places)
    BY <1>4, <1>10 DEF WithBlocks
  <2>3. QED
    BY <1>12, <2>1, <2>2 DEF Successful, Enough, places
<1>13. QED
  BY <1>11, <1>12

(***************************************************************************)
(* A call succeeds when the members on the common chain are equally far    *)
(* and answer, whatever the f others do: it needs no more matching or good *)
(* answers than they give (syncer.go:80, 186).                             *)
(***************************************************************************)
THEOREM StateTransferSettledSucceeds ==
  ASSUME ListedOnce, Contiguous(Common)
  PROVE  Spec => []SettledSucceeds
<1>1. Init => SettledInv /\ SettledSucceeds
  BY DEF Init, NoResult, SettledInv, SettledSucceeds
<1>2. TypeInv /\ SettledInv /\ SettledSucceeds /\ [Next]_vars => SettledSucceeds'
  <2> SUFFICES ASSUME TypeInv, SettledInv, SettledSucceeds, [Next]_vars
               PROVE  SettledSucceeds'
    OBVIOUS
  <2>1. CASE disturbed' = TRUE \/ call' # "idle"
    BY <2>1 DEF SettledSucceeds
  <2>2. CASE UNCHANGED <<call, result, disturbed>>
    BY <2>2 DEF SettledSucceeds
  <2>3. CASE result' = NoResult \/ result' = NotBehind
    BY <2>3 DEF SettledSucceeds, NoResult, NotBehind
  <2>4. ASSUME NEW i \in Place, GiveUp(i) PROVE disturbed' = TRUE
    <3>1. /\ Available(i) /\ ~Successful(Heard(i)) /\ AllReceived(Heard(i))
          /\ UNCHANGED disturbed
      BY <2>4 DEF GiveUp, historyVars
    <3>2. disturbed
      BY <3>1, AllHeardSucceeds
    <3>3. QED
      BY <3>1, <3>2 DEF TypeInv, TypeOK
  <2>5. ASSUME NEW i \in Place, ReturnHistory(i) \/ ReturnUpdate(i) PROVE result'.ok
    <3> DEFINE Succeeded(b) == [of |-> call, ok |-> TRUE, blocks |-> b]
    <3>1. \A b : Succeeded(b).ok
      BY Zenon
    <3> HIDE DEF Succeeded
    <3>2. \E b : result' = Succeeded(b)
      BY <2>5 DEF ReturnHistory, ReturnUpdate, Return, Succeeded
    <3>3. QED
      BY <3>1, <3>2, Zenon
  <2>6. ASSUME NEW i \in Place, Answer(i) \/ Fail(i) \/ Collect(i) \/ AcceptUpdate(i)
        PROVE  call' # "idle"
    BY <2>6 DEF Answer, Fail, Collect, AcceptUpdate, Available, FanOut
  <2>7. ASSUME Expire \/ (\E i \in Place : RejectUpdate(i)) \/ \E r \in Members : Execute(r)
        PROVE  disturbed' = TRUE
    BY <2>7 DEF Expire, RejectUpdate, Execute
  <2>8. ASSUME RequestHistory \/ RequestUpdate \/ \E c \in 0 .. MaxConf : SyncIfBehind(c)
        PROVE  result' = NoResult \/ result' = NotBehind
    BY <2>8 DEF RequestHistory, RequestUpdate, SyncIfBehind, NotBehind
  <2>9. CASE result'.ok
    BY <2>9 DEF SettledSucceeds
  <2>10. CASE UNCHANGED vars
    BY <2>2, <2>10 DEF vars, askVars, historyVars
  <2>11. CASE \E i \in Place : Answer(i) \/ Fail(i) \/ Take(i)
    BY <2>1, <2>4, <2>5, <2>6, <2>7, <2>9, <2>11, Zenon DEF Take
  <2>12. QED
    BY <2>1, <2>3, <2>7, <2>8, <2>10, <2>11, Zenon DEF Next
<1>3. QED
  BY <1>1, <1>2, NextSettledInv, TypeInvariant, PTL DEF Spec

=============================================================================
