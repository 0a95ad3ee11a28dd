--------------------------- MODULE LockstepProofs ---------------------------
(***************************************************************************)
(* Total order.  While every follower is needed for a quorum and nothing   *)
(* disturbs the first leader, the chain grows in lockstep: a block is      *)
(* proposed only when every follower has handled the one before, so the    *)
(* followers execute the same blocks in the same order, whatever is lost   *)
(* or overtaken, and the engine implements AtomicBroadcast.                *)
(*                                                                         *)
(* The inductive invariant LockInv says where each part of such a run is:  *)
(* a follower that has a proposal to come is one block behind, the others  *)
(* have handled the last block; a follower that votes is not behind, its   *)
(* vote is in flight or counted, never both; so a quorum of votes is one   *)
(* of every follower, and nothing of the round before is left in flight.   *)
(***************************************************************************)
EXTENDS DHotStuffProofs, EngineRules

(***************************************************************************)
(* The conditions: every replica has installed the committee c and no      *)
(* other, a leader does not handle its own proposals, no timer expires,    *)
(* the members start the chain, the clients ask for no change of           *)
(* membership, and every follower is needed for a quorum.                  *)
(***************************************************************************)
Lockstep(c) ==
  /\ InitialConfigs = {[r \in Replica |-> <<c>>]}
  /\ ~SelfPropose /\ \A r \in Replica : Timers[r] = 0
  /\ Bootstrap \subseteq MemberIds(c)
  /\ \A req \in Request : req.type = "REGULAR"
  /\ Cardinality(MemberIds(c)) <= QuorumSize(c) + 1

\* The leader of view 0, and those it proposes to.
First(c) == c.replicas[1].id

Audience(c) == Reachable(c) \ {First(c)}

-----------------------------------------------------------------------------
\* The hash of the block of height k; -1 stands for what is before genesis.
Digest(k) == [i \in 1 .. k + 2 |-> i - 2]

\* The height of the last block proposed.
Top == Len(proposed)

Nth(blocks, k) == IF k = 0 THEN GenesisBlock ELSE blocks[k]

Proposals == {m \in net : m.type = "propose"}

Votes == {m \in net : m.type = "vote"}

Pending(q) == \E m \in Proposals : m.dst = q

\* The last block a replica has handled.
Height(q) == IF Pending(q) THEN Top - 1 ELSE Top

\* Nothing moves but the view of the first leader.
Steady(c) ==
  /\ \A q \in Replica : configs[q] = <<c>> /\ timeout[q].phase = "idle"
  /\ \A q \in Replica \ {First(c)} : curView[q] = 0

\* The blocks proposed are one chain, each the child of the one before.
Chained ==
  \A k \in DOMAIN proposed :
    /\ proposed[k].parent = Digest(k - 1) /\ proposed[k].justify.hash = Digest(k - 1)
    /\ proposed[k].height = k /\ proposed[k].conf = 0
    /\ ~ChangesMembership(proposed[k])

\* A proposal in flight is of the last block, one for each follower at most.
OnlyTopInFlight(c) ==
  /\ \A m \in Proposals : m.dst \in Audience(c) /\ m.round = Top
  /\ \A m, n \in Proposals : m.dst = n.dst => m = n

\* A follower has stored what it has handled, and nothing but the chain.
Stored(c) ==
  /\ \A q \in Replica : chain[q] \subseteq {Nth(proposed, k) : k \in 0 .. Top}
  /\ \A q \in Audience(c) \cup {First(c)} :
       \A k \in 0 .. Height(q) : Nth(proposed, k) \in chain[q]
  /\ \A m \in Proposals : m.stored => Nth(proposed, Top) \in chain[m.dst]

\* A window holds the last blocks handled.
WindowsFollow(c) ==
  \A q \in Audience(c) :
    /\ Len(window[q]) <= 4 /\ Len(window[q]) <= Height(q)
    /\ \A i \in DOMAIN window[q] : window[q][i] = Nth(proposed, Height(q) - Len(window[q]) + i)

\* A follower has executed the chain but for the last three blocks handled.
ExecutedInOrder(c) ==
  /\ \A q \in Replica \ Audience(c) : executed[q] = << >>
  /\ \A q \in Audience(c) :
       /\ Len(executed[q]) = IF Height(q) < 3 THEN 0 ELSE Height(q) - 2
       /\ \A i \in DOMAIN executed[q] : executed[q][i] = Nth(proposed, i - 1)
       /\ delivered[q] = {Digest(i - 1) : i \in DOMAIN executed[q]}

\* A vote of a follower that has handled the last block, for that block.
ForTop(c, vote) ==
  /\ vote.view = 0 /\ vote.conf = 0 /\ vote.hash = Digest(Top)
  /\ vote.sig = Sign(vote.signer, 0, 0, Digest(Top))
  /\ vote.signer \in Audience(c) /\ ~Pending(vote.signer)

\* One vote of a follower, in flight or counted, and only by the first leader.
VotesForTop(c) ==
  /\ \A m \in Votes : m.dst = First(c) /\ m.answers = Top /\ ForTop(c, m.vote)
  /\ \A m, n \in Votes : m.vote.signer = n.vote.signer => m = n
  /\ \A q \in Replica, v \in View :
       \A i \in DOMAIN votesBuf[q][v] :
         /\ q = First(c) /\ v = 0 /\ Top > 0
         /\ ForTop(c, votesBuf[q][v][i])
         /\ \A m \in Votes : m.vote.signer # votesBuf[q][v][i].signer
         /\ \A j \in DOMAIN votesBuf[q][v] :
              votesBuf[q][v][i].signer = votesBuf[q][v][j].signer => i = j

\* Whose new-view messages are in flight or counted, and not used up.
Starters(c) ==
  {m.src : m \in NewViews}
    \cup {newViewBuf[First(c)][0][i].src : i \in DOMAIN newViewBuf[First(c)][0]}

\* They are of view 0; after the first proposal they are less than a quorum.
Starting(c) ==
  /\ \A m \in NewViews : m.dst = First(c) /\ m.view = 0 /\ m.qc = GenesisQC
  /\ \A i \in DOMAIN newViewBuf[First(c)][0] : newViewBuf[First(c)][0][i].qc = GenesisQC
  /\ Starters(c) \subseteq Bootstrap
  /\ IF Top = 0 THEN genericQC[First(c)] = NoQC
     ELSE Cardinality(Starters(c)) < QuorumSize(c)

\* A certificate that names the committee and passes ValidateQC.
Passes(qc, c) == qc.conf = 0 /\ ValidateQC(qc, c)

CertifiedBy(c) ==
  \A k \in DOMAIN proposed :
    proposed[k].justify = GenesisQC \/ Passes(proposed[k].justify, c)

LockInv(c) ==
  /\ Steady(c) /\ Chained /\ OnlyTopInFlight(c) /\ Stored(c)
  /\ WindowsFollow(c) /\ ExecutedInOrder(c) /\ VotesForTop(c) /\ Starting(c)
  /\ CertifiedBy(c)

-----------------------------------------------------------------------------
\* What the conditions say of the committee.
LEMMA LockstepCommittee ==
  ASSUME NEW c \in Committee, HasLeader(c), Lockstep(c)
  PROVE  /\ First(c) \in MemberIds(c) /\ First(c) \in Replica
         /\ Leader(c, 0).id = First(c)
         /\ c.number = 0
         /\ QuorumSize(c) \in Nat /\ QuorumSize(c) >= 1
         /\ IsFiniteSet(MemberIds(c)) /\ Cardinality(MemberIds(c)) \in Nat
         /\ Cardinality(MemberIds(c)) < 2 * QuorumSize(c)
<1> DEFINE n == Len(c.replicas)
           q == QuorumSize(c)
<1>1. /\ c.replicas \in Seq(Member) /\ c.faultCap \in Nat /\ n \in Nat /\ n >= 1
      /\ DOMAIN c.replicas = 1 .. n
  <2>1. c.replicas \in Seq(Member) /\ c.faultCap \in Nat
    BY DEF Committee
  <2>2. c.replicas # << >>
    BY DEF HasLeader
  <2>3. QED
    BY <2>1, <2>2
<1>2. c.replicas[1] \in Member
  BY <1>1
<1>3. First(c) \in MemberIds(c) /\ First(c) \in Replica
  BY <1>1, <1>2 DEF First, MemberIds, Member
<1>4. Leader(c, 0).id = First(c)
  <2> HIDE DEF n
  <2>1. 0 % n = 0
    BY <1>1
  <2>2. 1 + (0 % n) = 1
    BY <2>1
  <2>3. QED
    BY <2>2 DEF Leader, First, n
<1>5. c.number = 0
  <2>1. [r \in Replica |-> <<c>>] \in InitialConfigs
    BY DEF Lockstep
  <2>2. IsStore(<<c>>)
    BY <1>3, <2>1, DHotStuffAssumption
  <2>3. QED
    BY <2>2 DEF IsStore
<1>6. q \in Nat /\ q >= 1 /\ n < 2 * q
  <2>1. q = (n + c.faultCap + 2) \div 2
    BY DEF QuorumSize
  <2> HIDE DEF n, q
  <2>2. QED
    BY <1>1, <2>1, SMTT(30)
<1>7. /\ IsFiniteSet(MemberIds(c)) /\ Cardinality(MemberIds(c)) \in Nat
      /\ Cardinality(MemberIds(c)) <= n
  BY MemberCount, FS_CardinalityType
<1>8. Cardinality(MemberIds(c)) < 2 * q
  <2> HIDE DEF n, q
  <2>1. QED
    BY <1>1, <1>6, <1>7
<1>9. QED
  BY <1>3, <1>4, <1>5, <1>6, <1>7, <1>8

\* A proposal goes to the members other than the leader, which are a quorum at most.
LEMMA AudienceSize ==
  ASSUME NEW c \in Committee, HasLeader(c), Lockstep(c)
  PROVE  /\ Audience(c) \subseteq MemberIds(c) \ {First(c)}
         /\ Audience(c) \subseteq Replica
         /\ IsFiniteSet(Audience(c)) /\ Cardinality(Audience(c)) \in Nat
         /\ Cardinality(Audience(c)) <= QuorumSize(c)
<1>1. Audience(c) \subseteq MemberIds(c) \ {First(c)}
  <2>1. \A x \in ToSet(c.replicas) : \E i \in DOMAIN c.replicas : x = c.replicas[i]
    BY DEF ToSet
  <2>2. QED
    BY <2>1 DEF Audience, Reachable, MemberIds
<1>2. MemberIds(c) \subseteq Replica
  <2>1. \A i \in DOMAIN c.replicas : c.replicas[i] \in Member
    BY DEF Committee
  <2>2. QED
    BY <2>1 DEF MemberIds, Member
<1>3. IsFiniteSet(Audience(c)) /\ Cardinality(Audience(c)) \in Nat
  BY <1>1, LockstepCommittee, FS_Subset, FS_CardinalityType
<1>4. Cardinality(MemberIds(c) \ {First(c)}) = Cardinality(MemberIds(c)) - 1
  BY LockstepCommittee, FS_RemoveElement
<1>5. IsFiniteSet(MemberIds(c) \ {First(c)})
  BY LockstepCommittee, FS_RemoveElement
<1>6. Cardinality(Audience(c)) <= Cardinality(MemberIds(c)) - 1
  BY <1>1, <1>4, <1>5, FS_Subset
<1>7. QED
  BY <1>1, <1>2, <1>3, <1>6, LockstepCommittee DEF Lockstep

-----------------------------------------------------------------------------
\* The hashes of a chain are told apart by their lengths.
LEMMA DigestFacts ==
  ASSUME NEW k \in Int, k >= -1
  PROVE  /\ Digest(k) \in Seq(Int) /\ Len(Digest(k)) = k + 2 /\ Digest(k) # << >>
         /\ Append(Digest(k), k + 1) = Digest(k + 1)
<1>1. k + 2 \in Nat /\ k + 2 >= 1
  OBVIOUS
<1>2. Digest(k) \in [1 .. k + 2 -> Int]
  BY DEF Digest
<1>3. Digest(k) \in Seq(Int) /\ Len(Digest(k)) = k + 2
  BY <1>1, <1>2
<1>4. Digest(k) # << >>
  BY <1>1, <1>3
<1>5. Append(Digest(k), k + 1) = Digest(k + 1)
  <2> DEFINE d == Digest(k)
             a == Append(d, k + 1)
             e == Digest(k + 1)
  <2>1. /\ a \in Seq(Int) /\ Len(a) = k + 3
        /\ \A i \in 1 .. k + 2 : a[i] = d[i]
        /\ a[k + 3] = k + 1
    BY <1>3, AppendProperties
  <2>2. e \in [1 .. k + 3 -> Int] /\ \A i \in 1 .. k + 3 : e[i] = i - 2
    BY DEF Digest
  <2>3. e \in Seq(Int) /\ Len(e) = k + 3
    BY <1>1, <2>2
  <2>4. \A i \in 1 .. k + 2 : d[i] = i - 2
    BY DEF Digest
  <2>5. \A i \in 1 .. k + 3 : a[i] = e[i]
    <3> HIDE DEF a, d, e
    <3>1. TAKE i \in 1 .. k + 3
    <3>2. CASE i \in 1 .. k + 2
      BY <2>1, <2>2, <2>4, <3>2
    <3>3. CASE i = k + 3
      BY <2>1, <2>2, <3>3
    <3>4. QED
      BY <3>2, <3>3
  <2> HIDE DEF a, d, e
  <2>6. a = e
    BY <2>1, <2>3, <2>5, SeqEqual
  <2>7. QED
    BY <2>6 DEF a, d, e
<1>6. QED
  BY <1>3, <1>4, <1>5

LEMMA DigestsDiffer ==
  ASSUME NEW j \in Int, j >= -1, NEW k \in Int, k >= -1, Digest(j) = Digest(k)
  PROVE  j = k
BY DigestFacts

\* The genesis block, too, is one of the chain.
LEMMA NoChanges ==
  ASSUME NEW s \in Seq(Request), \A req \in Request : req.type = "REGULAR"
  PROVE  MembershipRequests(s) = << >>
<1> DEFINE S == {req \in MembershipRequest : req.type # "REGULAR"}
<1>1. Only(s, S) \in Seq(Request \cap S)
  BY OnlyType
<1>2. Request \cap S = {}
  OBVIOUS
<1>3. \A t \in Seq({}) : t = << >>
  <2>1. SUFFICES ASSUME NEW t \in Seq({}), Len(t) > 0 PROVE FALSE
    BY EmptySeq
  <2>2. t[1] \in {}
    BY <2>1
  <2>3. QED
    BY <2>2
<1>4. QED
  BY <1>1, <1>2, <1>3 DEF MembershipRequests

LEMMA NthFacts ==
  ASSUME TypeInv, Chained, NEW k \in 0 .. Top,
         \A req \in Request : req.type = "REGULAR"
  PROVE  /\ Nth(proposed, k) \in Block /\ Nth(proposed, k).height = k /\ Nth(proposed, k).conf = 0
         /\ Nth(proposed, k).parent = Digest(k - 1) /\ HashBlock(Nth(proposed, k)) = Digest(k)
         /\ Nth(proposed, k).justify.hash = IF k = 0 THEN << >> ELSE Digest(k - 1)
         /\ ~ChangesMembership(Nth(proposed, k))
<1>1. proposed \in Seq(Block) /\ DOMAIN proposed = 1 .. Top /\ Top \in Nat
  BY DEF TypeInv, TypeOK, Top
<1>2. CASE k = 0
  <2>1. Nth(proposed, k) = GenesisBlock
    BY <1>2 DEF Nth
  <2>2. Digest(-1) = <<-1>>
    <3>1. Digest(-1) = [i \in 1 .. 1 |-> -1]
      BY DEF Digest
    <3>2. Digest(-1) \in Seq(Int) /\ Len(Digest(-1)) = 1 /\ Digest(-1)[1] = -1
      BY <3>1, DigestFacts
    <3>3. QED
      BY <3>2, SeqEqual
  <2>3. /\ GenesisBlock.parent = Digest(-1) /\ GenesisBlock.height = 0
        /\ GenesisBlock.conf = 0 /\ GenesisBlock.justify.hash = << >>
        /\ GenesisBlock.batch = << >>
    BY <2>2 DEF GenesisBlock, NoQC
  <2>4. HashBlock(GenesisBlock) = Digest(0)
    <3>1. ASSUME NEW m \in Int, m = -1 PROVE Append(Digest(m), 0) = Digest(0)
      <4>1. m + 1 = 0 /\ m >= -1
        BY <3>1
      <4>2. Append(Digest(m), m + 1) = Digest(m + 1)
        BY <4>1, DigestFacts
      <4>3. QED
        BY <4>1, <4>2
    <3>2. QED
      BY <2>3, <3>1 DEF HashBlock
  <2>5. ~ChangesMembership(GenesisBlock)
    <3>1. << >> \in Seq(Request)
      OBVIOUS
    <3>2. QED
      BY <2>3, <3>1, NoChanges DEF ChangesMembership
  <2>6. k - 1 = -1
    BY <1>2
  <2>7. QED
    BY <1>2, <2>1, <2>3, <2>4, <2>5, <2>6, GenesisType
<1>3. CASE k # 0
  <2>1. k \in DOMAIN proposed /\ Nth(proposed, k) = proposed[k] /\ k - 1 >= -1 /\ k - 1 \in Int
          /\ k - 1 + 1 = k
    BY <1>1, <1>3 DEF Nth
  <2>2. Nth(proposed, k) \in Block
    BY <1>1, <2>1
  <2>3. Append(Digest(k - 1), k) = Digest(k)
    BY <2>1, DigestFacts
  <2>4. QED
    BY <1>3, <2>1, <2>2, <2>3 DEF Chained, HashBlock
<1>4. QED
  BY <1>2, <1>3

\* What a store returns for a hash of the chain.
LEMMA GetNth ==
  ASSUME TypeInv, Chained, \A req \in Request : req.type = "REGULAR",
         NEW store, store \subseteq {Nth(proposed, k) : k \in 0 .. Top}
  PROVE  /\ Get(store, << >>) = {}
         /\ \A k \in 0 .. Top :
              Nth(proposed, k) \in store => Get(store, Digest(k)) = {Nth(proposed, k)}
<1>0. Top \in Nat
  BY DEF TypeInv, TypeOK, Top
<1>1. \A k \in 0 .. Top : HashBlock(Nth(proposed, k)) = Digest(k)
  BY NthFacts
<1>2. \A b \in store : \E k \in 0 .. Top : b = Nth(proposed, k)
  OBVIOUS
<1>3. Get(store, << >>) = {}
  BY <1>0, <1>1, <1>2, DigestFacts DEF Get
<1>4. ASSUME NEW k \in 0 .. Top, Nth(proposed, k) \in store
      PROVE  Get(store, Digest(k)) = {Nth(proposed, k)}
  <2>1. ASSUME NEW b \in store, HashBlock(b) = Digest(k) PROVE b = Nth(proposed, k)
    <3>1. PICK j \in 0 .. Top : b = Nth(proposed, j)
      BY <1>2
    <3>2. Digest(j) = Digest(k)
      BY <1>1, <2>1, <3>1
    <3>3. j = k
      BY <1>0, <3>2, DigestsDiffer
    <3>4. QED
      BY <3>1, <3>3
  <2>2. QED
    BY <1>1, <1>4, <2>1 DEF Get
<1>5. QED
  BY <1>3, <1>4

-----------------------------------------------------------------------------
\* A step that proposes nothing and after which the same replicas are behind.
SameRound ==
  /\ proposed' = proposed
  /\ \A q : Pending(q)' <=> Pending(q)

LEMMA SameRoundMeans ==
  ASSUME SameRound
  PROVE  /\ Top' = Top
         /\ \A k : Nth(proposed', k) = Nth(proposed, k)
         /\ \A q : Height(q)' = Height(q)
         /\ \A c, vote : ForTop(c, vote)' <=> ForTop(c, vote)
<1>1. Top' = Top /\ \A k : Nth(proposed', k) = Nth(proposed, k)
  BY DEF SameRound, Top, Nth
<1>2. \A q : Height(q)' = Height(q)
  BY <1>1 DEF SameRound, Height
<1>3. \A c, vote : ForTop(c, vote)' <=> ForTop(c, vote)
  BY <1>1 DEF SameRound, ForTop
<1>4. QED
  BY <1>1, <1>2, <1>3

LEMMA HistoryKept ==
  ASSUME NEW c, LockInv(c), SameRound, UNCHANGED <<configs, timeout, curView>>,
         UNCHANGED <<window, executed, delivered>>
  PROVE  /\ Steady(c)' /\ Chained' /\ WindowsFollow(c)' /\ ExecutedInOrder(c)'
         /\ CertifiedBy(c)'
<1>1. Steady(c)' /\ Chained' /\ CertifiedBy(c)'
  BY DEF LockInv, Steady, Chained, CertifiedBy, SameRound
<1>2. WindowsFollow(c)'
  BY SameRoundMeans DEF LockInv, WindowsFollow
<1>3. ExecutedInOrder(c)'
  BY SameRoundMeans DEF LockInv, ExecutedInOrder
<1>4. QED
  BY <1>1, <1>2, <1>3

LEMMA RoundKept ==
  ASSUME NEW c, LockInv(c), proposed' = proposed, Proposals' = Proposals,
         UNCHANGED <<configs, timeout, curView>>,
         UNCHANGED <<window, executed, delivered, chain>>
  PROVE  /\ SameRound
         /\ Steady(c)' /\ Chained' /\ OnlyTopInFlight(c)' /\ Stored(c)'
         /\ WindowsFollow(c)' /\ ExecutedInOrder(c)' /\ CertifiedBy(c)'
<1>1. SameRound
  BY DEF SameRound, Pending
<1>2. OnlyTopInFlight(c)'
  BY <1>1, SameRoundMeans DEF LockInv, OnlyTopInFlight
<1>3. Stored(c)'
  BY <1>1, SameRoundMeans DEF LockInv, Stored
<1>4. QED
  BY <1>1, <1>2, <1>3, HistoryKept

\* No vote is sent or counted.
LEMMA VotesKept ==
  ASSUME NEW c, LockInv(c), SameRound, Votes' \subseteq Votes, votesBuf' = votesBuf
  PROVE  VotesForTop(c)'
<1>1. Top' = Top /\ \A vote : ForTop(c, vote)' <=> ForTop(c, vote)
  BY SameRoundMeans
<1>2. QED
  BY <1>1 DEF LockInv, VotesForTop

\* No new-view message is sent or counted.
LEMMA StartKept ==
  ASSUME NEW c, LockInv(c), SameRound, NewViews' = NewViews, newViewBuf' = newViewBuf,
         genericQC'[First(c)] = genericQC[First(c)]
  PROVE  Starting(c)'
<1>1. Top' = Top
  BY SameRoundMeans
<1>2. Starters(c)' = Starters(c)
  BY DEF Starters
<1>3. QED
  BY <1>1, <1>2 DEF LockInv, Starting

-----------------------------------------------------------------------------
\* What the engine of a lockstep run looks up.
LEMMA LockstepState ==
  ASSUME NEW c \in Committee, HasLeader(c), Lockstep(c), LockInv(c), NEW r \in Replica
  PROVE  /\ Mc(r) = c /\ Mc(r).number = 0 /\ configs[r] = <<c>>
         /\ BroadcastTargets(First(c)) = Audience(c)
         /\ \A req \in Request : req.type = "REGULAR"
<1>1. \A q \in Replica : Mc(q) = c /\ configs[q] = <<c>>
  BY DEF LockInv, Steady, Mc, Latest
<1>2. First(c) \in Replica /\ c.number = 0
  BY LockstepCommittee
<1>3. BroadcastTargets(First(c)) = Audience(c)
  BY <1>1, <1>2 DEF BroadcastTargets, Audience, Lockstep
<1>4. QED
  BY <1>1, <1>2, <1>3 DEF Lockstep

LEMMA SubmitRequestLockInv ==
  ASSUME NEW c, LockInv(c), NEW r \in Replica, NEW req \in Request, SubmitRequest(r, req)
  PROVE  LockInv(c)'
<1>1. /\ UNCHANGED <<configs, timeout, curView, proposed, net>>
      /\ UNCHANGED <<window, executed, delivered, chain, votesBuf, newViewBuf, genericQC>>
  BY DEF SubmitRequest, engineVars, bufferVars, viewVars, deliverVars
<1>2. Proposals' = Proposals /\ Votes' = Votes /\ NewViews' = NewViews
  BY <1>1 DEF Proposals, Votes, NewViews
<1>3. QED
  BY <1>1, <1>2, RoundKept, VotesKept, StartKept DEF LockInv

LEMMA DropVoteLockInv ==
  ASSUME NEW c, LockInv(c), NEW r \in Replica, NEW m \in net, DropVote(r, m)
  PROVE  LockInv(c)'
<1>1. /\ UNCHANGED <<configs, timeout, curView, proposed>>
      /\ UNCHANGED <<window, executed, delivered, chain, votesBuf, newViewBuf, genericQC>>
      /\ net' = net \ {m} /\ m.type = "vote"
  BY DEF DropVote, engineVars, bufferVars, viewVars, deliverVars
<1>2. Proposals' = Proposals /\ Votes' \subseteq Votes /\ NewViews' = NewViews
  BY <1>1 DEF Proposals, Votes, NewViews
<1>3. QED
  BY <1>1, <1>2, RoundKept, VotesKept, StartKept DEF LockInv

\* No block is of a later configuration, and no timer has expired.
LEMMA IgnoreProposeNever ==
  ASSUME NEW c \in Committee, HasLeader(c), Lockstep(c), TypeInv, LockInv(c),
         NEW r \in Replica, NEW m \in net, IgnorePropose(r, m)
  PROVE  FALSE
<1>1. m.round \in DOMAIN proposed
  BY DEF IgnorePropose, TypeInv, RoundsProposed
<1>2. proposed[m.round].conf = 0
  BY <1>1 DEF LockInv, Chained
<1>3. QED
  BY <1>2, LockstepState DEF IgnorePropose, AheadOf

LEMMA TimeoutNever ==
  ASSUME NEW c, Lockstep(c), TypeInv, LockInv(c), NEW r \in Replica,
         TimeoutBegin(r) \/ OnTimeout(r) \/ TimeoutEnd(r)
  PROVE  FALSE
<1>1. timeout[r].phase = "idle" /\ Timers[r] = 0 /\ vcView[r] \in Nat
  BY DEF Lockstep, LockInv, Steady, TypeInv, TypeOK
<1>2. ~(vcView[r] < Timers[r])
  BY <1>1
<1>3. QED
  BY <1>1, <1>2 DEF TimeoutBegin, OnTimeout, TimeoutEnd

-----------------------------------------------------------------------------
\* The embedding stores the last block.
LEMMA PutNth ==
  ASSUME TypeInv, Chained, \A req \in Request : req.type = "REGULAR",
         NEW store, store \subseteq {Nth(proposed, k) : k \in 0 .. Top}
  PROVE  \A k \in 0 .. Top : Put(store, Nth(proposed, k)) = store \cup {Nth(proposed, k)}
<1> TAKE k \in 0 .. Top
<1>1. HashBlock(Nth(proposed, k)) = Digest(k)
  BY NthFacts
<1>2. Get(store, Digest(k)) \subseteq {Nth(proposed, k)}
  <2>1. CASE Nth(proposed, k) \in store
    BY <2>1, GetNth
  <2>2. CASE Nth(proposed, k) \notin store
    <3> DEFINE more == store \cup {Nth(proposed, k)}
    <3>1. more \subseteq {Nth(proposed, j) : j \in 0 .. Top} /\ Nth(proposed, k) \in more
      OBVIOUS
    <3>2. Get(more, Digest(k)) = {Nth(proposed, k)}
      <4> HIDE DEF more
      <4>1. QED
        BY <3>1, GetNth
    <3>3. QED
      BY <3>2 DEF Get
  <2>3. QED
    BY <2>1, <2>2
<1>3. QED
  BY <1>1, <1>2 DEF Put

LEMMA StoreBlockLockInv ==
  ASSUME NEW c \in Committee, HasLeader(c), Lockstep(c), TypeInv, LockInv(c),
         NEW r \in Replica, NEW m \in net, StoreBlock(r, m)
  PROVE  LockInv(c)'
<1> DEFINE m2 == [m EXCEPT !.stored = TRUE]
<1>1. /\ UNCHANGED <<configs, timeout, curView, proposed>>
      /\ UNCHANGED <<window, executed, delivered, votesBuf, newViewBuf, genericQC>>
      /\ net' = (net \ {m}) \cup {m2} /\ m.type = "propose" /\ m.dst = r
      /\ chain' = [chain EXCEPT ![r] = Put(@, proposed[m.round])]
  BY DEF StoreBlock, engineVars, bufferVars, viewVars, deliverVars
<1>2. m2.type = "propose" /\ m2.dst = m.dst /\ m2.round = m.round
  <2>1. m \in ProposeMsg
    BY <1>1, MessageKinds DEF TypeInv
  <2>2. QED
    BY <1>1, <2>1, Zenon DEF ProposeMsg
<1> HIDE DEF m2
<1>3. /\ Proposals' = (Proposals \ {m}) \cup {m2} /\ m \in Proposals
      /\ Votes' = Votes /\ NewViews' = NewViews
  BY <1>1, <1>2 DEF Proposals, Votes, NewViews
<1>4. \A q : Pending(q)' <=> Pending(q)
  BY <1>2, <1>3 DEF Pending
<1>5. SameRound
  BY <1>1, <1>4 DEF SameRound
<1>6. m.round = Top /\ r \in Audience(c) /\ Top >= 1 /\ Top \in Nat
        /\ proposed[m.round] = Nth(proposed, Top)
  <2>1. m.round = Top /\ r \in Audience(c)
    BY <1>1, <1>3 DEF LockInv, OnlyTopInFlight
  <2>2. m.round \in DOMAIN proposed /\ DOMAIN proposed = 1 .. Top /\ Top \in Nat
    BY <1>1 DEF TypeInv, TypeOK, RoundsProposed, Top
  <2>3. QED
    BY <2>1, <2>2 DEF Nth
<1>7. OnlyTopInFlight(c)'
  <2>1. Top' = Top
    BY <1>5, SameRoundMeans
  <2>2. QED
    BY <1>2, <1>3, <2>1 DEF LockInv, OnlyTopInFlight
<1>8. Stored(c)'
  <2>1. /\ chain'[r] = chain[r] \cup {Nth(proposed, Top)}
        /\ chain[r] \subseteq {Nth(proposed, k) : k \in 0 .. Top}
    <3>1. chain[r] \subseteq {Nth(proposed, k) : k \in 0 .. Top}
      BY DEF LockInv, Stored
    <3>2. Put(chain[r], Nth(proposed, Top)) = chain[r] \cup {Nth(proposed, Top)}
      BY <1>6, <3>1, PutNth, LockstepState DEF LockInv
    <3>3. chain'[r] = Put(chain[r], Nth(proposed, Top))
      BY <1>1, <1>6 DEF TypeInv, TypeOK
    <3>4. QED
      BY <3>1, <3>2, <3>3
  <2>2. \A q \in Replica \ {r} : chain'[q] = chain[q]
    BY <1>1 DEF TypeInv, TypeOK
  <2>3. /\ Top' = Top /\ \A k : Nth(proposed', k) = Nth(proposed, k)
        /\ \A q : Height(q)' = Height(q)
    BY <1>5, SameRoundMeans
  <2>4. \A q \in Replica : chain[q] \subseteq chain'[q]
                             /\ chain'[q] \subseteq {Nth(proposed', k) : k \in 0 .. Top'}
    <3>1. \A q \in Replica : chain[q] \subseteq chain'[q]
      BY <2>1, <2>2
    <3>2. \A q \in Replica : chain[q] \subseteq {Nth(proposed', k) : k \in 0 .. Top'}
      BY <2>3 DEF LockInv, Stored
    <3>3. Nth(proposed, Top) \in {Nth(proposed', k) : k \in 0 .. Top'}
      BY <1>6, <2>3
    <3>4. QED
      BY <2>1, <2>2, <3>1, <3>2, <3>3
  <2>5. Audience(c) \cup {First(c)} \subseteq Replica
    BY AudienceSize, LockstepCommittee
  <2>6. \A q \in Audience(c) \cup {First(c)} :
          \A k \in 0 .. Height(q)' : Nth(proposed', k) \in chain'[q]
    BY <2>3, <2>4, <2>5 DEF LockInv, Stored
  <2>7. \A n \in Proposals' : n.stored => Nth(proposed', Top) \in chain'[n.dst]
    <3>1. \A n \in Proposals \ {m} :
            n.stored => Nth(proposed, Top) \in chain[n.dst] /\ n.dst \in Replica
      BY <2>5 DEF LockInv, Stored, OnlyTopInFlight
    <3>2. Nth(proposed, Top) \in chain'[m2.dst]
      BY <1>1, <1>2, <2>1
    <3>3. QED
      BY <1>3, <2>3, <2>4, <3>1, <3>2
  <2>8. QED
    BY <2>3, <2>4, <2>6, <2>7 DEF Stored
<1>9. QED
  BY <1>1, <1>3, <1>5, <1>7, <1>8, HistoryKept, VotesKept, StartKept DEF LockInv

-----------------------------------------------------------------------------
\* Votes.  Those counted and those in flight are of distinct followers.
LEMMA VoteCounted ==
  ASSUME NEW c \in Committee, HasLeader(c), Lockstep(c), TypeInv, LockInv(c),
         NEW r \in Replica, NEW m \in net, m.type = "vote", m.dst = r
  PROVE  /\ r = First(c) /\ m.vote.view = 0 /\ 0 \in View /\ Top \in Nat /\ Top > 0
         /\ VotesWith(r, m.vote) \in Seq(Vote)
         /\ \A i \in DOMAIN VotesWith(r, m.vote) :
              /\ ForTop(c, VotesWith(r, m.vote)[i])
              /\ \A n \in Votes \ {m} : n.vote.signer # VotesWith(r, m.vote)[i].signer
              /\ \A j \in DOMAIN VotesWith(r, m.vote) :
                   VotesWith(r, m.vote)[i].signer = VotesWith(r, m.vote)[j].signer => i = j
<1> DEFINE old == votesBuf[r][0]
           new == VotesWith(r, m.vote)
<1>1. m \in Votes /\ r = First(c) /\ m.answers = Top /\ ForTop(c, m.vote)
  BY DEF Votes, LockInv, VotesForTop
<1>2. m.vote.view = 0 /\ m.vote \in Vote /\ new \in Seq(Vote) /\ 0 \in View
  BY <1>1, VotesWithType DEF ForTop, TypeInv
<1>3. Top \in Nat /\ Top > 0
  <2>1. Top \in DOMAIN proposed /\ DOMAIN proposed = 1 .. Top /\ Top \in Nat
    BY <1>1 DEF TypeInv, TypeOK, RoundsProposed, Top
  <2>2. QED
    BY <2>1
<1>4. old \in Seq(Vote)
  BY <1>2 DEF TypeInv, TypeOK
<1>5. \A i \in DOMAIN old :
        /\ ForTop(c, old[i])
        /\ \A n \in Votes : n.vote.signer # old[i].signer
        /\ \A j \in DOMAIN old : old[i].signer = old[j].signer => i = j
  BY <1>1, <1>2 DEF LockInv, VotesForTop
<1>6. new = Append(old, m.vote)
  <2>1. m.vote.signer \notin Signers(old)
    BY <1>1, <1>5 DEF Signers
  <2>2. QED
    BY <1>2, <2>1 DEF VotesWith, AggregateVotes
<1>7. \A n \in Votes \ {m} : n.vote.signer # m.vote.signer
  BY <1>1 DEF LockInv, VotesForTop
<1> DEFINE len == Len(old)
<1>8. /\ len \in Nat /\ DOMAIN old = 1 .. len /\ DOMAIN new = 1 .. len + 1
      /\ \A i \in 1 .. len : new[i] = old[i]
      /\ new[len + 1] = m.vote
  <2> HIDE DEF old, new
  <2>1. QED
    BY <1>2, <1>4, <1>6, AppendProperties
<1> HIDE DEF old, new, len
<1>9. ASSUME NEW i \in 1 .. len + 1
      PROVE  /\ ForTop(c, new[i])
             /\ \A n \in Votes \ {m} : n.vote.signer # new[i].signer
             /\ \A j \in 1 .. len + 1 : new[i].signer = new[j].signer => i = j
  <2>1. CASE i \in 1 .. len
    <3>1. \A j \in 1 .. len : new[i].signer = new[j].signer => i = j
      BY <1>5, <1>8, <2>1
    <3>2. new[i].signer # new[len + 1].signer
      BY <1>1, <1>5, <1>8, <2>1
    <3>3. \A j \in 1 .. len + 1 : new[i].signer = new[j].signer => i = j
      BY <1>8, <3>1, <3>2
    <3>4. QED
      BY <1>5, <1>8, <2>1, <3>3
  <2>2. CASE i = len + 1
    <3>1. \A j \in 1 .. len : new[j].signer # new[i].signer
      BY <1>1, <1>5, <1>8, <2>2
    <3>2. \A j \in 1 .. len + 1 : new[i].signer = new[j].signer => i = j
      BY <1>8, <2>2, <3>1
    <3>3. QED
      BY <1>1, <1>7, <1>8, <2>2, <3>2
  <2>3. QED
    BY <1>8, <2>1, <2>2
<1>10. QED
  BY <1>1, <1>2, <1>3, <1>8, <1>9 DEF new

LEMMA CollectVoteLockInv ==
  ASSUME NEW c \in Committee, HasLeader(c), Lockstep(c), TypeInv, LockInv(c),
         NEW r \in Replica, NEW m \in net, CollectVote(r, m)
  PROVE  LockInv(c)'
<1> DEFINE new == VotesWith(r, m.vote)
<1>1. /\ UNCHANGED <<configs, timeout, curView, proposed>>
      /\ UNCHANGED <<window, executed, delivered, chain, newViewBuf, genericQC>>
      /\ net' = net \ {m} /\ m.type = "vote" /\ m.dst = r
      /\ votesBuf' = [votesBuf EXCEPT ![r][m.vote.view] = new]
  BY DEF CollectVote, engineVars, viewVars, deliverVars
<1>2. Proposals' = Proposals /\ Votes' = Votes \ {m} /\ NewViews' = NewViews
  BY <1>1 DEF Proposals, Votes, NewViews
<1>3. /\ r = First(c) /\ m.vote.view = 0 /\ 0 \in View /\ Top > 0
      /\ \A i \in DOMAIN new :
           /\ ForTop(c, new[i])
           /\ \A n \in Votes \ {m} : n.vote.signer # new[i].signer
           /\ \A j \in DOMAIN new : new[i].signer = new[j].signer => i = j
  BY <1>1, VoteCounted
<1> HIDE DEF new
<1>4. SameRound
  BY <1>1, <1>2, RoundKept
<1>5. Top' = Top /\ \A vote : ForTop(c, vote)' <=> ForTop(c, vote)
  BY <1>4, SameRoundMeans
<1>6. \A q \in Replica, v \in View :
        votesBuf'[q][v] = IF q = r /\ v = 0 THEN new ELSE votesBuf[q][v]
  BY <1>1, <1>3 DEF TypeInv, TypeOK
<1>7. VotesForTop(c)'
  <2>1. \A n \in Votes' : n.dst = First(c) /\ n.answers = Top /\ ForTop(c, n.vote)
    BY <1>2 DEF LockInv, VotesForTop
  <2>2. \A n, o \in Votes' : n.vote.signer = o.vote.signer => n = o
    BY <1>2 DEF LockInv, VotesForTop
  <2>3. ASSUME NEW q \in Replica, NEW v \in View, NEW i \in DOMAIN votesBuf'[q][v]
        PROVE  /\ q = First(c) /\ v = 0 /\ Top > 0
               /\ ForTop(c, votesBuf'[q][v][i])
               /\ \A n \in Votes' : n.vote.signer # votesBuf'[q][v][i].signer
               /\ \A j \in DOMAIN votesBuf'[q][v] :
                    votesBuf'[q][v][i].signer = votesBuf'[q][v][j].signer => i = j
    <3>1. CASE q = r /\ v = 0
      <4>1. votesBuf'[q][v] = new
        BY <1>6, <3>1
      <4>2. QED
        BY <1>2, <1>3, <3>1, <4>1
    <3>2. CASE ~(q = r /\ v = 0)
      <4>1. votesBuf'[q][v] = votesBuf[q][v]
        BY <1>6, <3>2
      <4>2. QED
        BY <1>2, <4>1 DEF LockInv, VotesForTop
    <3>3. QED
      BY <3>1, <3>2
  <2>4. QED
    BY <1>5, <2>1, <2>2, <2>3 DEF VotesForTop
<1>8. QED
  BY <1>1, <1>2, <1>4, <1>7, RoundKept, StartKept DEF LockInv

-----------------------------------------------------------------------------
\* A quorum has the vote of every follower, so none is behind and none is left over.
LEMMA QuorumIsAudience ==
  ASSUME NEW c \in Committee, HasLeader(c), Lockstep(c), TypeInv, LockInv(c),
         NEW r \in Replica, NEW m \in net, m.type = "vote", m.dst = r,
         HasQuorum(VotesWith(r, m.vote), c)
  PROVE  Proposals = {} /\ Votes \ {m} = {}
<1> DEFINE new == VotesWith(r, m.vote)
<1>1. /\ new \in Seq(Vote)
      /\ \A i \in DOMAIN new :
           ForTop(c, new[i]) /\ \A n \in Votes \ {m} : n.vote.signer # new[i].signer
  <2>1. /\ new \in Seq(Vote)
        /\ \A i \in DOMAIN new :
             /\ ForTop(c, new[i])
             /\ \A n \in Votes \ {m} : n.vote.signer # new[i].signer
             /\ \A j \in DOMAIN new : new[i].signer = new[j].signer => i = j
    BY VoteCounted
  <2> HIDE DEF new
  <2>2. QED
    BY <2>1
<1> HIDE DEF new
<1>2. Signers(new) \subseteq Audience(c) /\ \A q \in Signers(new) : ~Pending(q)
  BY <1>1 DEF Signers, ForTop
<1>3. Cardinality(Signers(new)) >= QuorumSize(c) /\ Cardinality(Signers(new)) \in Nat
  BY <1>1, SignersCount DEF HasQuorum, new
<1>4. Signers(new) = Audience(c)
  <2>1. /\ IsFiniteSet(Audience(c)) /\ Cardinality(Audience(c)) \in Nat
        /\ Cardinality(Audience(c)) <= QuorumSize(c) /\ QuorumSize(c) \in Nat
    BY AudienceSize, LockstepCommittee
  <2>2. Cardinality(Signers(new)) <= Cardinality(Audience(c))
    BY <1>2, <2>1, FS_Subset
  <2>3. Cardinality(Signers(new)) = Cardinality(Audience(c))
    BY <1>3, <2>1, <2>2
  <2>4. QED
    BY <1>2, <2>1, <2>3, FS_Subset
<1>5. Proposals = {}
  BY <1>2, <1>4 DEF LockInv, OnlyTopInFlight, Pending
<1>6. Votes \ {m} = {}
  <2>1. \A n \in Votes : n.vote.signer \in Signers(new)
    BY <1>4 DEF LockInv, VotesForTop, ForTop
  <2>2. QED
    BY <1>1, <2>1 DEF Signers
<1>7. QED
  BY <1>5, <1>6

\* The certificate is one ValidateQC accepts, of the last block.
LEMMA QuorumValid ==
  ASSUME NEW c \in Committee, HasLeader(c), Lockstep(c), TypeInv, LockInv(c),
         NEW r \in Replica, NEW m \in net, m.type = "vote", m.dst = r,
         HasQuorum(VotesWith(r, m.vote), c)
  PROVE  LET qc == Certificate(VotesWith(r, m.vote), c)
         IN  qc \in QuorumCert /\ qc.hash = Digest(Top) /\ Passes(qc, c)
<1> DEFINE new == VotesWith(r, m.vote)
           qc  == Certificate(new, c)
<1>1. new \in Seq(Vote) /\ \A i \in DOMAIN new : ForTop(c, new[i])
  <2>1. /\ new \in Seq(Vote)
        /\ \A i \in DOMAIN new :
             /\ ForTop(c, new[i])
             /\ \A n \in Votes \ {m} : n.vote.signer # new[i].signer
             /\ \A j \in DOMAIN new : new[i].signer = new[j].signer => i = j
    BY VoteCounted
  <2> HIDE DEF new
  <2>2. QED
    BY <2>1
<1> HIDE DEF new
<1>2. HasQuorum(new, c)
  BY DEF new
<1>3. \A i \in DOMAIN new : /\ new[i].sig.by = new[i].signer
                            /\ new[i].signer \in Audience(c)
                            /\ new[i].sig.hash = Digest(Top)
  <2> SUFFICES ASSUME NEW i \in DOMAIN new
               PROVE  /\ new[i].sig.by = new[i].signer
                      /\ new[i].signer \in Audience(c)
                      /\ new[i].sig.hash = Digest(Top)
    OBVIOUS
  <2>1. /\ new[i].sig = Sign(new[i].signer, 0, 0, Digest(Top))
        /\ new[i].signer \in Audience(c)
    BY <1>1 DEF ForTop
  <2>2. \A by, hash : /\ Sign(by, 0, 0, hash).by = by
                      /\ Sign(by, 0, 0, hash).hash = hash
    BY DEF Sign
  <2>3. QED
    BY <2>1, <2>2
<1>4. OwnSignatures(new)
  BY <1>3 DEF OwnSignatures
<1>5. /\ qc \in QuorumCert /\ 1 \in DOMAIN new
      /\ \A s \in qc.sigs : \E j \in DOMAIN new : s = new[j].sig
      /\ Cardinality(qc.sigs) >= QuorumSize(c)
      /\ \A s, t \in qc.sigs : s.by = t.by => s = t
  BY <1>1, <1>2, <1>4, CertificateSigned
<1>6. qc.hash = Digest(Top) /\ qc.conf = 0
  BY <1>1, <1>5 DEF Certificate, ForTop
<1> HIDE DEF qc
<1>7. \A s \in qc.sigs : s.by \in MemberIds(c) /\ s.hash = qc.hash
  BY <1>3, <1>5, <1>6, AudienceSize
<1>8. ValidateQC(qc, c)
  BY <1>5, <1>7 DEF ValidateQC
<1>9. QED
  BY <1>5, <1>6, <1>8 DEF Passes, qc, new

-----------------------------------------------------------------------------
\* The next block of the chain.
LEMMA NextBlock ==
  ASSUME NEW c \in Committee, HasLeader(c), Lockstep(c), TypeInv, LockInv(c),
         Proposals = {}, NEW qc \in QuorumCert, qc.hash = Digest(Top),
         NEW arriving \in Refills(First(c))
  PROVE  /\ NewBlock(First(c), qc, arriving) \in Block
         /\ NewBlock(First(c), qc, arriving).parent = Digest(Top)
         /\ NewBlock(First(c), qc, arriving).justify = qc
         /\ NewBlock(First(c), qc, arriving).height = Top + 1
         /\ NewBlock(First(c), qc, arriving).conf = 0
         /\ ~ChangesMembership(NewBlock(First(c), qc, arriving))
         /\ HashBlock(NewBlock(First(c), qc, arriving)) = Digest(Top + 1)
         /\ Nth(proposed, Top) \in chain[First(c)]
<1> DEFINE r == First(c)
           b == NewBlock(r, qc, arriving)
           parent == Get(chain[r], qc.hash)
<1>1. r \in Replica /\ Mc(r).number = 0 /\ \A req \in Request : req.type = "REGULAR"
  BY LockstepCommittee, LockstepState
<1>2. Top \in Nat
  BY DEF TypeInv, TypeOK, Top
<1>3. Nth(proposed, Top) \in chain[r]
  <2>1. ~Pending(r)
    BY DEF Pending
  <2>2. QED
    BY <1>2, <2>1 DEF LockInv, Stored, Height
<1>4. parent = {Nth(proposed, Top)}
  <2>1. chain[r] \subseteq {Nth(proposed, k) : k \in 0 .. Top} /\ Chained /\ Top \in 0 .. Top
    BY <1>1, <1>2 DEF LockInv, Stored
  <2>2. QED
    BY <1>1, <1>3, <2>1, GetNth
<1>5. The(parent).height = Top
  <2>1. The(parent) = Nth(proposed, Top)
    BY <1>4 DEF The
  <2>2. QED
    BY <1>1, <1>2, <2>1, NthFacts DEF LockInv
<1>6. /\ b.parent = Digest(Top) /\ b.justify = qc /\ b.conf = 0 /\ b.batch = Batch(r, arriving)
      /\ b.height = IF parent = {} THEN 0 ELSE The(parent).height + 1
  BY <1>1 DEF NewBlock
<1>7. b \in Block
  BY <1>1, NewBlockType DEF TypeInv
<1> HIDE DEF b, parent
<1>8. b.height = Top + 1
  BY <1>4, <1>5, <1>6
<1>9. HashBlock(b) = Digest(Top + 1)
  <2>1. Append(Digest(Top), Top + 1) = Digest(Top + 1)
    BY <1>2, DigestFacts
  <2>2. QED
    BY <1>6, <1>8, <2>1 DEF HashBlock
<1>10. ~ChangesMembership(b)
  <2>1. requestQ[r] \in Seq(Request) /\ BatchLen(r) \in Nat
    <3>1. requestQ[r] \in Seq(Request)
      BY <1>1 DEF TypeInv, TypeOK
    <3>2. QED
      BY <3>1, DHotStuffAssumption DEF BatchLen
  <2>2. BatchLen(r) <= Len(requestQ[r])
    BY <2>1, DHotStuffAssumption DEF BatchLen
  <2>3. Batch(r, arriving) \in Seq(Request)
    <3>1. SubSeq(requestQ[r], 1, BatchLen(r)) \in Seq(Request)
      BY <2>1, <2>2
    <3>2. arriving \in Seq(Request)
      BY <1>1, RefillsType, SeqMonotonic
    <3>3. QED
      BY <3>1, <3>2 DEF Batch
  <2>4. QED
    BY <1>1, <1>6, <2>3, NoChanges DEF ChangesMembership
<1>11. QED
  BY <1>3, <1>6, <1>7, <1>8, <1>9, <1>10 DEF b

\* With no one behind, the leader proposes the next block to the followers.
LEMMA ProposeNext ==
  ASSUME NEW c \in Committee, HasLeader(c), Lockstep(c), TypeInv, LockInv(c),
         Proposals = {}, NEW m \in net, m.type # "propose",
         NEW qc \in QuorumCert, qc.hash = Digest(Top),
         qc = GenesisQC \/ Passes(qc, c),
         NEW arriving \in Refills(First(c)), Propose(First(c), qc, arriving, m),
         UNCHANGED <<configs, timeout, window, executed, delivered>>,
         \A q \in Replica \ {First(c)} : curView'[q] = curView[q]
  PROVE  /\ Top' = Top + 1 /\ Votes' = Votes \ {m} /\ NewViews' = NewViews \ {m}
         /\ Steady(c)' /\ Chained' /\ OnlyTopInFlight(c)' /\ Stored(c)'
         /\ WindowsFollow(c)' /\ ExecutedInOrder(c)' /\ CertifiedBy(c)'
<1> DEFINE r   == First(c)
           b   == NewBlock(r, qc, arriving)
           out == {[type |-> "propose", dst |-> q, round |-> Top + 1, stored |-> FALSE]
                     : q \in Audience(c)}
<1>1. r \in Replica /\ r \notin Audience(c) /\ Audience(c) \subseteq Replica
        /\ BroadcastTargets(r) = Audience(c)
        /\ \A req \in Request : req.type = "REGULAR"
  BY LockstepCommittee, AudienceSize, LockstepState
<1>2. proposed \in Seq(Block) /\ Top \in Nat /\ DOMAIN proposed = 1 .. Top
  BY DEF TypeInv, TypeOK, Top
<1>3. /\ b \in Block /\ b.parent = Digest(Top) /\ b.justify = qc /\ b.height = Top + 1
      /\ b.conf = 0 /\ ~ChangesMembership(b) /\ HashBlock(b) = Digest(Top + 1)
      /\ Nth(proposed, Top) \in chain[r]
  BY NextBlock
<1>4. /\ proposed' = Append(proposed, b)
      /\ chain' = [chain EXCEPT ![r] = Put(@, b)]
      /\ net' = (net \ {m}) \cup out
  BY <1>1 DEF Propose, Top
<1> HIDE DEF b
<1>5. /\ Top' = Top + 1 /\ DOMAIN proposed' = 1 .. Top + 1
      /\ \A k \in 1 .. Top : proposed'[k] = proposed[k]
      /\ proposed'[Top + 1] = b
  BY <1>2, <1>3, <1>4, AppendProperties DEF Top
<1>6. (\A k \in 0 .. Top : Nth(proposed', k) = Nth(proposed, k)) /\ Nth(proposed', Top + 1) = b
  <2>1. ASSUME NEW k \in 0 .. Top PROVE Nth(proposed', k) = Nth(proposed, k)
    BY <1>2, <1>5 DEF Nth
  <2>2. Nth(proposed', Top + 1) = b
    BY <1>2, <1>5 DEF Nth
  <2>3. QED
    BY <2>1, <2>2
<1>7. /\ \A x \in out : x.type = "propose" /\ x.dst \in Audience(c) /\ x.round = Top + 1
                          /\ ~x.stored
      /\ \A x, y \in out : x.dst = y.dst => x = y
      /\ \A q \in Audience(c) : \E x \in out : x.dst = q
  <2>1. \A x \in out : \E q \in Audience(c) :
          x = [type |-> "propose", dst |-> q, round |-> Top + 1, stored |-> FALSE]
    OBVIOUS
  <2>2. \A q \in Audience(c) :
          [type |-> "propose", dst |-> q, round |-> Top + 1, stored |-> FALSE] \in out
    OBVIOUS
  <2> HIDE DEF out
  <2>3. \A x \in out : x.type = "propose" /\ x.dst \in Audience(c) /\ x.round = Top + 1
    BY <2>1
  <2>4. ASSUME NEW x \in out PROVE ~x.stored
    <3>1. PICK q \in Audience(c) :
            x = [type |-> "propose", dst |-> q, round |-> Top + 1, stored |-> FALSE]
      BY <2>1
    <3>2. QED
      BY <3>1, Zenon
  <2>5. ASSUME NEW x \in out, NEW y \in out, x.dst = y.dst PROVE x = y
    <3>1. PICK q \in Audience(c) :
            x = [type |-> "propose", dst |-> q, round |-> Top + 1, stored |-> FALSE]
      BY <2>1
    <3>2. PICK p \in Audience(c) :
            y = [type |-> "propose", dst |-> p, round |-> Top + 1, stored |-> FALSE]
      BY <2>1
    <3>3. x.dst = q /\ y.dst = p
      BY <3>1, <3>2, Zenon
    <3>4. QED
      BY <2>5, <3>1, <3>2, <3>3, Zenon
  <2>6. \A q \in Audience(c) : \E x \in out : x.dst = q
    BY <2>2
  <2>7. QED
    BY <2>3, <2>4, <2>5, <2>6
<1> HIDE DEF out
<1>8. Proposals' = out /\ Votes' = Votes \ {m} /\ NewViews' = NewViews \ {m}
  BY <1>4, <1>7 DEF Proposals, Votes, NewViews
<1>9. (\A q : Pending(q)' <=> q \in Audience(c)) /\ \A q : ~Pending(q)
  BY <1>7, <1>8 DEF Pending
<1>10. /\ \A q : Height(q) = Top
       /\ \A q \in Audience(c) : Height(q)' = Top
       /\ Height(r)' = Top + 1
  BY <1>1, <1>2, <1>5, <1>9 DEF Height
<1>11. Steady(c)'
  BY DEF LockInv, Steady
<1>12. Chained'
  <2>1. ASSUME NEW k \in 1 .. Top + 1
        PROVE  /\ proposed'[k].parent = Digest(k - 1)
               /\ proposed'[k].justify.hash = Digest(k - 1)
               /\ proposed'[k].height = k /\ proposed'[k].conf = 0
               /\ ~ChangesMembership(proposed'[k])
    <3>1. CASE k \in 1 .. Top
      BY <1>2, <1>5, <3>1 DEF LockInv, Chained
    <3>2. CASE k = Top + 1
      <4>1. proposed'[k] = b /\ k - 1 = Top
        BY <1>2, <1>5, <3>2
      <4>2. QED
        BY <1>3, <3>2, <4>1
    <3>3. QED
      BY <1>2, <3>1, <3>2
  <2>2. QED
    BY <1>5, <2>1 DEF Chained
<1>13. OnlyTopInFlight(c)'
  BY <1>5, <1>7, <1>8 DEF OnlyTopInFlight
<1>14. Stored(c)'
  <2>1. \A q \in Replica : chain'[q] = IF q = r THEN chain[q] \cup {b} ELSE chain[q]
    <3>1. Get(chain[r], Digest(Top + 1)) = {}
      <4>1. ASSUME NEW x \in chain[r] PROVE HashBlock(x) # Digest(Top + 1)
        <5>1. PICK k \in 0 .. Top : x = Nth(proposed, k)
          BY <1>1 DEF LockInv, Stored
        <5>2. HashBlock(x) = Digest(k)
          BY <1>1, <5>1, NthFacts DEF LockInv
        <5>3. QED
          BY <1>2, <5>2, DigestsDiffer
      <4>2. QED
        BY <4>1 DEF Get
    <3>2. Put(chain[r], b) = chain[r] \cup {b}
      BY <1>3, <3>1 DEF Put
    <3>3. QED
      BY <1>1, <1>4, <3>2 DEF TypeInv, TypeOK
  <2>2. ASSUME NEW q \in Replica, NEW x \in chain'[q]
        PROVE  \E k \in 0 .. Top + 1 : x = Nth(proposed', k)
    <3>1. CASE x \in chain[q]
      <4>1. PICK k \in 0 .. Top : x = Nth(proposed, k)
        BY <3>1 DEF LockInv, Stored
      <4>2. k \in 0 .. Top + 1 /\ x = Nth(proposed', k)
        BY <1>2, <1>6, <4>1
      <4>3. QED
        BY <4>2
    <3>2. CASE x = b
      <4>1. Top + 1 \in 0 .. Top + 1
        BY <1>2
      <4>2. QED
        BY <1>6, <3>2, <4>1
    <3>3. QED
      BY <2>1, <3>1, <3>2
  <2>3. ASSUME NEW q \in Audience(c) \cup {r}, NEW k \in 0 .. Height(q)'
        PROVE  Nth(proposed', k) \in chain'[q]
    <3>1. \A j \in 0 .. Top : Nth(proposed, j) \in chain[q]
      BY <1>10 DEF LockInv, Stored
    <3>2. CASE k \in 0 .. Top
      BY <1>1, <1>6, <2>1, <3>1, <3>2
    <3>3. CASE k \notin 0 .. Top
      <4>1. q = r /\ k = Top + 1
        BY <1>2, <1>10, <3>3
      <4>2. QED
        BY <1>1, <1>6, <2>1, <4>1
    <3>4. QED
      BY <3>2, <3>3
  <2>4. \A n \in Proposals' : ~n.stored
    BY <1>7, <1>8
  <2>5. QED
    BY <1>5, <2>2, <2>3, <2>4 DEF Stored
<1>15. WindowsFollow(c)'
  <2> SUFFICES ASSUME NEW q \in Audience(c)
               PROVE  /\ Len(window[q]) <= 4 /\ Len(window[q]) <= Top
                      /\ \A i \in DOMAIN window[q] :
                           window[q][i] = Nth(proposed', Top - Len(window[q]) + i)
    BY <1>10 DEF WindowsFollow
  <2>1. /\ Len(window[q]) <= 4 /\ Len(window[q]) <= Top
        /\ \A i \in DOMAIN window[q] : window[q][i] = Nth(proposed, Top - Len(window[q]) + i)
    BY <1>10 DEF LockInv, WindowsFollow
  <2>2. Len(window[q]) \in Nat /\ DOMAIN window[q] = 1 .. Len(window[q])
    <3>1. q \in Replica
      BY <1>1
    <3>2. window[q] \in Seq(Block)
      BY <3>1 DEF TypeInv, TypeOK
    <3>3. QED
      BY <3>2
  <2>3. \A i \in DOMAIN window[q] : Top - Len(window[q]) + i \in 0 .. Top
    BY <1>2, <2>1, <2>2
  <2>4. QED
    BY <1>6, <2>1, <2>3
<1>16. ExecutedInOrder(c)'
  <2>1. \A q \in Replica \ Audience(c) : executed[q] = << >>
    BY DEF LockInv, ExecutedInOrder
  <2>2. ASSUME NEW q \in Audience(c)
        PROVE  /\ Len(executed[q]) = IF Top < 3 THEN 0 ELSE Top - 2
               /\ \A i \in DOMAIN executed[q] : executed[q][i] = Nth(proposed', i - 1)
               /\ delivered[q] = {Digest(i - 1) : i \in DOMAIN executed[q]}
    <3>1. /\ Len(executed[q]) = IF Top < 3 THEN 0 ELSE Top - 2
          /\ \A i \in DOMAIN executed[q] : executed[q][i] = Nth(proposed, i - 1)
          /\ delivered[q] = {Digest(i - 1) : i \in DOMAIN executed[q]}
      BY <1>10 DEF LockInv, ExecutedInOrder
    <3>2. DOMAIN executed[q] = 1 .. Len(executed[q])
      BY <1>1 DEF TypeInv, TypeOK
    <3>3. \A i \in DOMAIN executed[q] : i - 1 \in 0 .. Top
      BY <1>2, <3>1, <3>2
    <3>4. QED
      BY <1>6, <3>1, <3>3
  <2>3. QED
    BY <1>10, <2>1, <2>2 DEF ExecutedInOrder
<1>17. CertifiedBy(c)'
  <2>1. \A k \in 1 .. Top : proposed[k].justify = GenesisQC \/ Passes(proposed[k].justify, c)
    BY <1>2 DEF LockInv, CertifiedBy
  <2>2. \A k \in 1 .. Top + 1 :
          proposed'[k].justify = GenesisQC \/ Passes(proposed'[k].justify, c)
    BY <1>2, <1>3, <1>5, <2>1
  <2>3. QED
    BY <1>5, <2>2 DEF CertifiedBy
<1>18. QED
  BY <1>5, <1>8, <1>11, <1>12, <1>13, <1>14, <1>15, <1>16, <1>17

LEMMA FormQCLockInv ==
  ASSUME NEW c \in Committee, HasLeader(c), Lockstep(c), TypeInv, LockInv(c),
         NEW r \in Replica, NEW m \in net, FormQC(r, m)
  PROVE  LockInv(c)'
<1> DEFINE qc == Certificate(VotesWith(r, m.vote), c)
<1>1. Mc(r) = c /\ m.type = "vote" /\ m.dst = r
  BY LockstepState DEF FormQC
<1>2. /\ HasQuorum(VotesWith(r, m.vote), c)
      /\ \E arriving \in Refills(r) : Propose(r, qc, arriving, m)
  BY <1>1, FormQCMeans DEF TypeInv
<1>3. /\ curView' = [curView EXCEPT ![r] = @ + 1]
      /\ votesBuf' = [votesBuf EXCEPT ![r][m.vote.view] = << >>]
      /\ UNCHANGED <<configs, timeout, window, executed, delivered>> /\ newViewBuf' = newViewBuf
  BY <1>1 DEF FormQC, deliverVars
<1>4. r = First(c) /\ m.vote.view = 0 /\ 0 \in View /\ Top \in Nat /\ Top > 0
  BY <1>1, VoteCounted
<1>5. Proposals = {} /\ Votes \ {m} = {}
  BY <1>1, <1>2, QuorumIsAudience
<1>6. qc \in QuorumCert /\ qc.hash = Digest(Top) /\ Passes(qc, c)
  BY <1>1, <1>2, QuorumValid
<1> HIDE DEF qc
<1>7. \A q \in Replica \ {First(c)} : curView'[q] = curView[q]
  BY <1>3, <1>4 DEF TypeInv, TypeOK
<1>8. /\ Top' = Top + 1 /\ Votes' = Votes \ {m} /\ NewViews' = NewViews \ {m}
      /\ Steady(c)' /\ Chained' /\ OnlyTopInFlight(c)' /\ Stored(c)'
      /\ WindowsFollow(c)' /\ ExecutedInOrder(c)' /\ CertifiedBy(c)'
  BY <1>1, <1>2, <1>3, <1>4, <1>5, <1>6, <1>7, ProposeNext
<1>9. VotesForTop(c)'
  <2>1. Votes' = {}
    BY <1>5, <1>8
  <2>2. \A q \in Replica, v \in View : votesBuf'[q][v] = << >>
    <3>1. ASSUME NEW q \in Replica, NEW v \in View PROVE votesBuf'[q][v] = << >>
      <4>1. CASE q = r /\ v = 0
        BY <1>3, <1>4, <4>1 DEF TypeInv, TypeOK
      <4>2. CASE ~(q = r /\ v = 0)
        <5>1. votesBuf'[q][v] = votesBuf[q][v] /\ votesBuf[q][v] \in Seq(Vote)
          BY <1>3, <1>4, <4>2 DEF TypeInv, TypeOK
        <5>2. DOMAIN votesBuf[q][v] = {}
          BY <1>4, <4>2 DEF LockInv, VotesForTop
        <5> DEFINE s == votesBuf[q][v]
        <5> HIDE DEF s
        <5>3. s \in Seq(Vote) /\ DOMAIN s = {}
          BY <5>1, <5>2 DEF s
        <5>4. ~(1 \in DOMAIN s) /\ DOMAIN s = 1 .. Len(s) /\ Len(s) \in Nat
          BY <5>3
        <5>5. Len(s) = 0
          BY <5>4
        <5>6. s = << >>
          BY <5>3, <5>5, EmptySeq
        <5>7. QED
          BY <5>1, <5>6 DEF s
      <4>3. QED
        BY <4>1, <4>2
    <3>2. QED
      BY <3>1
  <2>3. QED
    BY <2>1, <2>2 DEF VotesForTop
<1>10. Starting(c)'
  <2>1. m \notin NewViews
    BY <1>1 DEF NewViews
  <2>2. Starters(c)' = Starters(c)
    BY <1>3, <1>8, <2>1 DEF Starters
  <2>3. Top' # 0
    BY <1>4, <1>8
  <2>4. QED
    BY <1>3, <1>4, <1>8, <2>2, <2>3 DEF LockInv, Starting
<1>11. QED
  BY <1>8, <1>9, <1>10 DEF LockInv

-----------------------------------------------------------------------------
\* New-view messages.  They start the chain once: a second quorum is not left.
LEMMA NewViewCounted ==
  ASSUME NEW c \in Committee, HasLeader(c), Lockstep(c), TypeInv, NewViewInv, LockInv(c),
         NEW r \in Replica, NEW m \in net, m.type = "newview", m.dst = r
  PROVE  /\ m \in NewViews /\ r = First(c) /\ m.view = 0 /\ 0 \in View
         /\ NewViewsWith(r, m) \in Seq(NewViewMsg)
         /\ {NewViewsWith(r, m)[i].src : i \in DOMAIN NewViewsWith(r, m)}
              = {newViewBuf[r][0][i].src : i \in DOMAIN newViewBuf[r][0]} \cup {m.src}
         /\ \A i \in DOMAIN NewViewsWith(r, m) :
              /\ NewViewsWith(r, m)[i].qc = GenesisQC
              /\ \A n \in NewViews \ {m} : n.src # NewViewsWith(r, m)[i].src
              /\ \A j \in DOMAIN NewViewsWith(r, m) :
                   NewViewsWith(r, m)[i].src = NewViewsWith(r, m)[j].src => i = j
<1> DEFINE old == newViewBuf[r][0]
           new == NewViewsWith(r, m)
           len == Len(old)
<1>1. m \in NewViews /\ r = First(c) /\ m.view = 0 /\ m.qc = GenesisQC
  BY DEF NewViews, LockInv, Starting
<1>2. 0 \in View /\ old \in Seq(NewViewMsg) /\ new \in Seq(NewViewMsg) /\ m \in NewViewMsg
  BY <1>1, NewViewsWithType, MessageKinds DEF TypeInv
<1>3. new = Append(old, m)
  BY <1>1 DEF NewViewsWith
<1>4. \A i \in DOMAIN old :
        /\ old[i].qc = GenesisQC
        /\ \A n \in NewViews : n.src # old[i].src
        /\ \A j \in DOMAIN old : old[i].src = old[j].src => i = j
  <2>1. \A n \in NewViews : n.view = 0
    BY DEF LockInv, Starting
  <2>2. QED
    BY <1>1, <1>2, <2>1 DEF LockInv, Starting, NewViewInv, CountedOnce, NewViewsDistinct
<1>5. \A n \in NewViews \ {m} : n.src # m.src
  BY <1>1 DEF LockInv, Starting, NewViewInv, SentOnce
<1>6. /\ len \in Nat /\ DOMAIN old = 1 .. len /\ DOMAIN new = 1 .. len + 1
      /\ \A i \in 1 .. len : new[i] = old[i]
      /\ new[len + 1] = m
  <2> HIDE DEF old, new
  <2>1. QED
    BY <1>2, <1>3, AppendProperties
<1> HIDE DEF old, new, len
<1>7. ASSUME NEW i \in 1 .. len + 1
      PROVE  /\ new[i].qc = GenesisQC
             /\ \A n \in NewViews \ {m} : n.src # new[i].src
             /\ \A j \in 1 .. len + 1 : new[i].src = new[j].src => i = j
  <2>1. CASE i \in 1 .. len
    <3>1. new[i].src # new[len + 1].src
      BY <1>1, <1>4, <1>6, <2>1
    <3>2. \A j \in 1 .. len + 1 : new[i].src = new[j].src => i = j
      BY <1>4, <1>6, <2>1, <3>1
    <3>3. QED
      BY <1>4, <1>6, <2>1, <3>2
  <2>2. CASE i = len + 1
    <3>1. \A j \in 1 .. len : new[j].src # new[i].src
      BY <1>1, <1>4, <1>6, <2>2
    <3>2. \A j \in 1 .. len + 1 : new[i].src = new[j].src => i = j
      BY <1>6, <2>2, <3>1
    <3>3. QED
      BY <1>1, <1>5, <1>6, <2>2, <3>2
  <2>3. QED
    BY <1>6, <2>1, <2>2
<1>8. {new[i].src : i \in DOMAIN new} = {old[i].src : i \in DOMAIN old} \cup {m.src}
  <2>1. ASSUME NEW i \in DOMAIN new
        PROVE  new[i].src \in {old[j].src : j \in DOMAIN old} \cup {m.src}
    <3>1. CASE i \in 1 .. len
      BY <1>6, <3>1
    <3>2. CASE i = len + 1
      BY <1>6, <3>2
    <3>3. QED
      BY <1>6, <3>1, <3>2
  <2>2. \A i \in DOMAIN old : i \in DOMAIN new /\ new[i].src = old[i].src
    BY <1>6
  <2>3. len + 1 \in DOMAIN new /\ new[len + 1].src = m.src
    BY <1>6
  <2>4. QED
    BY <2>1, <2>2, <2>3
<1>9. QED
  BY <1>1, <1>2, <1>6, <1>7, <1>8 DEF new, old

LEMMA CollectNewViewLockInv ==
  ASSUME NEW c \in Committee, HasLeader(c), Lockstep(c), TypeInv, NewViewInv, LockInv(c),
         NEW r \in Replica, NEW m \in net, CollectNewView(r, m)
  PROVE  LockInv(c)'
<1> DEFINE new == NewViewsWith(r, m)
<1>1. /\ UNCHANGED <<configs, timeout, curView, proposed>>
      /\ UNCHANGED <<window, executed, delivered, chain, votesBuf, genericQC>>
      /\ net' = net \ {m} /\ m.type = "newview" /\ m.dst = r
      /\ newViewBuf' = [newViewBuf EXCEPT ![r][m.view] = new]
  BY DEF CollectNewView, engineVars, viewVars, deliverVars
<1>2. Proposals' = Proposals /\ Votes' = Votes /\ NewViews' = NewViews \ {m}
  BY <1>1 DEF Proposals, Votes, NewViews
<1>3. /\ m \in NewViews /\ r = First(c) /\ m.view = 0 /\ 0 \in View
      /\ {new[i].src : i \in DOMAIN new}
           = {newViewBuf[r][0][i].src : i \in DOMAIN newViewBuf[r][0]} \cup {m.src}
      /\ \A i \in DOMAIN new : new[i].qc = GenesisQC
  <2>1. m \in NewViews /\ r = First(c) /\ m.view = 0 /\ 0 \in View
    BY <1>1, NewViewCounted
  <2>2. {new[i].src : i \in DOMAIN new}
           = {newViewBuf[r][0][i].src : i \in DOMAIN newViewBuf[r][0]} \cup {m.src}
    BY <1>1, NewViewCounted, Zenon
  <2>3. \A i \in DOMAIN new : new[i].qc = GenesisQC
    BY <1>1, NewViewCounted
  <2>4. QED
    BY <2>1, <2>2, <2>3
<1> HIDE DEF new
<1>4. SameRound
  BY <1>1, <1>2, RoundKept
<1>5. newViewBuf'[r][0] = new
  BY <1>1, <1>3 DEF TypeInv, TypeOK
<1>6. Starters(c)' = Starters(c)
  <2>1. {n.src : n \in NewViews} = {n.src : n \in NewViews \ {m}} \cup {m.src}
    BY <1>3
  <2>2. Starters(c)' = {n.src : n \in NewViews \ {m}} \cup {new[i].src : i \in DOMAIN new}
    BY <1>2, <1>3, <1>5 DEF Starters
  <2>3. Starters(c) = {n.src : n \in NewViews}
                        \cup {newViewBuf[r][0][i].src : i \in DOMAIN newViewBuf[r][0]}
    BY <1>3 DEF Starters
  <2>4. QED
    BY <1>3, <2>1, <2>2, <2>3
<1>7. Starting(c)'
  <2>1. Top' = Top
    BY <1>4, SameRoundMeans
  <2>2. \A i \in DOMAIN newViewBuf'[First(c)][0] : newViewBuf'[First(c)][0][i].qc = GenesisQC
    BY <1>3, <1>5
  <2>3. QED
    BY <1>1, <1>2, <1>6, <2>1, <2>2 DEF LockInv, Starting
<1>8. QED
  BY <1>1, <1>2, <1>4, <1>7, RoundKept, VotesKept DEF LockInv

\* All the certificates heard are the genesis certificate, so that is the highest.
LEMMA HighestOfGenesis ==
  ASSUME NEW msgs \in Seq(NewViewMsg), Len(msgs) >= 1,
         \A i \in DOMAIN msgs : msgs[i].qc = GenesisQC
  PROVE  HighestViewQC(msgs) = GenesisQC
<1> DEFINE Better(i, j) == msgs[j].qc = NoQC \/ msgs[i].qc.view > msgs[j].qc.view
                             \/ (msgs[i].qc.view = msgs[j].qc.view /\ i <= j)
           best == {i \in DOMAIN msgs : msgs[i].qc # NoQC
                                          /\ \A j \in DOMAIN msgs : Better(i, j)}
<1>1. HighestViewQC(msgs) = IF best = {} THEN NoQC ELSE msgs[The(best)].qc
  BY Zenon DEF HighestViewQC
<1>2. GenesisQC # NoQC
  <2>1. GenesisQC.hash = Append(<<-1>>, 0) /\ NoQC.hash = << >>
    BY DEF GenesisQC, NoQC, HashBlock, GenesisBlock
  <2>2. Append(<<-1>>, 0) # << >>
    OBVIOUS
  <2>3. QED
    BY <2>1, <2>2
<1>3. 1 \in DOMAIN msgs /\ \A j \in DOMAIN msgs : 1 <= j
  OBVIOUS
<1>4. 1 \in best
  BY <1>2, <1>3
<1>5. The(best) \in best
  BY <1>4, Zenon DEF The
<1>6. best \subseteq DOMAIN msgs
  OBVIOUS
<1> HIDE DEF best
<1>7. QED
  BY <1>1, <1>4, <1>5, <1>6

\* As many replicas as messages counted, and the others are fewer than a quorum.
LEMMA StartersLeft ==
  ASSUME NEW c \in Committee, HasLeader(c), Lockstep(c), TypeInv, NewViewInv, LockInv(c),
         NEW r \in Replica, NEW m \in net, m.type = "newview", m.dst = r,
         Len(NewViewsWith(r, m)) >= QuorumSize(c)
  PROVE  /\ Top = 0
         /\ Cardinality({n.src : n \in NewViews \ {m}}) < QuorumSize(c)
<1> DEFINE new  == NewViewsWith(r, m)
           len  == Len(new)
           srcs == {new[i].src : i \in DOMAIN new}
           left == {n.src : n \in NewViews \ {m}}
           f    == [i \in 1 .. len |-> new[i].src]
           q    == QuorumSize(c)
<1>1. /\ m \in NewViews /\ r = First(c)
      /\ new \in Seq(NewViewMsg)
      /\ srcs = {newViewBuf[r][0][i].src : i \in DOMAIN newViewBuf[r][0]} \cup {m.src}
  <2>1. m \in NewViews /\ r = First(c) /\ new \in Seq(NewViewMsg)
    BY NewViewCounted
  <2>2. srcs = {newViewBuf[r][0][i].src : i \in DOMAIN newViewBuf[r][0]} \cup {m.src}
    BY NewViewCounted, Zenon
  <2>3. QED
    BY <2>1, <2>2
<1>2. /\ \A i \in DOMAIN new : \A n \in NewViews \ {m} : n.src # new[i].src
      /\ \A i, j \in DOMAIN new : new[i].src = new[j].src => i = j
  <2>1. \A i \in DOMAIN new :
          /\ new[i].qc = GenesisQC
          /\ \A n \in NewViews \ {m} : n.src # new[i].src
          /\ \A j \in DOMAIN new : new[i].src = new[j].src => i = j
    BY NewViewCounted
  <2> HIDE DEF new
  <2>2. QED
    BY <2>1
<1> HIDE DEF new
<1>3. len \in Nat /\ DOMAIN new = 1 .. len
  BY <1>1
<1>4. IsFiniteSet(1 .. len) /\ Cardinality(1 .. len) = len
  <2> HIDE DEF len
  <2>1. 1 \in Int /\ len \in Int
    BY <1>3
  <2>2. QED
    BY <1>3, <2>1, FS_Interval
<1>5. f \in Surjection(1 .. len, srcs) /\ f \in Injection(1 .. len, srcs)
  <2>1. f \in [1 .. len -> srcs] /\ \A s \in srcs : \E i \in 1 .. len : f[i] = s
    BY <1>3
  <2>2. \A i, j \in DOMAIN f : f[i] = f[j] => i = j
    BY <1>2, <1>3
  <2> HIDE DEF f, srcs
  <2>3. QED
    BY <2>1, <2>2 DEF Surjection, Injection, IsInjective
<1>6. srcs \cap left = {}
  BY <1>2
<1>7. srcs \cup left = Starters(c)
  <2>1. {n.src : n \in NewViews} = left \cup {m.src}
    BY <1>1
  <2> HIDE DEF left, srcs
  <2>2. QED
    BY <1>1, <2>1 DEF Starters
<1> HIDE DEF srcs, left, f, len, q
<1>8. IsFiniteSet(srcs) /\ Cardinality(srcs) = len
  BY <1>4, <1>5, FS_Surjection
<1>9. /\ IsFiniteSet(Bootstrap) /\ Cardinality(Bootstrap) \in Nat
      /\ Cardinality(Bootstrap) <= Cardinality(MemberIds(c))
  BY LockstepCommittee, FS_Subset, FS_CardinalityType DEF Lockstep
<1>10. /\ IsFiniteSet(Starters(c)) /\ Cardinality(Starters(c)) \in Nat
       /\ Cardinality(Starters(c)) <= Cardinality(Bootstrap)
  BY <1>9, FS_Subset, FS_CardinalityType DEF LockInv, Starting
<1>11. IsFiniteSet(left) /\ Cardinality(left) \in Nat
  <2>1. left \subseteq Starters(c)
    BY <1>7
  <2>2. QED
    BY <1>10, <2>1, FS_Subset, FS_CardinalityType
<1>12. Cardinality(Starters(c)) = Cardinality(srcs) + Cardinality(left)
  <2>1. Cardinality(srcs \cup left)
          = Cardinality(srcs) + Cardinality(left) - Cardinality(srcs \cap left)
    BY <1>8, <1>11, FS_Union
  <2>2. Cardinality(srcs \cap left) = 0
    BY <1>6, FS_EmptySet
  <2>3. Cardinality(srcs \cup left) = Cardinality(srcs) + Cardinality(left) - 0
    BY <2>1, <2>2, Zenon
  <2>4. Cardinality(Starters(c)) = Cardinality(srcs) + Cardinality(left) - 0
    BY <1>7, <2>3, Zenon
  <2>5. Cardinality(srcs) \in Nat
    BY <1>3, <1>8, Zenon
  <2>6. QED
    BY <1>11, <2>4, <2>5
<1>13. len >= q /\ q \in Nat /\ Cardinality(MemberIds(c)) < 2 * q
         /\ Cardinality(MemberIds(c)) \in Nat
  BY LockstepCommittee DEF len, new, q
<1>14. Cardinality(left) < q
  BY <1>3, <1>8, <1>9, <1>10, <1>11, <1>12, <1>13
<1>15. Top = 0
  <2>1. ~(Cardinality(Starters(c)) < q)
    BY <1>3, <1>8, <1>11, <1>12, <1>13
  <2>2. QED
    BY <2>1 DEF LockInv, Starting, q
<1>16. QED
  BY <1>14, <1>15 DEF left, q

LEMMA ProposeOnNewViewsLockInv ==
  ASSUME NEW c \in Committee, HasLeader(c), Lockstep(c), TypeInv, NewViewInv, LockInv(c),
         NEW r \in Replica, NEW m \in net, ProposeOnNewViews(r, m)
  PROVE  LockInv(c)'
<1> DEFINE new == NewViewsWith(r, m)
           qc  == AdoptQC(HighestViewQC(new), genericQC[r])
<1>1. Mc(r) = c /\ m.type = "newview" /\ m.dst = r /\ Len(new) >= QuorumSize(c)
  BY LockstepState DEF ProposeOnNewViews
<1>2. /\ newViewBuf' = [newViewBuf EXCEPT ![r][m.view] = << >>]
      /\ \E arriving \in Refills(r) : Propose(r, qc, arriving, m)
      /\ UNCHANGED <<configs, timeout, window, executed, delivered>>
      /\ votesBuf' = votesBuf /\ curView' = curView
  BY DEF ProposeOnNewViews, viewVars, deliverVars
<1>3. r = First(c) /\ m.view = 0 /\ 0 \in View /\ new \in Seq(NewViewMsg) /\ m \in NewViews
  BY <1>1, NewViewCounted
<1>4. \A i \in DOMAIN new : new[i].qc = GenesisQC
  BY <1>1, NewViewCounted
<1>5. Top = 0 /\ Cardinality({n.src : n \in NewViews \ {m}}) < QuorumSize(c)
  BY <1>1, StartersLeft
<1>6. qc = GenesisQC
  <2>1. HighestViewQC(new) = GenesisQC
    <3>1. Len(new) >= 1
      <4>1. Len(new) \in Nat /\ QuorumSize(c) \in Nat /\ QuorumSize(c) >= 1
        BY <1>3, LockstepCommittee
      <4>2. QED
        BY <1>1, <4>1
    <3> HIDE DEF new
    <3>2. QED
      BY <1>3, <1>4, <3>1, HighestOfGenesis
  <2>2. genericQC[r] = NoQC
    BY <1>3, <1>5 DEF LockInv, Starting
  <2> HIDE DEF new
  <2>3. QED
    BY <2>1, <2>2 DEF AdoptQC
<1>7. GenesisQC \in QuorumCert /\ GenesisQC.hash = Digest(Top)
  <2>1. GenesisQC.hash = HashBlock(GenesisBlock)
    BY DEF GenesisQC
  <2>2. 0 \in 0 .. Top /\ Nth(proposed, 0) = GenesisBlock
    BY <1>5 DEF Nth
  <2>3. HashBlock(GenesisBlock) = Digest(0)
    BY <2>2, NthFacts DEF LockInv, Lockstep
  <2>4. QED
    BY <1>5, <2>1, <2>3, GenesisType
<1>8. Proposals = {} /\ Votes = {}
  <2>1. DOMAIN proposed = {}
    BY <1>5 DEF TypeInv, TypeOK, Top
  <2>2. QED
    BY <2>1 DEF Proposals, Votes, TypeInv, RoundsProposed
<1>9. \E arriving \in Refills(First(c)) : Propose(First(c), GenesisQC, arriving, m)
  BY <1>2, <1>3, <1>6
<1> HIDE DEF new, qc
<1>10. /\ Top' = Top + 1 /\ Votes' = Votes \ {m} /\ NewViews' = NewViews \ {m}
       /\ Steady(c)' /\ Chained' /\ OnlyTopInFlight(c)' /\ Stored(c)'
       /\ WindowsFollow(c)' /\ ExecutedInOrder(c)' /\ CertifiedBy(c)'
  BY <1>1, <1>2, <1>7, <1>8, <1>9, ProposeNext
<1>11. VotesForTop(c)'
  <2>1. Votes' = {}
    BY <1>8, <1>10
  <2>2. \A q \in Replica, v \in View : DOMAIN votesBuf[q][v] = {}
    BY <1>5 DEF LockInv, VotesForTop
  <2>3. QED
    BY <1>2, <2>1, <2>2 DEF VotesForTop
<1>12. Starting(c)'
  <2>1. newViewBuf'[r][0] = << >>
    BY <1>2, <1>3 DEF TypeInv, TypeOK
  <2>2. Starters(c)' = {n.src : n \in NewViews \ {m}}
    BY <1>3, <1>10, <2>1 DEF Starters
  <2>3. Starters(c)' \subseteq Starters(c)
    BY <2>2 DEF Starters
  <2>4. Top' # 0
    BY <1>5, <1>10
  <2>5. QED
    BY <1>3, <1>5, <1>10, <2>1, <2>2, <2>3, <2>4 DEF LockInv, Starting
<1>13. QED
  BY <1>10, <1>11, <1>12 DEF LockInv

-----------------------------------------------------------------------------
\* The chain walk finds the ancestors, and the third of them is committed.
LEMMA ParentsNth ==
  ASSUME TypeInv, Chained, \A req \in Request : req.type = "REGULAR",
         NEW store, store = {Nth(proposed, k) : k \in 0 .. Top},
         NEW k \in 0 .. Top
  PROVE  Parents(store, {Nth(proposed, k)}) = IF k = 0 THEN {} ELSE {Nth(proposed, k - 1)}
<1>1. Parents(store, {Nth(proposed, k)}) = Get(store, Nth(proposed, k).justify.hash)
  BY DEF Parents
<1>2. Nth(proposed, k).justify.hash = IF k = 0 THEN << >> ELSE Digest(k - 1)
  BY NthFacts
<1>3. Top \in Nat
  BY DEF TypeInv, TypeOK, Top
<1>4. CASE k = 0
  BY <1>1, <1>2, <1>4, GetNth
<1>5. CASE k # 0
  <2>1. k - 1 \in 0 .. Top
    BY <1>3, <1>5
  <2>2. Nth(proposed, k - 1) \in store
    BY <2>1
  <2>3. Get(store, Digest(k - 1)) = {Nth(proposed, k - 1)}
    BY <2>1, <2>2, GetNth
  <2>4. QED
    BY <1>1, <1>2, <1>5, <2>3
<1>6. QED
  BY <1>4, <1>5

LEMMA CommittableNth ==
  ASSUME TypeInv, Chained, \A req \in Request : req.type = "REGULAR",
         NEW store, store = {Nth(proposed, k) : k \in 0 .. Top},
         NEW k \in 0 .. Top
  PROVE  Committable(store, Nth(proposed, k)) = IF k < 3 THEN {} ELSE {Nth(proposed, k - 3)}
<1> DEFINE b0 == Nth(proposed, k)
           bDouble == Parents(store, {b0})
           bPrime  == Parents(store, bDouble)
           bs      == Parents(store, bPrime)
<1>1. Committable(store, b0) =
        {b \in bs : \E x \in bDouble, y \in bPrime : CheckThreeChain(b0, x, y, b)}
  BY DEF Committable
<1>2. Parents(store, {}) = {}
  BY DEF Parents
<1>3. Top \in Nat
  BY DEF TypeInv, TypeOK, Top
<1>4. \A j \in 0 .. Top : Parents(store, {Nth(proposed, j)}) =
        IF j = 0 THEN {} ELSE {Nth(proposed, j - 1)}
  BY ParentsNth
<1>5. Parents(store, {Nth(proposed, k)}) = IF k = 0 THEN {} ELSE {Nth(proposed, k - 1)}
  BY <1>4, Zenon
<1>6. (k = 0 => bDouble = {}) /\ (k >= 1 => bDouble = {Nth(proposed, k - 1)})
  <2>1. bDouble = IF k = 0 THEN {} ELSE {Nth(proposed, k - 1)}
    BY <1>5, Zenon
  <2>2. k >= 1 => k # 0
    OBVIOUS
  <2> HIDE DEF bDouble
  <2>3. QED
    BY <2>1, <2>2
<1>7. k >= 1 => k - 1 \in 0 .. Top /\ k - 1 - 1 = k - 2
  BY <1>3
<1>8. k = 1 => bPrime = {}
  <2> HIDE DEF bDouble
  <2>1. SUFFICES ASSUME k = 1 PROVE Parents(store, {Nth(proposed, k - 1)}) = {}
    BY <1>6
  <2>2. k - 1 \in 0 .. Top /\ k - 1 = 0
    BY <1>7, <2>1
  <2>3. QED
    BY <1>4, <2>2
<1>9. k >= 2 => bPrime = {Nth(proposed, k - 2)}
  <2> HIDE DEF bDouble
  <2>1. SUFFICES ASSUME k >= 2
                 PROVE  Parents(store, {Nth(proposed, k - 1)}) = {Nth(proposed, k - 2)}
    BY <1>3, <1>6
  <2>2. k - 1 \in 0 .. Top /\ k - 1 # 0 /\ k - 1 - 1 = k - 2
    BY <1>3, <1>7, <2>1
  <2>3. QED
    BY <1>4, <2>2
<1>10. k >= 2 => k - 2 \in 0 .. Top /\ k - 2 - 1 = k - 3
  BY <1>3
<1>11. k = 2 => bs = {}
  <2> HIDE DEF bPrime
  <2>1. SUFFICES ASSUME k = 2 PROVE Parents(store, {Nth(proposed, k - 2)}) = {}
    BY <1>9
  <2>2. k - 2 \in 0 .. Top /\ k - 2 = 0
    BY <1>10, <2>1
  <2>3. QED
    BY <1>4, <2>2
<1>12. k >= 3 => bs = {Nth(proposed, k - 3)}
  <2> HIDE DEF bPrime
  <2>1. SUFFICES ASSUME k >= 3
                 PROVE  Parents(store, {Nth(proposed, k - 2)}) = {Nth(proposed, k - 3)}
    BY <1>3, <1>9
  <2>2. k - 2 \in 0 .. Top /\ k - 2 # 0 /\ k - 2 - 1 = k - 3
    BY <1>3, <1>10, <2>1
  <2>3. QED
    BY <1>4, <2>2
<1> HIDE DEF bDouble, bPrime, bs
<1>13. CASE k < 3
  <2>1. bDouble = {} \/ bPrime = {} \/ bs = {}
    BY <1>3, <1>6, <1>8, <1>11, <1>13
  <2>2. Committable(store, b0) = {}
    BY <1>1, <2>1
  <2> HIDE DEF b0
  <2>3. Committable(store, b0) = IF k < 3 THEN {} ELSE {Nth(proposed, k - 3)}
    BY <1>13, <2>2
  <2>4. QED
    BY <2>3 DEF b0
<1>14. CASE k >= 3
  <2>1. k - 1 \in 0 .. Top /\ k - 2 \in 0 .. Top /\ k - 3 \in 0 .. Top
          /\ k # 0 /\ k - 1 # 0 /\ k - 2 # 0 /\ k - 1 - 1 = k - 2 /\ k - 2 - 1 = k - 3
    BY <1>3, <1>14
  <2>5. CheckThreeChain(b0, Nth(proposed, k - 1), Nth(proposed, k - 2), Nth(proposed, k - 3))
    <3>1. b0.parent = HashBlock(Nth(proposed, k - 1))
      BY <2>1, NthFacts
    <3>2. Nth(proposed, k - 1).parent = HashBlock(Nth(proposed, k - 2))
      <4>1. Nth(proposed, k - 1).parent = Digest(k - 1 - 1)
        BY <2>1, NthFacts
      <4>2. HashBlock(Nth(proposed, k - 2)) = Digest(k - 2)
        BY <2>1, NthFacts
      <4>3. QED
        BY <2>1, <4>1, <4>2
    <3>3. Nth(proposed, k - 2).parent = HashBlock(Nth(proposed, k - 3))
      <4>1. Nth(proposed, k - 2).parent = Digest(k - 2 - 1)
        BY <2>1, NthFacts
      <4>2. HashBlock(Nth(proposed, k - 3)) = Digest(k - 3)
        BY <2>1, NthFacts
      <4>3. QED
        BY <2>1, <4>1, <4>2
    <3>4. QED
      BY <3>1, <3>2, <3>3 DEF CheckThreeChain
  <2>6. bDouble = {Nth(proposed, k - 1)} /\ bPrime = {Nth(proposed, k - 2)}
          /\ bs = {Nth(proposed, k - 3)}
    BY <1>3, <1>6, <1>9, <1>12, <1>14
  <2> HIDE DEF b0
  <2>7. Committable(store, b0) = {Nth(proposed, k - 3)}
    BY <1>1, <2>5, <2>6
  <2>8. Committable(store, b0) = IF k < 3 THEN {} ELSE {Nth(proposed, k - 3)}
    <3>1. ~(k < 3)
      BY <1>3, <1>14
    <3>2. QED
      BY <2>7, <3>1, Zenon
  <2>9. QED
    BY <2>8 DEF b0
<1>15. QED
  BY <1>3, <1>13, <1>14

-----------------------------------------------------------------------------
\* Deliver runs a block of the chain once, and then remembers it.
LEMMA DeliverNew ==
  ASSUME NEW d, NEW b, HashBlock(b) \notin d.delivered,
         Installed(d.configs, b.conf), ~ChangesMembership(b)
  PROVE  /\ Deliver(d, b).configs = d.configs
         /\ Deliver(d, b).delivered = d.delivered \cup {HashBlock(b)}
         /\ Deliver(d, b).executed = Append(d.executed, b)
<1>1. Runs(d, b) /\ ~Installs(d, b) /\ Marks(d, b)
  BY DEF Runs, Installs, Marks
<1>2. QED
  BY <1>1 DEF Deliver

LEMMA DeliverAgain ==
  ASSUME NEW d, NEW b, HashBlock(b) \in d.delivered
  PROVE  /\ Deliver(d, b).configs = d.configs
         /\ Deliver(d, b).delivered = d.delivered
         /\ Deliver(d, b).executed = d.executed
<1>1. ~Runs(d, b) /\ ~Installs(d, b) /\ ~Marks(d, b)
  BY DEF Runs, Installs, Marks
<1>2. QED
  BY <1>1 DEF Deliver

\* What a follower holds when it handles the last block.
LEMMA BehindByOne ==
  ASSUME NEW c \in Committee, HasLeader(c), Lockstep(c), TypeInv, LockInv(c),
         NEW r \in Replica, NEW m \in net, HandlePropose(r, m)
  PROVE  /\ m \in Proposals /\ r \in Audience(c) /\ r # First(c)
         /\ m.round = Top /\ Top \in Nat /\ Top >= 1
         /\ proposed[m.round] = Nth(proposed, Top)
         /\ Pending(r) /\ Height(r) = Top - 1
         /\ chain[r] = {Nth(proposed, k) : k \in 0 .. Top}
<1>1. m \in Proposals /\ m.dst = r /\ m.stored
  BY DEF HandlePropose, Proposals
<1>2. m.round = Top /\ r \in Audience(c)
  BY <1>1 DEF LockInv, OnlyTopInFlight
<1>3. r # First(c)
  BY <1>2, AudienceSize
<1>4. Top \in Nat /\ Top >= 1 /\ proposed[m.round] = Nth(proposed, Top)
  <2>1. Top \in DOMAIN proposed /\ DOMAIN proposed = 1 .. Top /\ Top \in Nat
    BY <1>1, <1>2 DEF TypeInv, TypeOK, RoundsProposed, Top, Proposals
  <2>2. QED
    BY <1>2, <2>1 DEF Nth
<1>5. Pending(r) /\ Height(r) = Top - 1
  BY <1>1 DEF Pending, Height
<1>6. chain[r] = {Nth(proposed, k) : k \in 0 .. Top}
  <2>1. chain[r] \subseteq {Nth(proposed, k) : k \in 0 .. Top}
    BY DEF LockInv, Stored
  <2>2. ASSUME NEW k \in 0 .. Top PROVE Nth(proposed, k) \in chain[r]
    <3>1. CASE k = Top
      BY <1>1, <3>1 DEF LockInv, Stored
    <3>2. CASE k # Top
      <4>1. k \in 0 .. Height(r)
        BY <1>4, <1>5, <3>2
      <4>2. QED
        BY <1>2, <4>1 DEF LockInv, Stored
    <3>3. QED
      BY <3>1, <3>2
  <2>3. QED
    BY <2>1, <2>2
<1>7. QED
  BY <1>1, <1>2, <1>3, <1>4, <1>5, <1>6

\* Of the two commit paths the first runs the next block, the second none.
LEMMA CommitsNext ==
  ASSUME NEW c \in Committee, HasLeader(c), Lockstep(c), TypeInv, LockInv(c),
         NEW r \in Replica, NEW m \in net, HandlePropose(r, m)
  PROVE  /\ AfterPropose(r, m).configs = configs[r]
         /\ AfterPropose(r, m).executed =
              IF Top < 3 THEN executed[r] ELSE Append(executed[r], Nth(proposed, Top - 3))
         /\ AfterPropose(r, m).delivered =
              IF Top < 3 THEN delivered[r] ELSE delivered[r] \cup {Digest(Top - 3)}
<1> DEFINE d0 == DelivererOf(r)
           d1 == DeliverAny(d0, Committable(chain[r], proposed[m.round]))
           d2 == AfterPropose(r, m)
           w  == window[r]
<1>1. /\ r \in Audience(c) /\ Top \in Nat /\ Top >= 1 /\ Height(r) = Top - 1
      /\ proposed[m.round] = Nth(proposed, Top)
      /\ chain[r] = {Nth(proposed, k) : k \in 0 .. Top}
      /\ Chained /\ \A req \in Request : req.type = "REGULAR"
  BY BehindByOne DEF LockInv, Lockstep
<1>2. d0.configs = configs[r] /\ d0.delivered = delivered[r] /\ d0.executed = executed[r]
  BY DEF DelivererOf
<1>3. /\ Len(executed[r]) = IF Top < 4 THEN 0 ELSE Top - 3
      /\ DOMAIN executed[r] = 1 .. Len(executed[r])
      /\ delivered[r] = {Digest(i - 1) : i \in DOMAIN executed[r]}
  <2>1. executed[r] \in Seq(Block)
    BY DEF TypeInv, TypeOK
  <2>2. Len(executed[r]) = IF Height(r) < 3 THEN 0 ELSE Height(r) - 2
    BY <1>1 DEF LockInv, ExecutedInOrder
  <2>3. Len(executed[r]) = IF Top < 4 THEN 0 ELSE Top - 3
    BY <1>1, <2>2
  <2>4. delivered[r] = {Digest(i - 1) : i \in DOMAIN executed[r]}
    BY <1>1 DEF LockInv, ExecutedInOrder
  <2>5. QED
    BY <2>1, <2>3, <2>4
<1>4. Committable(chain[r], proposed[m.round]) =
        IF Top < 3 THEN {} ELSE {Nth(proposed, Top - 3)}
  <2>1. Top \in 0 .. Top
    BY <1>1
  <2>2. Committable(chain[r], Nth(proposed, Top)) =
          IF Top < 3 THEN {} ELSE {Nth(proposed, Top - 3)}
    BY <1>1, <2>1, CommittableNth
  <2>3. QED
    BY <1>1, <2>2, Zenon
<1>5. /\ d1.configs = configs[r]
      /\ d1.executed =
           IF Top < 3 THEN executed[r] ELSE Append(executed[r], Nth(proposed, Top - 3))
      /\ d1.delivered =
           IF Top < 3 THEN delivered[r] ELSE delivered[r] \cup {Digest(Top - 3)}
  <2>1. CASE Top < 3
    BY <1>2, <1>4, <2>1 DEF DeliverAny
  <2>2. CASE ~(Top < 3)
    <3> DEFINE b == Nth(proposed, Top - 3)
    <3>1. Top - 3 \in 0 .. Top
      BY <1>1, <2>2
    <3>2. HashBlock(b) = Digest(Top - 3) /\ b.conf = 0 /\ ~ChangesMembership(b)
      BY <1>1, <3>1, NthFacts
    <3>3. Digest(Top - 3) \notin delivered[r]
      <4>1. ASSUME NEW i \in 1 .. Len(executed[r]), Digest(i - 1) = Digest(Top - 3)
            PROVE  FALSE
        <5>1. i - 1 = Top - 3
          BY <1>1, <1>3, <3>1, <4>1, DigestsDiffer
        <5>2. QED
          BY <1>1, <1>3, <5>1
      <4>2. QED
        BY <1>3, <4>1
    <3>4. configs[r] = <<c>>
      BY DEF LockInv, Steady
    <3> HIDE DEF b, d0
    <3>5. d1 = Deliver(d0, b)
      BY <1>4, <2>2 DEF DeliverAny, The, b
    <3>6. HashBlock(b) \notin d0.delivered /\ Installed(d0.configs, b.conf)
      BY <1>2, <3>2, <3>3, <3>4 DEF Installed
    <3>7. QED
      BY <1>2, <2>2, <3>2, <3>5, <3>6, DeliverNew DEF b
  <2>3. QED
    BY <2>1, <2>2
<1> HIDE DEF d0, d1
<1>6. d2 = DeliverAny(d1, Advanced(w))
  BY DEF AfterPropose, d1, d0
<1>7. CASE Advanced(w) = {}
  BY <1>5, <1>6, <1>7 DEF DeliverAny
<1>8. CASE Advanced(w) # {}
  <2>1. Len(w) = 4 /\ Advanced(w) = {w[1]}
    BY <1>8 DEF Advanced
  <2>2. d2 = Deliver(d1, w[1])
    BY <1>6, <2>1 DEF DeliverAny, The
  <2>3. 4 <= Top - 1 /\ w[1] = Nth(proposed, Top - 4)
    <3>1. Len(w) <= Height(r)
            /\ \A i \in DOMAIN w : w[i] = Nth(proposed, Height(r) - Len(w) + i)
      BY <1>1 DEF LockInv, WindowsFollow
    <3>2. 1 \in DOMAIN w
      <4>1. w \in Seq(Block)
        BY DEF TypeInv, TypeOK
      <4>2. QED
        BY <2>1, <4>1
    <3>3. Height(r) - Len(w) + 1 = Top - 4
      BY <1>1, <2>1
    <3>4. QED
      BY <1>1, <2>1, <3>1, <3>2, <3>3
  <2>4. HashBlock(w[1]) = Digest(Top - 4)
    <3>1. Top - 4 \in 0 .. Top
      BY <1>1, <2>3
    <3>2. QED
      BY <1>1, <2>3, <3>1, NthFacts
  <2>5. Digest(Top - 4) \in delivered[r]
    <3>1. Top - 3 \in DOMAIN executed[r] /\ Top - 3 - 1 = Top - 4
      BY <1>1, <1>3, <2>3
    <3>2. QED
      BY <1>3, <3>1
  <2>6. HashBlock(w[1]) \in d1.delivered
    BY <1>5, <2>4, <2>5
  <2>7. QED
    BY <1>5, <2>2, <2>6, DeliverAgain
<1>9. QED
  BY <1>7, <1>8

-----------------------------------------------------------------------------
\* HandlePropose.
LEMMA AppendBlock ==
  ASSUME NEW w \in Seq(Block), NEW b \in Block, NEW new, new = Append(w, b)
  PROVE  /\ Len(w) \in Nat /\ Len(new) = Len(w) + 1 /\ DOMAIN new = 1 .. Len(w) + 1
         /\ new[Len(w) + 1] = b /\ \A i \in 1 .. Len(w) : new[i] = w[i]
BY AppendProperties

\* The window holds the last blocks handled, four at most.
LEMMA AdvanceShifts ==
  ASSUME NEW w \in Seq(Block), Len(w) <= 4, NEW b \in Block
  PROVE  LET skip == IF Len(w) = 4 THEN 1 ELSE 0
             new  == Advance(w, b)
         IN  /\ Len(new) = Len(w) + 1 - skip
             /\ \A i \in DOMAIN new :
                  new[i] = IF i = Len(new) THEN b ELSE w[i + skip]
<1> DEFINE new == Advance(w, b)
<1>1. CASE Len(w) = 4
  <2>1. PICK t : t = Tail(w)
    OBVIOUS
  <2>2. t \in Seq(Block) /\ Len(t) = 3 /\ \A i \in 1 .. 3 : t[i] = w[i + 1]
    <3>1. w # << >>
      BY <1>1
    <3>2. /\ t \in Seq(Block) /\ Len(t) = Len(w) - 1
          /\ \A i \in 1 .. Len(t) : t[i] = w[i + 1]
      BY <2>1, <3>1, HeadTailProperties
    <3>3. QED
      BY <1>1, <3>2
  <2>3. Len(new) = 4 /\ DOMAIN new = 1 .. 4 /\ new[4] = b /\ \A i \in 1 .. 3 : new[i] = t[i]
    <3>1. new = Append(t, b)
      BY <1>1, <2>1 DEF Advance
    <3>2. t \in Seq(Block) /\ Len(t) = 3
      BY <2>2
    <3> HIDE DEF new
    <3>3. /\ Len(new) = Len(t) + 1 /\ DOMAIN new = 1 .. Len(t) + 1
          /\ new[Len(t) + 1] = b /\ \A i \in 1 .. Len(t) : new[i] = t[i]
      BY <3>1, <3>2, AppendBlock
    <3>4. QED
      BY <3>2, <3>3
  <2> HIDE DEF new
  <2>4. \A i \in DOMAIN new : new[i] = IF i = 4 THEN b ELSE w[i + 1]
    BY <2>2, <2>3
  <2>5. QED
    BY <1>1, <2>3, <2>4 DEF new
<1>2. CASE Len(w) # 4
  <2>1. new = Append(w, b)
    BY <1>2 DEF Advance
  <2> HIDE DEF new
  <2>2. /\ Len(w) \in Nat /\ Len(new) = Len(w) + 1 /\ DOMAIN new = 1 .. Len(w) + 1
        /\ new[Len(w) + 1] = b /\ \A i \in 1 .. Len(w) : new[i] = w[i]
    BY <2>1, AppendBlock
  <2>3. \A i \in DOMAIN new : new[i] = IF i = Len(new) THEN b ELSE w[i + 0]
    BY <2>2
  <2>4. QED
    BY <1>2, <2>2, <2>3 DEF new
<1>3. QED
  BY <1>1, <1>2

\* The vote, if SafeNode allows it, is for the last block.
LEMMA VotesLast ==
  ASSUME NEW c \in Committee, HasLeader(c), Lockstep(c), TypeInv, LockInv(c),
         NEW r \in Replica, NEW m \in net, HandlePropose(r, m),
         NEW x \in SendVote(r, m)
  PROVE  /\ x.type = "vote" /\ x.dst = First(c) /\ x.answers = Top
         /\ x.vote.signer = r
         /\ x.vote.view = 0 /\ x.vote.conf = 0 /\ x.vote.hash = Digest(Top)
         /\ x.vote.sig = Sign(r, 0, 0, Digest(Top))
<1> DEFINE bStar == proposed[m.round]
           vote  == VoteFor(r, bStar)
           leader == Leader(Mc(r), curView[r])
<1>1. /\ r # First(c) /\ m.round = Top /\ bStar = Nth(proposed, Top)
      /\ Top \in 0 .. Top /\ Chained /\ \A req \in Request : req.type = "REGULAR"
  BY BehindByOne DEF LockInv, Lockstep
<1>2. Mc(r) = c /\ c.number = 0 /\ curView[r] = 0 /\ leader.id = First(c)
  BY <1>1, LockstepState, LockstepCommittee DEF LockInv, Steady
<1>3. HashBlock(bStar) = Digest(Top) /\ bStar.conf = 0
  BY <1>1, NthFacts
<1>4. x = [type |-> "vote", dst |-> leader.id, vote |-> vote, answers |-> m.round]
  BY Zenon DEF SendVote, UnicastTo
<1> HIDE DEF bStar, leader
<1>5. /\ vote.view = 0 /\ vote.conf = 0 /\ vote.hash = Digest(Top) /\ vote.signer = r
      /\ vote.sig = Sign(r, 0, 0, Digest(Top))
  BY <1>2, <1>3 DEF VoteFor
<1> HIDE DEF vote
<1>6. QED
  BY <1>1, <1>2, <1>4, <1>5

LEMMA HandleProposeLockInv ==
  ASSUME NEW c \in Committee, HasLeader(c), Lockstep(c), TypeInv, LockInv(c),
         NEW r \in Replica, NEW m \in net, HandlePropose(r, m)
  PROVE  LockInv(c)'
<1> DEFINE d == AfterPropose(r, m)
<1>1. /\ m \in Proposals /\ r \in Audience(c) /\ r # First(c)
      /\ Top \in Nat /\ Top >= 1 /\ proposed[m.round] = Nth(proposed, Top)
      /\ Pending(r) /\ Height(r) = Top - 1
      /\ m.dst = r /\ m.type = "propose"
      /\ Nth(proposed, Top) \in Block
  <2>1. m.dst = r /\ m.type = "propose" /\ proposed[m.round] \in Block
    BY ProposedType DEF HandlePropose, TypeInv
  <2>2. QED
    BY <2>1, BehindByOne
<1>2. /\ net' = (net \ {m}) \cup SendVote(r, m)
      /\ window' = [window EXCEPT ![r] = Advance(@, Nth(proposed, Top))]
      /\ UNCHANGED <<curView, timeout, chain, proposed>>
      /\ UNCHANGED <<votesBuf, newViewBuf>>
  BY <1>1 DEF HandlePropose, viewVars, bufferVars
<1>3. /\ configs' = [configs EXCEPT ![r] = d.configs]
      /\ delivered' = [delivered EXCEPT ![r] = d.delivered]
      /\ executed' = [executed EXCEPT ![r] = d.executed]
  BY DEF HandlePropose, AfterPropose
<1>4. genericQC'[First(c)] = genericQC[First(c)]
  <2>1. \A q \in Replica \ {r} : genericQC'[q] = genericQC[q]
    BY DEF HandlePropose, TypeInv, TypeOK
  <2>2. QED
    BY <1>1, <2>1, LockstepCommittee
<1>5. /\ d.configs = configs[r]
      /\ d.executed = IF Top < 3 THEN executed[r]
                                 ELSE Append(executed[r], Nth(proposed, Top - 3))
      /\ d.delivered = IF Top < 3 THEN delivered[r] ELSE delivered[r] \cup {Digest(Top - 3)}
  BY CommitsNext
<1> HIDE DEF d
<1>6. \A x \in SendVote(r, m) :
        /\ x.type = "vote" /\ x.dst = First(c) /\ x.answers = Top
        /\ x.vote.signer = r /\ x.vote.view = 0 /\ x.vote.conf = 0
        /\ x.vote.hash = Digest(Top) /\ x.vote.sig = Sign(r, 0, 0, Digest(Top))
  BY VotesLast
<1>7. \A x, y \in SendVote(r, m) : x = y
  BY DEF SendVote, UnicastTo
<1>8. /\ Proposals' = Proposals \ {m} /\ NewViews' = NewViews
      /\ Votes' = Votes \cup SendVote(r, m)
  BY <1>1, <1>2, <1>6 DEF Proposals, NewViews, Votes
<1>9. ~Pending(r)' /\ \A q : q # r => (Pending(q)' <=> Pending(q))
  <2>1. \A n \in Proposals : n.dst = r => n = m
    BY <1>1 DEF LockInv, OnlyTopInFlight
  <2>2. QED
    BY <1>1, <1>8, <2>1 DEF Pending
<1>10. /\ Top' = Top /\ Height(r)' = Top /\ \A q : q # r => Height(q)' = Height(q)
       /\ \A k : Nth(proposed', k) = Nth(proposed, k)
  BY <1>2, <1>9 DEF Top, Height
<1>11. Steady(c)'
  <2>1. \A q \in Replica : configs'[q] = configs[q]
    BY <1>3, <1>5 DEF TypeInv, TypeOK
  <2>2. QED
    BY <1>2, <2>1 DEF LockInv, Steady
<1>12. Chained' /\ CertifiedBy(c)'
  BY <1>2 DEF LockInv, Chained, CertifiedBy
<1>13. OnlyTopInFlight(c)'
  BY <1>8, <1>10 DEF LockInv, OnlyTopInFlight
<1>14. Stored(c)'
  <2>1. chain' = chain /\ Top' = Top /\ \A k : Nth(proposed', k) = Nth(proposed, k)
    BY <1>2, <1>10
  <2>2. \A k \in 0 .. Top : Nth(proposed, k) \in chain[r]
    BY BehindByOne
  <2>3. ASSUME NEW q \in Audience(c) \cup {First(c)}, NEW k \in 0 .. Height(q)'
        PROVE  Nth(proposed, k) \in chain[q]
    <3>1. CASE q = r
      BY <1>10, <2>2, <3>1
    <3>2. CASE q # r
      BY <1>10, <3>2 DEF LockInv, Stored
    <3>3. QED
      BY <3>1, <3>2
  <2>4. (\A q \in Replica : chain[q] \subseteq {Nth(proposed, k) : k \in 0 .. Top})
          /\ \A n \in Proposals' : n.stored => Nth(proposed, Top) \in chain[n.dst]
    BY <1>8 DEF LockInv, Stored
  <2>5. QED
    BY <2>1, <2>3, <2>4 DEF Stored
<1>15. WindowsFollow(c)'
  <2> DEFINE w    == window[r]
             new  == Advance(w, Nth(proposed, Top))
             skip == IF Len(w) = 4 THEN 1 ELSE 0
  <2>1. /\ w \in Seq(Block) /\ Len(w) \in Nat /\ DOMAIN w = 1 .. Len(w)
        /\ Len(w) <= 4 /\ Len(w) <= Top - 1
        /\ \A i \in DOMAIN w : w[i] = Nth(proposed, Top - 1 - Len(w) + i)
    <3>1. w \in Seq(Block)
      BY DEF TypeInv, TypeOK
    <3>2. /\ Len(w) <= 4 /\ Len(w) <= Height(r)
          /\ \A i \in DOMAIN w : w[i] = Nth(proposed, Height(r) - Len(w) + i)
      BY <1>1 DEF LockInv, WindowsFollow
    <3>3. QED
      BY <1>1, <3>1, <3>2
  <2>2. /\ Len(new) = Len(w) + 1 - skip /\ new \in Seq(Block)
        /\ \A i \in DOMAIN new :
             new[i] = IF i = Len(new) THEN Nth(proposed, Top) ELSE w[i + skip]
    BY <1>1, <2>1, AdvanceShifts, AdvanceType
  <2>3. skip \in {0, 1} /\ (Len(w) = 4 => skip = 1)
    OBVIOUS
  <2> HIDE DEF w, new, skip
  <2>4. /\ Len(new) <= 4 /\ Len(new) <= Top /\ Len(new) \in Nat
        /\ DOMAIN new = 1 .. Len(new)
    BY <1>1, <2>1, <2>2, <2>3
  <2>5. ASSUME NEW i \in DOMAIN new
        PROVE  new[i] = Nth(proposed, Top - Len(new) + i)
    <3>1. CASE i = Len(new)
      <4>1. Top - Len(new) + i = Top
        BY <1>1, <2>4, <3>1
      <4>2. QED
        BY <2>2, <3>1, <4>1
    <3>2. CASE i # Len(new)
      <4>1. i + skip \in DOMAIN w
        BY <2>1, <2>2, <2>3, <2>4, <3>2
      <4>2. Top - 1 - Len(w) + (i + skip) = Top - Len(new) + i
        BY <1>1, <2>1, <2>2, <2>3, <2>4
      <4>3. QED
        BY <2>1, <2>2, <3>2, <4>1, <4>2
    <3>3. QED
      BY <3>1, <3>2
  <2>6. Audience(c) \subseteq Replica
    BY AudienceSize
  <2>7. ASSUME NEW q \in Audience(c)
        PROVE  /\ Len(window'[q]) <= 4 /\ Len(window'[q]) <= Height(q)'
               /\ \A i \in DOMAIN window'[q] :
                    window'[q][i] = Nth(proposed, Height(q)' - Len(window'[q]) + i)
    <3>1. CASE q = r
      <4>1. window'[q] = new
        BY <1>2, <3>1 DEF TypeInv, TypeOK, w, new
      <4>2. QED
        BY <1>10, <2>4, <2>5, <3>1, <4>1
    <3>2. CASE q # r
      <4>1. window'[q] = window[q]
        BY <1>2, <2>6, <3>2 DEF TypeInv, TypeOK
      <4>2. QED
        BY <1>10, <3>2, <4>1 DEF LockInv, WindowsFollow
    <3>3. QED
      BY <3>1, <3>2
  <2>8. QED
    BY <1>2, <2>7 DEF WindowsFollow
<1>16. ExecutedInOrder(c)'
  <2> DEFINE e == executed[r]
             n == Top - 3
  <2>1. /\ e \in Seq(Block) /\ Len(e) = (IF Top < 4 THEN 0 ELSE n)
        /\ DOMAIN e = 1 .. Len(e)
        /\ \A i \in DOMAIN e : e[i] = Nth(proposed, i - 1)
        /\ delivered[r] = {Digest(i - 1) : i \in DOMAIN e}
    <3>1. e \in Seq(Block)
      BY DEF TypeInv, TypeOK
    <3>2. /\ Len(e) = IF Height(r) < 3 THEN 0 ELSE Height(r) - 2
          /\ \A i \in DOMAIN e : e[i] = Nth(proposed, i - 1)
          /\ delivered[r] = {Digest(i - 1) : i \in DOMAIN e}
      BY <1>1 DEF LockInv, ExecutedInOrder
    <3>3. Len(e) = IF Top < 4 THEN 0 ELSE n
      BY <1>1, <3>2
    <3>4. QED
      BY <3>1, <3>2, <3>3
  <2> HIDE DEF e
  <2>2. /\ Len(d.executed) = IF Top < 3 THEN 0 ELSE Top - 2
        /\ \A i \in DOMAIN d.executed : d.executed[i] = Nth(proposed, i - 1)
        /\ d.delivered = {Digest(i - 1) : i \in DOMAIN d.executed}
    <3>1. CASE Top < 3
      BY <1>1, <1>5, <2>1, <3>1 DEF e
    <3>2. CASE ~(Top < 3)
      <4>1. /\ d.executed = Append(e, Nth(proposed, n))
            /\ d.delivered = delivered[r] \cup {Digest(n)}
        BY <1>5, <3>2 DEF e
      <4>2. n \in Nat /\ Len(e) = n /\ Top = n + 3
        BY <1>1, <2>1, <3>2
      <4>3. Nth(proposed, n) \in Block
        <5>1. n \in 0 .. Top
          BY <1>1, <4>2
        <5>2. QED
          BY <5>1, NthFacts DEF LockInv, Lockstep
      <4> DEFINE x == d.executed
      <4> HIDE DEF n, x
      <4>4. /\ Len(x) = n + 1 /\ DOMAIN x = 1 .. n + 1
            /\ x[n + 1] = Nth(proposed, n) /\ \A i \in 1 .. n : x[i] = e[i]
        BY <2>1, <4>1, <4>2, <4>3, AppendProperties DEF x
      <4>5. \A i \in DOMAIN x : x[i] = Nth(proposed, i - 1)
        <5>1. TAKE i \in DOMAIN x
        <5>2. CASE i \in 1 .. n
          BY <2>1, <4>2, <4>4, <5>2
        <5>3. CASE i = n + 1
          <6>1. i - 1 = n
            BY <4>2, <5>3
          <6>2. QED
            BY <4>4, <5>3, <6>1
        <5>4. QED
          BY <4>2, <4>4, <5>2, <5>3
      <4>6. d.delivered = {Digest(i - 1) : i \in DOMAIN x}
        <5>1. \A i \in DOMAIN x : i \in DOMAIN e \/ i - 1 = n
          BY <2>1, <4>2, <4>4
        <5>2. n + 1 \in DOMAIN x /\ (n + 1) - 1 = n /\ DOMAIN e \subseteq DOMAIN x
          BY <2>1, <4>2, <4>4
        <5>3. d.delivered = {Digest(i - 1) : i \in DOMAIN e} \cup {Digest(n)}
          BY <2>1, <4>1
        <5>4. {Digest(i - 1) : i \in DOMAIN x} \subseteq d.delivered
          BY <5>1, <5>3
        <5>5. d.delivered \subseteq {Digest(i - 1) : i \in DOMAIN x}
          <6>1. {Digest(i - 1) : i \in DOMAIN e} \subseteq {Digest(i - 1) : i \in DOMAIN x}
            BY <5>2
          <6>2. Digest(n) = Digest((n + 1) - 1)
            BY <5>2
          <6>3. Digest(n) \in {Digest(i - 1) : i \in DOMAIN x}
            <7>1. \E i \in DOMAIN x : Digest(n) = Digest(i - 1)
              BY <5>2, <6>2
            <7>2. QED
              BY <7>1
          <6>4. QED
            BY <5>3, <6>1, <6>3
        <5>6. QED
          BY <5>4, <5>5
      <4>7. QED
        BY <3>2, <4>2, <4>4, <4>5, <4>6 DEF x
    <3>3. QED
      BY <3>1, <3>2
  <2>3. \A q \in Replica : /\ executed'[q] = IF q = r THEN d.executed ELSE executed[q]
                           /\ delivered'[q] = IF q = r THEN d.delivered ELSE delivered[q]
    BY <1>3 DEF TypeInv, TypeOK
  <2>4. Audience(c) \subseteq Replica
    BY AudienceSize
  <2>5. \A q \in Replica \ Audience(c) : executed'[q] = << >>
    BY <1>1, <2>3 DEF LockInv, ExecutedInOrder
  <2>6. ASSUME NEW q \in Audience(c)
        PROVE  /\ Len(executed'[q]) = IF Height(q)' < 3 THEN 0 ELSE Height(q)' - 2
               /\ \A i \in DOMAIN executed'[q] : executed'[q][i] = Nth(proposed, i - 1)
               /\ delivered'[q] = {Digest(i - 1) : i \in DOMAIN executed'[q]}
    <3>1. CASE q = r
      <4>1. executed'[q] = d.executed /\ delivered'[q] = d.delivered /\ Height(q)' = Top
        BY <1>10, <2>3, <3>1
      <4>2. QED
        BY <2>2, <4>1
    <3>2. CASE q # r
      <4>1. executed'[q] = executed[q] /\ delivered'[q] = delivered[q]
              /\ Height(q)' = Height(q)
        BY <1>10, <2>3, <2>4, <3>2
      <4>2. QED
        BY <4>1 DEF LockInv, ExecutedInOrder
    <3>3. QED
      BY <3>1, <3>2
  <2>7. QED
    BY <1>2, <2>5, <2>6 DEF ExecutedInOrder
<1>17. VotesForTop(c)'
  <2>1. \A vote : ForTop(c, vote) => ForTop(c, vote)' /\ vote.signer # r
    BY <1>1, <1>9, <1>10 DEF ForTop
  <2>2. \A x \in SendVote(r, m) : ForTop(c, x.vote)'
    BY <1>1, <1>6, <1>9, <1>10 DEF ForTop
  <2>3. \A n \in Votes' : n.dst = First(c) /\ n.answers = Top /\ ForTop(c, n.vote)'
    BY <1>6, <1>8, <2>1, <2>2 DEF LockInv, VotesForTop
  <2>4. \A n \in Votes : n.vote.signer # r
    BY <2>1 DEF LockInv, VotesForTop
  <2>5. ASSUME NEW n \in Votes', NEW o \in Votes', n.vote.signer = o.vote.signer
        PROVE  n = o
    <3>1. CASE n \in Votes /\ o \in Votes
      BY <2>5, <3>1 DEF LockInv, VotesForTop
    <3>2. CASE n \in SendVote(r, m) /\ o \in SendVote(r, m)
      BY <1>7, <3>2
    <3>3. CASE (n \in Votes /\ o \in SendVote(r, m)) \/ (o \in Votes /\ n \in SendVote(r, m))
      BY <1>6, <2>4, <2>5, <3>3
    <3>4. QED
      BY <1>8, <3>1, <3>2, <3>3
  <2>6. ASSUME NEW q \in Replica, NEW v \in View, NEW i \in DOMAIN votesBuf[q][v]
        PROVE  /\ q = First(c) /\ v = 0 /\ Top > 0
               /\ ForTop(c, votesBuf[q][v][i])'
               /\ \A n \in Votes' : n.vote.signer # votesBuf[q][v][i].signer
               /\ \A j \in DOMAIN votesBuf[q][v] :
                    votesBuf[q][v][i].signer = votesBuf[q][v][j].signer => i = j
    <3>1. /\ q = First(c) /\ v = 0 /\ Top > 0
          /\ ForTop(c, votesBuf[q][v][i])
          /\ \A n \in Votes : n.vote.signer # votesBuf[q][v][i].signer
          /\ \A j \in DOMAIN votesBuf[q][v] :
               votesBuf[q][v][i].signer = votesBuf[q][v][j].signer => i = j
      BY DEF LockInv, VotesForTop
    <3>2. ForTop(c, votesBuf[q][v][i])' /\ votesBuf[q][v][i].signer # r
      BY <1>1, <1>2, <1>9, <1>10, <3>1 DEF ForTop
    <3>3. QED
      BY <1>6, <1>8, <3>1, <3>2
  <2>7. QED
    BY <1>2, <1>10, <2>3, <2>5, <2>6 DEF VotesForTop
<1>18. Starting(c)'
  <2>1. Starters(c)' = Starters(c)
    BY <1>2, <1>8 DEF Starters
  <2>2. QED
    BY <1>2, <1>4, <1>8, <1>10, <2>1 DEF LockInv, Starting
<1>19. QED
  BY <1>11, <1>12, <1>13, <1>14, <1>15, <1>16, <1>17, <1>18 DEF LockInv

-----------------------------------------------------------------------------
\* The invariant.
LEMMA InitLockInv ==
  ASSUME NEW c \in Committee, HasLeader(c), Lockstep(c), Init
  PROVE  LockInv(c)
<1>1. /\ First(c) \in Replica /\ Leader(c, 0).id = First(c) /\ c.number = 0
      /\ Audience(c) \subseteq Replica
  BY LockstepCommittee, AudienceSize
<1>2. /\ configs = [r \in Replica |-> <<c>>] /\ \A r \in Replica : Latest(configs[r]) = c
      /\ Bootstrap \subseteq Replica
  <2>1. configs = [r \in Replica |-> <<c>>]
    BY DEF Init, Lockstep
  <2>2. \A r \in Replica : Latest(configs[r]) = c
    BY <2>1 DEF Latest
  <2>3. QED
    BY <2>1, <2>2, DHotStuffAssumption
<1>3. 0 \in View
  BY DHotStuffAssumption DEF View
<1>4. ASSUME NEW m \in net
      PROVE  /\ m.type = "newview" /\ m.src \in Bootstrap
             /\ m.dst = First(c) /\ m.view = 0 /\ m.qc = GenesisQC
  <2>1. PICK r \in Bootstrap : m \in NewViewFrom(r, c, 0, GenesisQC)
    BY <1>2 DEF Init, Bootstrapping
  <2>2. m = [type |-> "newview", dst |-> Leader(c, 0).id, view |-> 0,
             conf |-> c.number, qc |-> GenesisQC, src |-> r]
    BY <2>1, Zenon DEF NewViewFrom, UnicastTo
  <2>3. QED
    BY <1>1, <2>2
<1>5. Proposals = {} /\ Votes = {}
  BY <1>4 DEF Proposals, Votes
<1>6. proposed = << >> /\ Top = 0 /\ (\A q : Height(q) = 0 /\ ~Pending(q))
        /\ Nth(proposed, 0) = GenesisBlock
  BY <1>5 DEF Init, Top, Height, Pending, Nth
<1>7. Steady(c)
  BY <1>2 DEF Init, Steady
<1>8. Chained /\ CertifiedBy(c)
  BY <1>6 DEF Chained, CertifiedBy
<1>9. OnlyTopInFlight(c)
  BY <1>5 DEF OnlyTopInFlight
<1>10. Stored(c)
  <2>1. \A q \in Replica : chain[q] = {GenesisBlock}
    BY DEF Init
  <2>2. \A k \in 0 .. 0 : k = 0
    OBVIOUS
  <2>3. 0 \in 0 .. 0
    OBVIOUS
  <2>4. \A q \in Replica : chain[q] \subseteq {Nth(proposed, k) : k \in 0 .. Top}
    BY <1>6, <2>1, <2>3
  <2>5. \A q \in Audience(c) \cup {First(c)} :
          \A k \in 0 .. Height(q) : Nth(proposed, k) \in chain[q]
    BY <1>1, <1>6, <2>1, <2>2
  <2>6. QED
    BY <1>5, <2>4, <2>5 DEF Stored
<1>11. WindowsFollow(c)
  BY <1>1, <1>6 DEF Init, WindowsFollow
<1>12. ExecutedInOrder(c)
  BY <1>1, <1>6 DEF Init, ExecutedInOrder
<1>13. VotesForTop(c)
  BY <1>5 DEF Init, VotesForTop
<1>14. Starting(c)
  <2>1. newViewBuf[First(c)][0] = << >> /\ genericQC[First(c)] = NoQC
    BY <1>1, <1>3 DEF Init
  <2>2. \A m \in NewViews : m \in net
    BY DEF NewViews
  <2>3. Starters(c) \subseteq Bootstrap
    BY <1>4, <2>1, <2>2 DEF Starters
  <2>4. QED
    BY <1>4, <1>6, <2>1, <2>2, <2>3 DEF Starting
<1>15. QED
  BY <1>7, <1>8, <1>9, <1>10, <1>11, <1>12, <1>13, <1>14 DEF LockInv

LEMMA StutterLockInv ==
  ASSUME NEW c, LockInv(c), UNCHANGED vars
  PROVE  LockInv(c)'
<1>1. /\ UNCHANGED <<configs, timeout, curView, proposed, net>>
      /\ UNCHANGED <<window, executed, delivered, chain, votesBuf, newViewBuf, genericQC>>
  BY DEF vars, engineVars, bufferVars, viewVars, deliverVars
<1>2. Proposals' = Proposals /\ Votes' = Votes /\ NewViews' = NewViews
  BY <1>1 DEF Proposals, Votes, NewViews
<1>3. QED
  BY <1>1, <1>2, RoundKept, VotesKept, StartKept DEF LockInv

LEMMA NextLockInv ==
  ASSUME NEW c \in Committee, HasLeader(c), Lockstep(c)
  PROVE  TypeInv /\ NewViewInv /\ LockInv(c) /\ [Next]_vars => LockInv(c)'
<1> SUFFICES ASSUME TypeInv, NewViewInv, LockInv(c), [Next]_vars PROVE LockInv(c)'
  OBVIOUS
<1>1. CASE UNCHANGED vars
  BY <1>1, StutterLockInv
<1>2. ASSUME NEW r \in Replica, NEW m \in net, Receive(r, m) PROVE LockInv(c)'
  <2>1. CASE StoreBlock(r, m)
    BY <2>1, StoreBlockLockInv
  <2>2. CASE IgnorePropose(r, m)
    BY <2>2, IgnoreProposeNever
  <2>3. CASE HandlePropose(r, m)
    BY <2>3, HandleProposeLockInv
  <2>4. CASE DropVote(r, m)
    BY <2>4, DropVoteLockInv
  <2>5. CASE CollectVote(r, m)
    BY <2>5, CollectVoteLockInv
  <2>6. CASE FormQC(r, m)
    BY <2>6, FormQCLockInv
  <2>7. CASE CollectNewView(r, m)
    BY <2>7, CollectNewViewLockInv
  <2>8. CASE ProposeOnNewViews(r, m)
    BY <2>8, ProposeOnNewViewsLockInv
  <2>9. QED
    BY <1>2, <2>1, <2>2, <2>3, <2>4, <2>5, <2>6, <2>7, <2>8 DEF Receive
<1>3. ASSUME NEW r \in Replica, NEW req \in Request, SubmitRequest(r, req)
      PROVE  LockInv(c)'
  BY <1>3, SubmitRequestLockInv
<1>4. ASSUME NEW r \in Replica, TimeoutBegin(r) \/ OnTimeout(r) \/ TimeoutEnd(r)
      PROVE  LockInv(c)'
  BY <1>4, TimeoutNever
<1>5. QED
  BY <1>1, <1>2, <1>3, <1>4 DEF Next

LEMMA SpecLockInv ==
  ASSUME NEW c \in Committee, HasLeader(c), Lockstep(c)
  PROVE  Spec => [](TypeInv /\ NewViewInv /\ LockInv(c))
<1>1. Init => LockInv(c)
  BY InitLockInv
<1>2. TypeInv /\ NewViewInv /\ LockInv(c) /\ [Next]_vars => LockInv(c)'
  BY NextLockInv
<1>3. QED
  BY <1>1, <1>2, InitNewViewInv, NextNewViewInv, SpecTypeInv, PTL DEF Spec

-----------------------------------------------------------------------------
\* Logs that agree as far as both go are comparable.
LEMMA AgreeingComparable ==
  ASSUME NEW s \in Seq(Block), NEW t \in Seq(Block), Len(s) <= Len(t),
         \A i \in DOMAIN s : s[i] = t[i]
  PROVE  IsPrefix(s, t)
<1>1. Len(s) \in Nat /\ Len(t) \in Nat /\ DOMAIN s = 1 .. Len(s) /\ DOMAIN t = 1 .. Len(t)
  OBVIOUS
<1>2. SubSeq(s, 1, Len(s)) = SubSeq(t, 1, Len(s))
  <2> DEFINE u == SubSeq(s, 1, Len(s))
             v == SubSeq(t, 1, Len(s))
             n == Len(s)
  <2>1. \A i \in 1 .. n : i \in DOMAIN s /\ i \in DOMAIN t
    BY <1>1
  <2>2. /\ u \in Seq(Block) /\ v \in Seq(Block) /\ Len(u) = n /\ Len(v) = n
        /\ \A i \in 1 .. n : u[i] = s[i] /\ v[i] = t[i]
    BY <1>1, <2>1, SubSeqProperties
  <2>3. \A i \in 1 .. n : s[i] = t[i]
    BY <2>1
  <2> HIDE DEF u, v, n
  <2>4. u = v
    BY <2>2, <2>3, SeqEqual
  <2>5. QED
    BY <2>4 DEF u, v, n
<1>3. QED
  BY <1>2 DEF IsPrefix

LEMMA HandleProposeExecutes ==
  ASSUME NEW c \in Committee, HasLeader(c), Lockstep(c), TypeInv, LockInv(c), LockInv(c)',
         TypeInv', NEW r \in Replica, NEW m \in net, HandlePropose(r, m)
  PROVE  executed' = executed \/ Broadcast!Execute(r)
<1> DEFINE log == executed'
<1>1. /\ log = [executed EXCEPT ![r] = AfterPropose(r, m).executed]
      /\ proposed' = proposed
  BY DEF HandlePropose, AfterPropose
<1>2. executed \in [Replica -> Seq(Block)] /\ log \in [Replica -> Seq(Block)]
  BY DEF TypeInv, TypeOK
<1>3. \A k : Nth(proposed', k) = Nth(proposed, k)
  BY <1>1 DEF Nth
<1>4. \A q \in Replica : \A i \in DOMAIN log[q] :
        log[q][i] = Nth(proposed, i - 1) /\ i - 1 \in 0 .. Top
  <2>1. \A q \in Replica \ Audience(c) : log[q] = << >>
    BY DEF LockInv, ExecutedInOrder
  <2>2. ASSUME NEW q \in Audience(c), NEW i \in DOMAIN log[q]
        PROVE  log[q][i] = Nth(proposed, i - 1) /\ i - 1 \in 0 .. Top
    <3>1. /\ log[q][i] = Nth(proposed', i - 1)
          /\ Len(log[q]) = IF Height(q)' < 3 THEN 0 ELSE Height(q)' - 2
      BY <2>2 DEF LockInv, ExecutedInOrder
    <3>2. Height(q)' \in {Top - 1, Top} /\ Top \in Nat
      BY <1>1 DEF Height, Top, TypeInv, TypeOK
    <3>3. log[q] \in Seq(Block)
      BY <1>2, AudienceSize
    <3> HIDE DEF log
    <3>4. i \in 1 .. Len(log[q])
      BY <3>3
    <3>5. QED
      BY <1>3, <3>1, <3>2, <3>4
  <2>3. QED
    BY <2>1, <2>2
<1>5. /\ r \in Audience(c) /\ Top \in Nat
      /\ AfterPropose(r, m).executed =
           IF Top < 3 THEN executed[r] ELSE Append(executed[r], Nth(proposed, Top - 3))
      /\ Nth(proposed, Top) \in Block
  <2>1. proposed[m.round] \in Block
    BY ProposedType DEF HandlePropose, TypeInv
  <2>2. QED
    BY <2>1, BehindByOne, CommitsNext
<1>6. CASE Top < 3
  BY <1>1, <1>2, <1>5, <1>6
<1>7. CASE ~(Top < 3)
  <2> DEFINE s == executed[r]
             b == Nth(proposed, Top - 3)
  <2>1. log[r] = Append(s, b) /\ \A q \in Replica \ {r} : log[q] = executed[q]
    BY <1>1, <1>2, <1>5, <1>7
  <2>2. b \in Block
    <3>1. Top - 3 \in 0 .. Top
      BY <1>5, <1>7
    <3>2. QED
      BY <3>1, NthFacts DEF LockInv, Lockstep
  <2> HIDE DEF log, b
  <2>3. IsStrictPrefix(s, log[r])
    <3>1. PICK t : t = log[r]
      OBVIOUS
    <3>2. s \in Seq(Block) /\ t \in Seq(Block)
      BY <1>2, <3>1
    <3> HIDE DEF s
    <3>3. /\ Len(s) \in Nat /\ Len(t) = Len(s) + 1 /\ DOMAIN t = 1 .. Len(s) + 1
          /\ \A i \in 1 .. Len(s) : t[i] = s[i]
      BY <2>1, <2>2, <3>1, <3>2, AppendBlock
    <3>4. IsPrefix(s, t) /\ s # t
      BY <3>2, <3>3, AgreeingComparable
    <3>5. QED
      BY <3>1, <3>4 DEF IsStrictPrefix
  <2>4. IsInjective(log[r])
    <3>1. SUFFICES ASSUME NEW i \in DOMAIN log[r], NEW j \in DOMAIN log[r],
                          log[r][i] = log[r][j]
                   PROVE  i = j
      BY DEF IsInjective
    <3>2. /\ i - 1 \in 0 .. Top /\ j - 1 \in 0 .. Top
          /\ Nth(proposed, i - 1) = Nth(proposed, j - 1)
      BY <1>4, <3>1
    <3>3. Digest(i - 1) = Digest(j - 1)
      BY <3>2, NthFacts DEF LockInv, Lockstep
    <3>4. i - 1 = j - 1 /\ i \in Nat /\ j \in Nat
      <4>1. i \in Nat /\ j \in Nat
        BY <1>2, <3>1
      <4>2. i - 1 \in Int /\ i - 1 >= -1 /\ j - 1 \in Int /\ j - 1 >= -1
        BY <4>1
      <4>3. QED
        BY <3>3, <4>1, <4>2, DigestsDiffer
    <3>5. QED
      BY <3>4
  <2>5. ASSUME NEW q \in Replica
        PROVE  IsPrefix(log[r], log[q]) \/ IsPrefix(log[q], log[r])
    <3>1. /\ log[r] \in Seq(Block) /\ log[q] \in Seq(Block)
          /\ Len(log[r]) \in Nat /\ Len(log[q]) \in Nat
      BY <1>2
    <3>2. CASE Len(log[r]) <= Len(log[q])
      <4>1. \A i \in DOMAIN log[r] : i \in DOMAIN log[q]
        BY <3>1, <3>2
      <4>2. QED
        BY <1>4, <3>1, <3>2, <4>1, AgreeingComparable
    <3>3. CASE Len(log[q]) <= Len(log[r])
      <4>1. \A i \in DOMAIN log[q] : i \in DOMAIN log[r]
        BY <3>1, <3>3
      <4>2. QED
        BY <1>4, <3>1, <3>3, <4>1, AgreeingComparable
    <3>4. QED
      BY <3>1, <3>2, <3>3
  <2>6. QED
    <3>1. \A q \in Replica \ {r} : executed'[q] = executed[q]
      BY <2>1 DEF log
    <3>2. IsStrictPrefix(executed[r], executed'[r]) /\ IsInjective(executed'[r])
      BY <2>3, <2>4 DEF log
    <3>3. \A q \in Replica : \/ IsPrefix(executed'[r], executed'[q])
                            \/ IsPrefix(executed'[q], executed'[r])
      BY <2>5 DEF log
    <3>4. QED
      <4>1. \A x, y : /\ Broadcast!IsPrefix(x, y) <=> IsPrefix(x, y)
                      /\ Broadcast!IsStrictPrefix(x, y) <=> IsStrictPrefix(x, y)
                      /\ Broadcast!IsInjective(x) <=> IsInjective(x)
        BY Zenon DEF IsPrefix, IsStrictPrefix, IsInjective, Broadcast!IsPrefix,
                     Broadcast!IsStrictPrefix, Broadcast!IsInjective
      <4>2. QED
        BY <3>1, <3>2, <3>3, <4>1, Zenon DEF Broadcast!Execute, Broadcast!Comparable
<1>8. QED
  BY <1>6, <1>7

LEMMA NextExecutes ==
  ASSUME NEW c \in Committee, HasLeader(c), Lockstep(c), TypeInv, LockInv(c),
         TypeInv', LockInv(c)', [Next]_vars
  PROVE  [Broadcast!Next]_executed
<1>1. CASE UNCHANGED vars
  BY <1>1 DEF vars, deliverVars
<1>2. ASSUME NEW r \in Replica, NEW m \in net, Receive(r, m)
      PROVE  [Broadcast!Next]_executed
  <2>1. CASE HandlePropose(r, m)
    BY <2>1, HandleProposeExecutes DEF Broadcast!Next
  <2>2. CASE ~HandlePropose(r, m)
    <3>1. executed' = executed
      BY <1>2, <2>2 DEF Receive, StoreBlock, IgnorePropose, DropVote, CollectVote, FormQC,
                        CollectNewView, ProposeOnNewViews, deliverVars
    <3>2. QED
      BY <3>1
  <2>3. QED
    BY <2>1, <2>2
<1>3. ASSUME NEW r \in Replica, NEW req \in Request, SubmitRequest(r, req)
      PROVE  [Broadcast!Next]_executed
  BY <1>3 DEF SubmitRequest, deliverVars
<1>4. ASSUME NEW r \in Replica, TimeoutBegin(r) \/ OnTimeout(r) \/ TimeoutEnd(r)
      PROVE  [Broadcast!Next]_executed
  BY <1>4 DEF TimeoutBegin, OnTimeout, TimeoutEnd, deliverVars
<1>5. QED
  BY <1>1, <1>2, <1>3, <1>4 DEF Next

(***************************************************************************)
(* Total order: in lockstep the engine implements AtomicBroadcast, however *)
(* many replicas, requests and blocks there are, and whatever is lost or   *)
(* overtaken: each replica executes the blocks in the order they were      *)
(* proposed, none twice and none left out (dhotstuff.go:104-241).          *)
(***************************************************************************)
THEOREM LockstepTotalOrder ==
  ASSUME NEW c \in Committee, HasLeader(c), Lockstep(c)
  PROVE  Spec => TotalOrder
<1>1. Init => Broadcast!Init
  BY DEF Init, Broadcast!Init
<1>2. TypeInv /\ LockInv(c) /\ TypeInv' /\ LockInv(c)' /\ [Next]_vars
        => [Broadcast!Next]_executed
  BY NextExecutes
<1>3. Spec => [](TypeInv /\ NewViewInv /\ LockInv(c))
  BY SpecLockInv
<1>4. QED
  BY <1>1, <1>2, <1>3, PTL DEF Spec, TotalOrder, Broadcast!Spec

(***************************************************************************)
(* In lockstep a certificate passes ValidateQC for the committee it names: *)
(* it has the signatures of a quorum of distinct members, each over the    *)
(* hash it certifies, which the engine does not check (dhotstuff.go:       *)
(* 192-241, quorum.go:56-80).                                              *)
(***************************************************************************)
THEOREM LockstepCertificatesValid ==
  ASSUME NEW c \in Committee, HasLeader(c), Lockstep(c)
  PROVE  Spec => []CertificatesValid
<1>1. LockInv(c) => CertificatesValid
  <2> SUFFICES ASSUME LockInv(c), NEW k \in DOMAIN proposed
               PROVE  LET qc == proposed[k].justify
                      IN  \/ qc \in {NoQC, GenesisQC}
                          \/ \E r \in Replica :
                               /\ Installed(configs[r], qc.conf)
                               /\ ValidateQC(qc, AtNumber(configs[r], qc.conf))
    BY DEF CertificatesValid
  <2>1. proposed[k].justify = GenesisQC \/ Passes(proposed[k].justify, c)
    BY DEF LockInv, CertifiedBy
  <2>2. First(c) \in Replica /\ configs[First(c)] = <<c>>
    BY LockstepCommittee DEF LockInv, Steady
  <2>3. Installed(configs[First(c)], 0) /\ AtNumber(configs[First(c)], 0) = c
    BY <2>2 DEF Installed, AtNumber
  <2>4. QED
    BY <2>1, <2>2, <2>3 DEF Passes
<1>2. Spec => [](TypeInv /\ NewViewInv /\ LockInv(c))
  BY SpecLockInv
<1>3. QED
  BY <1>1, <1>2, PTL
=============================================================================
