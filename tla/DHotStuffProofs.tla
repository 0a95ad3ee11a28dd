-------------------------- MODULE DHotStuffProofs ---------------------------
(***************************************************************************)
(* The safety properties of the engine, for every set of replicas, every   *)
(* initial configuration and every bound.  Each section has an inductive   *)
(* invariant and the theorems that follow from it; all rest on the first,  *)
(* type correctness.                                                       *)
(***************************************************************************)
EXTENDS DHotStuff, MembershipProofs

(***************************************************************************)
(* Types.  The strengthening says that a message refers to a block that    *)
(* was proposed, that the engine's view has grown by one for each block at *)
(* most, and that a view changer counts only up to its bound.              *)
(***************************************************************************)
RoundsProposed ==
  \A m \in net :
    /\ m.type = "propose" => m.round \in DOMAIN proposed
    /\ m.type = "vote" => m.answers \in DOMAIN proposed

ViewBound == \A r \in Replica : curView[r] <= MaxTimeouts + Len(proposed)

ChangerBound ==
  \A r \in Replica : timeout[r].phase = "changing" => vcView[r] < MaxTimeouts

TypeInv == TypeOK /\ RoundsProposed /\ ViewBound /\ ChangerBound

-----------------------------------------------------------------------------
\* The certificates and blocks the system starts with.
LEMMA GenesisType ==
  NoQC \in QuorumCert /\ GenesisQC \in QuorumCert /\ GenesisBlock \in Block
<1>1. << >> \in Hash /\ <<-1>> \in Hash /\ Append(<<-1>>, 0) \in Hash
  BY DEF Hash
<1>2. NoQC \in QuorumCert
  BY <1>1 DEF NoQC, QuorumCert
<1>3. GenesisBlock \in Block
  BY <1>1, <1>2 DEF GenesisBlock, Block
<1>4. GenesisQC \in QuorumCert
  BY <1>1 DEF GenesisQC, GenesisBlock, HashBlock, QuorumCert
<1>5. QED
  BY <1>2, <1>3, <1>4

LEMMA HashType ==
  ASSUME NEW b \in Block
  PROVE  HashBlock(b) \in Hash
BY DEF Block, HashBlock, Hash

\* The committee in force is one of the store.
LEMMA LatestType ==
  ASSUME NEW s, IsStore(s)
  PROVE  /\ Latest(s) \in Committee
         /\ Latest(s).number = Len(s) - 1
         /\ Len(s) \in Nat
BY DEF IsStore, Latest

LEMMA McType ==
  ASSUME TypeOK, NEW r \in Replica
  PROVE  /\ Mc(r) \in Committee
         /\ Mc(r).number = Len(configs[r]) - 1
         /\ Mc(r).number \in Nat
<1>1. IsStore(configs[r])
  BY DEF TypeOK
<1>2. Mc(r) \in Committee /\ Mc(r).number = Len(configs[r]) - 1
  BY <1>1, LatestType DEF Mc
<1>3. QED
  BY <1>2 DEF Committee

LEMMA LeaderType ==
  ASSUME NEW c \in Committee, HasLeader(c), NEW view \in Nat
  PROVE  Leader(c, view) \in Member
<1> DEFINE n == Len(c.replicas)
<1>1. c.replicas \in Seq(Member) /\ n \in Nat /\ n > 0
  <2>1. c.replicas \in Seq(Member) /\ c.replicas # << >>
    BY DEF Committee, HasLeader
  <2>2. QED
    BY <2>1, EmptySeq
<1>2. 1 + (view % n) \in 1 .. n
  <2> HIDE DEF n
  <2>1. view % n \in 0 .. n - 1
    BY <1>1
  <2>2. QED
    BY <1>1, <2>1
<1>3. QED
  BY <1>1, <1>2, ElementOfSeq DEF Leader

LEMMA NewViewFromType ==
  ASSUME NEW r \in Replica, NEW c \in Committee, HasLeader(c),
         NEW view \in View, NEW qc \in QuorumCert
  PROVE  NewViewFrom(r, c, view, qc) \subseteq NewViewMsg
<1>1. view \in Nat
  BY DHotStuffAssumption DEF View
<1>2. Leader(c, view).id \in Replica
  BY <1>1, LeaderType DEF Member
<1>3. c.number \in Nat
  BY DEF Committee
<1>4. QED
  BY <1>2, <1>3 DEF NewViewFrom, UnicastTo, NewViewMsg

LEMMA MessageKinds ==
  ASSUME TypeOK, NEW m \in net
  PROVE  /\ m.type = "propose" => m \in ProposeMsg
         /\ m.type = "vote" => m \in VoteMsg
         /\ m.type = "newview" => m \in NewViewMsg
BY DEF TypeOK, Message, ProposeMsg, VoteMsg, NewViewMsg

\* The handlers index the block a proposal refers to.
LEMMA ProposedType ==
  ASSUME TypeOK, RoundsProposed, NEW m \in net, m.type = "propose"
  PROVE  proposed[m.round] \in Block /\ m.round \in DOMAIN proposed
BY DEF TypeOK, RoundsProposed

-----------------------------------------------------------------------------
\* The block propose builds.
LEMMA RefillsType ==
  ASSUME NEW r \in Replica, NEW arriving \in Refills(r)
  PROVE  arriving \in Seq(Request \ submitted) /\ IsInjective(arriving)
BY DEF Refills, SeqOf

LEMMA NewBlockType ==
  ASSUME TypeOK, NEW r \in Replica, NEW justify \in QuorumCert,
         NEW arriving \in Refills(r)
  PROVE  NewBlock(r, justify, arriving) \in Block
<1> DEFINE parent == Get(chain[r], justify.hash)
           q      == requestQ[r]
<1>1. parent # {} => The(parent) \in Block
  BY DEF The, Get, TypeOK
<1>2. (IF parent = {} THEN 0 ELSE The(parent).height + 1) \in Nat
  BY <1>1 DEF Block
<1>3. q \in Seq(MembershipRequest) /\ BatchLen(r) \in Nat /\ BatchLen(r) <= Len(q)
  <2>1. q \in Seq(Request)
    BY DEF TypeOK
  <2>2. q \in Seq(MembershipRequest)
    BY <2>1, SeqMonotonic, DHotStuffAssumption
  <2>3. QED
    BY <2>2, DHotStuffAssumption DEF BatchLen
<1>4. Batch(r, arriving) \in Seq(MembershipRequest)
  <2>1. SubSeq(q, 1, BatchLen(r)) \in Seq(MembershipRequest)
    BY <1>3
  <2>2. arriving \in Seq(Request)
    BY RefillsType, SeqMonotonic
  <2>3. arriving \in Seq(MembershipRequest)
    BY <2>2, SeqMonotonic, DHotStuffAssumption
  <2>4. QED
    BY <2>1, <2>3 DEF Batch
<1>5. Mc(r).number \in Nat
  BY McType
<1>6. justify.hash \in Hash
  BY DEF QuorumCert
<1>7. QED
  BY <1>2, <1>4, <1>5, <1>6 DEF NewBlock, Block

LEMMA ProposeType ==
  ASSUME TypeInv, NEW r \in Replica, NEW justify \in QuorumCert, NEW m \in net,
         NEW arriving \in Refills(r), Propose(r, justify, arriving, m)
  PROVE  /\ proposed' \in Seq(Block) /\ Len(proposed') = Len(proposed) + 1
         /\ Len(proposed') <= MaxProposals
         /\ chain' \in [Replica -> SUBSET Block]
         /\ requestQ' \in [Replica -> Seq(Request)]
         /\ submitted' \subseteq Request
         /\ net' \subseteq Message
         /\ RoundsProposed'
<1> DEFINE b == NewBlock(r, justify, arriving)
           n == Len(proposed)
<1>1. b \in Block
  BY NewBlockType DEF TypeInv
<1>2. proposed \in Seq(Block) /\ n \in Nat /\ n < MaxProposals /\ MaxProposals \in Nat
  BY DHotStuffAssumption DEF Propose, TypeInv, TypeOK
<1>3. proposed' = Append(proposed, b)
  BY DEF Propose
<1> HIDE DEF b
<1>4. /\ proposed' \in Seq(Block) /\ Len(proposed') = n + 1
      /\ DOMAIN proposed = 1 .. n /\ DOMAIN proposed' = 1 .. n + 1
  BY <1>1, <1>2, <1>3
<1>5. chain' \in [Replica -> SUBSET Block]
  <2>1. chain' = [chain EXCEPT ![r] = Put(@, b)]
    BY DEF Propose, b
  <2>2. QED
    BY <1>1, <2>1 DEF Put, TypeInv, TypeOK
<1>6. requestQ' \in [Replica -> Seq(Request)]
  <2>1. requestQ' = [requestQ EXCEPT ![r] = SubSeq(@, BatchLen(r) + 1, Len(@))]
    BY DEF Propose
  <2>2. requestQ[r] \in Seq(Request) /\ BatchLen(r) \in Nat
    BY DHotStuffAssumption DEF TypeInv, TypeOK, BatchLen
  <2>3. SubSeq(requestQ[r], BatchLen(r) + 1, Len(requestQ[r])) \in Seq(Request)
    BY <2>2
  <2>4. QED
    BY <2>1, <2>3 DEF TypeInv, TypeOK
<1> DEFINE out == {[type |-> "propose", dst |-> q, round |-> n + 1, stored |-> FALSE]
                     : q \in BroadcastTargets(r)}
<1>7. net' = (net \ {m}) \cup out
  BY DEF Propose
<1>8. out \subseteq ProposeMsg
  <2>1. BroadcastTargets(r) \subseteq Replica
    <3>1. Mc(r).replicas \in Seq(Member)
      BY McType DEF TypeInv, Committee
    <3>2. \A x \in ToSet(Mc(r).replicas) : x \in Member
      BY <3>1 DEF ToSet
    <3>3. Reachable(Mc(r)) \subseteq Replica
      BY <3>2 DEF Reachable, Member
    <3>4. QED
      BY <3>3 DEF BroadcastTargets
  <2>2. n + 1 \in 1 .. MaxProposals
    BY <1>2
  <2>3. ASSUME NEW q \in Replica
        PROVE  [type |-> "propose", dst |-> q, round |-> n + 1, stored |-> FALSE]
                 \in ProposeMsg
    BY <2>2, Zenon DEF ProposeMsg
  <2>4. QED
    BY <2>1, <2>3, Zenon
<1>9. net' \subseteq Message
  BY <1>7, <1>8 DEF TypeInv, TypeOK, Message
<1>10. RoundsProposed'
  <2>1. \A x \in out : x.type = "propose" /\ x.round = n + 1
    OBVIOUS
  <2> HIDE DEF out
  <2>2. QED
    BY <1>2, <1>4, <1>7, <2>1 DEF TypeInv, RoundsProposed
<1>11. submitted' \subseteq Request
  <2>1. submitted' = submitted \cup ToSet(arriving)
    BY DEF Propose
  <2>2. ToSet(arriving) \subseteq Request
    BY RefillsType DEF ToSet
  <2>3. QED
    BY <2>1, <2>2 DEF TypeInv, TypeOK
<1>12. QED
  BY <1>2, <1>4, <1>5, <1>6, <1>9, <1>10, <1>11

-----------------------------------------------------------------------------
\* Votes and certificates.
LEMMA SignersCount ==
  ASSUME NEW votes \in Seq(Vote)
  PROVE  /\ IsFiniteSet(Signers(votes))
         /\ Cardinality(Signers(votes)) \in Nat
         /\ Cardinality(Signers(votes)) <= Len(votes)
<1> DEFINE n == Len(votes)
           f == [i \in 1 .. n |-> votes[i].signer]
<1>1. n \in Nat /\ DOMAIN votes = 1 .. n
  OBVIOUS
<1>2. IsFiniteSet(1 .. n) /\ Cardinality(1 .. n) = n
  <2>1. n \in Int /\ 1 \in Int
    BY <1>1
  <2>2. QED
    BY <1>1, <2>1, FS_Interval
<1>3. f \in Surjection(1 .. n, Signers(votes))
  BY <1>1 DEF Surjection, Signers
<1>4. QED
  BY <1>2, <1>3, FS_Surjection, FS_CardinalityType

LEMMA QuorumReached ==
  ASSUME NEW votes \in Seq(Vote), NEW c \in Committee, HasQuorum(votes, c)
  PROVE  QuorumSize(c) \in 1 .. Len(votes)
<1>1. Len(c.replicas) \in Nat /\ c.faultCap \in Nat
  BY DEF Committee
<1>2. QuorumSize(c) \in Nat /\ QuorumSize(c) >= 1
  BY <1>1 DEF QuorumSize
<1>3. QED
  BY <1>2, SignersCount DEF HasQuorum

LEMMA AggregateVotesType ==
  ASSUME NEW votes \in Seq(Vote), NEW vote \in Vote
  PROVE  AggregateVotes(votes, vote) \in Seq(Vote)
BY DEF AggregateVotes

LEMMA HighestViewQCType ==
  ASSUME NEW msgs \in Seq(NewViewMsg)
  PROVE  \/ HighestViewQC(msgs) = NoQC
         \/ \E i \in 1 .. Len(msgs) : HighestViewQC(msgs) = msgs[i].qc
<1> DEFINE Better(i, j) == msgs[j].qc = NoQC \/ msgs[i].qc.view > msgs[j].qc.view
                             \/ (msgs[i].qc.view = msgs[j].qc.view /\ i <= j)
           best == {i \in DOMAIN msgs : msgs[i].qc # NoQC
                                          /\ \A j \in DOMAIN msgs : Better(i, j)}
<1>1. HighestViewQC(msgs) = IF best = {} THEN NoQC ELSE msgs[The(best)].qc
  BY Zenon DEF HighestViewQC
<1>2. best # {} => The(best) \in best
  BY Zenon DEF The
<1>3. best \subseteq 1 .. Len(msgs)
  OBVIOUS
<1> HIDE DEF best
<1>4. QED
  BY <1>1, <1>2, <1>3

LEMMA VotesWithType ==
  ASSUME TypeOK, NEW r \in Replica, NEW m \in net, m.type = "vote"
  PROVE  /\ m.vote \in Vote /\ m.vote.view \in View
         /\ VotesWith(r, m.vote) \in Seq(Vote)
<1>1. m.vote \in Vote /\ m.vote.view \in View
  BY MessageKinds DEF VoteMsg
<1>2. votesBuf[r][m.vote.view] \in Seq(Vote)
  BY <1>1 DEF TypeOK
<1>3. QED
  BY <1>1, <1>2, AggregateVotesType DEF VotesWith

\* FormQC proposes with the certificate of a quorum of votes.
LEMMA FormQCMeans ==
  ASSUME TypeOK, NEW r \in Replica, NEW m \in net, FormQC(r, m)
  PROVE  LET votes == VotesWith(r, m.vote)
             qc == Certificate(votes, Mc(r))
         IN  /\ m.type = "vote" /\ m.vote \in Vote /\ m.vote.view \in View
             /\ votes \in Seq(Vote) /\ HasQuorum(votes, Mc(r)) /\ qc \in QuorumCert
             /\ genericQC' = [genericQC EXCEPT ![r] = AdoptQC(qc, @)]
             /\ \E arriving \in Refills(r) : Propose(r, qc, arriving, m)
<1> DEFINE votes == VotesWith(r, m.vote)
           qc    == Certificate(votes, Mc(r))
<1>1. m.type = "vote" /\ m.vote \in Vote /\ m.vote.view \in View /\ votes \in Seq(Vote)
  BY VotesWithType DEF FormQC
<1>2. Mc(r) \in Committee
  BY McType
<1>3. PICK x \in Certificates(r, m.vote) :
        /\ genericQC' = [genericQC EXCEPT ![r] = AdoptQC(x, @)]
        /\ \E arriving \in Refills(r) : Propose(r, x, arriving, m)
  BY Zenon DEF FormQC
<1>4. HasQuorum(votes, Mc(r)) /\ x \in CreateQC(votes, Mc(r))
  BY Zenon DEF Certificates
<1>5. x = qc
  BY <1>1, <1>2, <1>4, CreateQCAgrees
<1>6. qc \in QuorumCert
  BY <1>1, <1>2, <1>4, CertificateSigned
<1>7. QED
  BY <1>1, <1>3, <1>4, <1>5, <1>6, Zenon

LEMMA NewViewsWithType ==
  ASSUME TypeOK, NEW r \in Replica, NEW m \in net, m.type = "newview"
  PROVE  /\ m.view \in View
         /\ newViewBuf[r][m.view] \in Seq(NewViewMsg)
         /\ NewViewsWith(r, m) \in Seq(NewViewMsg)
<1>1. m \in NewViewMsg
  BY MessageKinds
<1>2. m.view \in View
  BY <1>1 DEF NewViewMsg
<1>3. newViewBuf[r][m.view] \in Seq(NewViewMsg)
  BY <1>2 DEF TypeOK
<1>4. QED
  BY <1>1, <1>2, <1>3 DEF NewViewsWith

LEMMA AdoptQCType ==
  ASSUME NEW qc \in QuorumCert, NEW current \in QuorumCert
  PROVE  AdoptQC(qc, current) \in {qc, current}
BY DEF AdoptQC

-----------------------------------------------------------------------------
LEMMA InitTypeInv == Init => TypeInv
<1> SUFFICES ASSUME Init PROVE TypeInv
  OBVIOUS
<1>1. 0 \in View /\ 0 \in 0 .. MaxTimeouts
  BY DHotStuffAssumption DEF View
<1>2. Bootstrapping \subseteq NewViewMsg
  <2>1. ASSUME NEW r \in Bootstrap
        PROVE  NewViewFrom(r, Latest(configs[r]), 0, GenesisQC) \subseteq NewViewMsg
    <3>1. r \in Replica /\ IsStore(configs[r])
      BY DHotStuffAssumption DEF Init
    <3>2. Latest(configs[r]) \in Committee
      BY <3>1, LatestType
    <3>3. HasLeader(Latest(configs[r]))
      BY <3>1, DHotStuffAssumption DEF HasLeader, Latest, IsStore, Init
    <3>4. QED
      BY <1>1, <3>1, <3>2, <3>3, GenesisType, NewViewFromType
  <2>2. QED
    BY <2>1 DEF Bootstrapping
<1>3. TypeOK
  <2>1. /\ curView \in [Replica -> View]
        /\ vcView \in [Replica -> 0 .. MaxTimeouts]
        /\ timeout \in [Replica -> [phase : {"idle", "changing", "ending"}, view : View]]
    BY <1>1 DEF Init
  <2>2. /\ genericQC \in [Replica -> QuorumCert]
        /\ lockedQC \in [Replica -> QuorumCert]
    BY GenesisType DEF Init
  <2>3. /\ window \in [Replica -> Seq(Block)]
        /\ votesBuf \in [Replica -> [View -> Seq(Vote)]]
        /\ newViewBuf \in [Replica -> [View -> Seq(NewViewMsg)]]
        /\ requestQ \in [Replica -> Seq(Request)]
        /\ executed \in [Replica -> Seq(Block)]
    BY DEF Init
  <2>4. configs \in [Replica -> Seq(Committee)] /\ \A r \in Replica : IsStore(configs[r])
    BY DHotStuffAssumption DEF Init
  <2>5. /\ delivered \in [Replica -> SUBSET Hash]
        /\ chain \in [Replica -> SUBSET Block]
        /\ proposed \in Seq(Block) /\ Len(proposed) <= MaxProposals
        /\ submitted \subseteq Request
    BY GenesisType, DHotStuffAssumption DEF Init
  <2>6. net \subseteq Message
    BY <1>2 DEF Init, Message
  <2>7. QED
    BY <2>1, <2>2, <2>3, <2>4, <2>5, <2>6 DEF TypeOK
<1>4. RoundsProposed
  BY <1>2 DEF Init, RoundsProposed, NewViewMsg
<1>5. ViewBound /\ ChangerBound
  BY DHotStuffAssumption DEF Init, ViewBound, ChangerBound
<1>6. QED
  BY <1>3, <1>4, <1>5 DEF TypeInv

\* A step that only takes messages away.
LEMMA ShrinkTypeInv ==
  ASSUME TypeInv, net' \subseteq net,
         UNCHANGED <<engineVars, bufferVars, viewVars, deliverVars, requestQ, chain,
                     proposed, submitted>>
  PROVE  TypeInv'
<1>1. TypeOK'
  BY DEF TypeInv, TypeOK, engineVars, bufferVars, viewVars, deliverVars
<1>2. RoundsProposed' /\ ViewBound' /\ ChangerBound'
  BY DEF TypeInv, RoundsProposed, ViewBound, ChangerBound, viewVars
<1>3. QED
  BY <1>1, <1>2 DEF TypeInv

-----------------------------------------------------------------------------
\* A step that touches neither the views nor the proposals, and sends nothing.
LEMMA BoundsKept ==
  ASSUME TypeInv, net' \subseteq net, UNCHANGED <<viewVars, proposed>>
  PROVE  RoundsProposed' /\ ViewBound' /\ ChangerBound'
BY DEF TypeInv, RoundsProposed, ViewBound, ChangerBound, viewVars

LEMMA SubmitRequestTypeInv ==
  ASSUME TypeInv, NEW r \in Replica, NEW req \in Request, SubmitRequest(r, req)
  PROVE  TypeInv'
<1>1. requestQ' \in [Replica -> Seq(Request)]
  <2>1. Append(requestQ[r], req) \in Seq(Request)
    BY DEF TypeInv, TypeOK
  <2>2. QED
    BY <2>1 DEF SubmitRequest, TypeInv, TypeOK
<1>2. submitted' \subseteq Request
  BY DEF SubmitRequest, TypeInv, TypeOK
<1>3. UNCHANGED <<engineVars, bufferVars, viewVars, deliverVars, chain, net, proposed>>
  BY DEF SubmitRequest
<1>4. TypeOK'
  BY <1>1, <1>2, <1>3
     DEF TypeInv, TypeOK, engineVars, bufferVars, viewVars, deliverVars
<1>5. QED
  BY <1>3, <1>4, BoundsKept DEF TypeInv

LEMMA StoreBlockTypeInv ==
  ASSUME TypeInv, NEW r \in Replica, NEW m \in net, StoreBlock(r, m)
  PROVE  TypeInv'
<1> DEFINE stored == [m EXCEPT !.stored = TRUE]
<1>1. m.type = "propose" /\ m \in ProposeMsg
        /\ proposed[m.round] \in Block /\ m.round \in DOMAIN proposed
  BY MessageKinds, ProposedType DEF StoreBlock, TypeInv
<1>2. chain' \in [Replica -> SUBSET Block]
  BY <1>1 DEF StoreBlock, Put, TypeInv, TypeOK
<1>3. net' = (net \ {m}) \cup {stored}
  BY DEF StoreBlock
<1>4. stored \in ProposeMsg /\ stored.type = "propose" /\ stored.round = m.round
  BY <1>1, Zenon DEF ProposeMsg
<1> HIDE DEF stored
<1>5. UNCHANGED <<engineVars, bufferVars, viewVars, deliverVars, requestQ, proposed,
                  submitted>>
  BY DEF StoreBlock
<1>6. net' \subseteq Message
  BY <1>3, <1>4 DEF TypeInv, TypeOK, Message
<1>7. TypeOK'
  BY <1>2, <1>5, <1>6
     DEF TypeInv, TypeOK, engineVars, bufferVars, viewVars, deliverVars
<1>8. RoundsProposed'
  BY <1>1, <1>3, <1>4, <1>5 DEF TypeInv, RoundsProposed
<1>9. ViewBound' /\ ChangerBound'
  BY <1>5 DEF TypeInv, ViewBound, ChangerBound, viewVars
<1>10. QED
  BY <1>7, <1>8, <1>9 DEF TypeInv

LEMMA CollectVoteTypeInv ==
  ASSUME TypeInv, NEW r \in Replica, NEW m \in net, CollectVote(r, m)
  PROVE  TypeInv'
<1>1. m.type = "vote" /\ m.vote.view \in View /\ VotesWith(r, m.vote) \in Seq(Vote)
  BY VotesWithType DEF CollectVote, TypeInv
<1>2. votesBuf' \in [Replica -> [View -> Seq(Vote)]]
  BY <1>1 DEF CollectVote, TypeInv, TypeOK
<1>3. /\ net' \subseteq net
      /\ UNCHANGED <<engineVars, newViewBuf, viewVars, deliverVars, requestQ, chain,
                     proposed, submitted>>
  BY DEF CollectVote
<1>4. TypeOK'
  BY <1>2, <1>3 DEF TypeInv, TypeOK, engineVars, viewVars, deliverVars
<1>5. QED
  BY <1>3, <1>4, BoundsKept DEF TypeInv

LEMMA FormQCTypeInv ==
  ASSUME TypeInv, NEW r \in Replica, NEW m \in net, FormQC(r, m)
  PROVE  TypeInv'
<1> DEFINE qc == Certificate(VotesWith(r, m.vote), Mc(r))
<1>1. /\ m.type = "vote" /\ m.vote.view \in View
      /\ genericQC' = [genericQC EXCEPT ![r] = AdoptQC(qc, @)]
  BY FormQCMeans DEF TypeInv
<1>2. qc \in QuorumCert
  BY FormQCMeans DEF TypeInv
<1>3. PICK arriving \in Refills(r) : Propose(r, qc, arriving, m)
  BY FormQCMeans DEF TypeInv
<1> HIDE DEF qc
<1>4. /\ proposed' \in Seq(Block) /\ Len(proposed') = Len(proposed) + 1
      /\ Len(proposed') <= MaxProposals
      /\ chain' \in [Replica -> SUBSET Block]
      /\ requestQ' \in [Replica -> Seq(Request)]
      /\ submitted' \subseteq Request
      /\ net' \subseteq Message
      /\ RoundsProposed'
  BY <1>2, <1>3, ProposeType
<1>5. genericQC' \in [Replica -> QuorumCert]
  <2>1. genericQC \in [Replica -> QuorumCert]
    BY DEF TypeInv, TypeOK
  <2>2. AdoptQC(qc, genericQC[r]) \in QuorumCert
    BY <1>2, <2>1, AdoptQCType
  <2>3. QED
    BY <1>1, <2>1, <2>2
<1>6. votesBuf' \in [Replica -> [View -> Seq(Vote)]]
  BY <1>1 DEF FormQC, TypeInv, TypeOK
<1>7. /\ curView' = [curView EXCEPT ![r] = @ + 1]
      /\ UNCHANGED <<lockedQC, window, newViewBuf, vcView, timeout, deliverVars>>
  BY DEF FormQC
<1>8. curView' \in [Replica -> View] /\ ViewBound'
  <2>1. Len(proposed) \in Nat /\ Len(proposed') = Len(proposed) + 1
    BY <1>4 DEF TypeInv, TypeOK
  <2>2. /\ curView \in [Replica -> View]
        /\ \A q \in Replica : curView[q] <= MaxTimeouts + Len(proposed)
    BY DEF TypeInv, TypeOK, ViewBound
  <2>3. MaxTimeouts \in Nat /\ MaxProposals \in Nat
    BY DHotStuffAssumption
  <2>4. curView[r] + 1 \in View
    BY <1>4, <2>1, <2>2, <2>3 DEF View
  <2>5. curView' \in [Replica -> View]
    BY <1>7, <2>2, <2>4
  <2>6. ASSUME NEW q \in Replica PROVE curView'[q] <= MaxTimeouts + Len(proposed')
    <3>1. curView[q] \in Nat /\ curView'[q] \in {curView[q], curView[q] + 1}
      BY <1>7, <2>2, <2>3 DEF View
    <3>2. QED
      BY <2>1, <2>2, <2>3, <3>1
  <2>7. QED
    BY <2>5, <2>6 DEF ViewBound
<1>9. TypeOK'
  BY <1>4, <1>5, <1>6, <1>7, <1>8 DEF TypeInv, TypeOK, deliverVars
<1>10. ChangerBound'
  BY <1>7 DEF TypeInv, ChangerBound
<1>11. QED
  BY <1>4, <1>8, <1>9, <1>10 DEF TypeInv

LEMMA CollectNewViewTypeInv ==
  ASSUME TypeInv, NEW r \in Replica, NEW m \in net, CollectNewView(r, m)
  PROVE  TypeInv'
<1>1. m.view \in View /\ NewViewsWith(r, m) \in Seq(NewViewMsg)
  BY NewViewsWithType DEF CollectNewView, TypeInv
<1>2. newViewBuf' \in [Replica -> [View -> Seq(NewViewMsg)]]
  BY <1>1 DEF CollectNewView, TypeInv, TypeOK
<1>3. /\ net' \subseteq net
      /\ UNCHANGED <<engineVars, votesBuf, viewVars, deliverVars, requestQ, chain,
                     proposed, submitted>>
  BY DEF CollectNewView
<1>4. TypeOK'
  BY <1>2, <1>3 DEF TypeInv, TypeOK, engineVars, viewVars, deliverVars
<1>5. QED
  BY <1>3, <1>4, BoundsKept DEF TypeInv

\* The certificate a quorum of new-view messages makes a replica adopt.
LEMMA AdoptedType ==
  ASSUME TypeOK, NEW r \in Replica, NEW m \in net, m.type = "newview"
  PROVE  AdoptQC(HighestViewQC(NewViewsWith(r, m)), genericQC[r]) \in QuorumCert
<1>1. NewViewsWith(r, m) \in Seq(NewViewMsg)
  BY NewViewsWithType
<1>2. \A i \in 1 .. Len(NewViewsWith(r, m)) : NewViewsWith(r, m)[i].qc \in QuorumCert
  <2>1. \A i \in 1 .. Len(NewViewsWith(r, m)) : NewViewsWith(r, m)[i] \in NewViewMsg
    BY <1>1, ElementOfSeq
  <2>2. \A x \in NewViewMsg : x.qc \in QuorumCert
    BY DEF NewViewMsg
  <2>3. QED
    BY <2>1, <2>2
<1>3. HighestViewQC(NewViewsWith(r, m)) \in QuorumCert
  BY <1>1, <1>2, HighestViewQCType, GenesisType
<1>4. genericQC[r] \in QuorumCert
  BY DEF TypeOK
<1>5. QED
  BY <1>3, <1>4, AdoptQCType

LEMMA ProposeOnNewViewsTypeInv ==
  ASSUME TypeInv, NEW r \in Replica, NEW m \in net, ProposeOnNewViews(r, m)
  PROVE  TypeInv'
<1> DEFINE qc == AdoptQC(HighestViewQC(NewViewsWith(r, m)), genericQC[r])
<1>1. m.type = "newview" /\ m.view \in View
  BY NewViewsWithType DEF ProposeOnNewViews, TypeInv
<1>2. qc \in QuorumCert
  BY <1>1, AdoptedType DEF TypeInv
<1>3. PICK arriving \in Refills(r) : Propose(r, qc, arriving, m)
  BY Zenon DEF ProposeOnNewViews
<1>4. genericQC' = [genericQC EXCEPT ![r] = qc]
  BY DEF ProposeOnNewViews
<1> HIDE DEF qc
<1>5. /\ proposed' \in Seq(Block) /\ Len(proposed') = Len(proposed) + 1
      /\ Len(proposed') <= MaxProposals
      /\ chain' \in [Replica -> SUBSET Block]
      /\ requestQ' \in [Replica -> Seq(Request)]
      /\ submitted' \subseteq Request
      /\ net' \subseteq Message
      /\ RoundsProposed'
  BY <1>2, <1>3, ProposeType
<1>6. genericQC' \in [Replica -> QuorumCert]
  BY <1>2, <1>4 DEF TypeInv, TypeOK
<1>7. newViewBuf' \in [Replica -> [View -> Seq(NewViewMsg)]]
  BY <1>1 DEF ProposeOnNewViews, TypeInv, TypeOK
<1>8. UNCHANGED <<lockedQC, window, votesBuf, viewVars, deliverVars>>
  BY DEF ProposeOnNewViews
<1>9. TypeOK'
  BY <1>5, <1>6, <1>7, <1>8 DEF TypeInv, TypeOK, viewVars, deliverVars
<1>10. ViewBound'
  <2>1. Len(proposed) \in Nat /\ MaxTimeouts \in Nat /\ curView' = curView
        /\ \A q \in Replica : curView[q] \in Nat
    BY <1>8, DHotStuffAssumption DEF TypeInv, TypeOK, View, viewVars
  <2>2. QED
    BY <1>5, <2>1 DEF TypeInv, ViewBound
<1>11. ChangerBound'
  BY <1>8 DEF TypeInv, ChangerBound, viewVars
<1>12. QED
  BY <1>5, <1>9, <1>10, <1>11 DEF TypeInv

-----------------------------------------------------------------------------
LEMMA TimeoutBeginTypeInv ==
  ASSUME TypeInv, NEW r \in Replica, TimeoutBegin(r)
  PROVE  TypeInv'
<1>1. timeout' = [timeout EXCEPT ![r] = [phase |-> "changing", view |-> curView[r]]]
        /\ vcView[r] < Timers[r]
  BY DEF TimeoutBegin
<1>2. timeout' \in [Replica -> [phase : {"idle", "changing", "ending"}, view : View]]
  BY <1>1 DEF TypeInv, TypeOK
<1>3. UNCHANGED <<engineVars, bufferVars, curView, vcView, deliverVars, requestQ, chain,
                  net, proposed, submitted>>
  BY DEF TimeoutBegin
<1>4. TypeOK'
  BY <1>2, <1>3 DEF TypeInv, TypeOK, engineVars, bufferVars, deliverVars
<1>5. RoundsProposed' /\ ViewBound'
  BY <1>3 DEF TypeInv, RoundsProposed, ViewBound
<1>6. ChangerBound'
  <2>1. vcView[r] < MaxTimeouts
    <3>1. vcView[r] \in Nat /\ MaxTimeouts \in Nat /\ Timers[r] \in 0 .. MaxTimeouts
      BY DHotStuffAssumption DEF TypeInv, TypeOK
    <3>2. QED
      BY <1>1, <3>1
  <2>2. QED
    BY <1>1, <1>3, <2>1 DEF TypeInv, TypeOK, ChangerBound
<1>7. QED
  BY <1>4, <1>5, <1>6 DEF TypeInv

LEMMA OnTimeoutTypeInv ==
  ASSUME TypeInv, NEW r \in Replica, OnTimeout(r)
  PROVE  TypeInv'
<1> DEFINE next == vcView[r] + 1
<1>1. next \in 0 .. MaxTimeouts /\ next \in View
  BY DHotStuffAssumption DEF OnTimeout, TypeInv, TypeOK, ChangerBound, View
<1>2. vcView' = [vcView EXCEPT ![r] = next]
        /\ timeout' = [timeout EXCEPT ![r].phase = "ending"]
  BY DEF OnTimeout, NextView
<1>3. net' = net \cup NewViewFrom(r, Mc(r), next, genericQC[r])
  BY DEF OnTimeout, NextView
<1>4. UNCHANGED <<engineVars, bufferVars, curView, deliverVars, requestQ, chain,
                  proposed, submitted>>
  BY DEF OnTimeout
<1> HIDE DEF next
<1>5. NewViewFrom(r, Mc(r), next, genericQC[r]) \subseteq NewViewMsg
  <2>1. Mc(r) \in Committee /\ HasLeader(Mc(r)) /\ genericQC[r] \in QuorumCert
    BY McType DEF OnTimeout, TypeInv, TypeOK
  <2>2. QED
    BY <1>1, <2>1, NewViewFromType
<1>6. net' \subseteq Message
  BY <1>3, <1>5 DEF TypeInv, TypeOK, Message
<1>7. /\ vcView' \in [Replica -> 0 .. MaxTimeouts]
      /\ timeout' \in [Replica -> [phase : {"idle", "changing", "ending"}, view : View]]
  BY <1>1, <1>2 DEF TypeInv, TypeOK
<1>8. TypeOK'
  BY <1>4, <1>6, <1>7 DEF TypeInv, TypeOK, engineVars, bufferVars, deliverVars
<1>9. RoundsProposed'
  <2>1. \A m \in NewViewMsg : m.type = "newview"
    BY DEF NewViewMsg
  <2>2. QED
    BY <1>3, <1>4, <1>5, <2>1 DEF TypeInv, RoundsProposed
<1>10. ViewBound'
  BY <1>4 DEF TypeInv, ViewBound
<1>11. ChangerBound'
  BY <1>2 DEF TypeInv, TypeOK, ChangerBound
<1>12. QED
  BY <1>8, <1>9, <1>10, <1>11 DEF TypeInv

LEMMA TimeoutEndTypeInv ==
  ASSUME TypeInv, NEW r \in Replica, TimeoutEnd(r)
  PROVE  TypeInv'
<1>1. vcView[r] \in View /\ vcView[r] <= MaxTimeouts /\ timeout[r].view \in View
        /\ 0 \in View
  <2>1. vcView[r] \in 0 .. MaxTimeouts /\ timeout[r].view \in View
    BY DEF TypeInv, TypeOK
  <2>2. vcView[r] \in View /\ vcView[r] <= MaxTimeouts /\ 0 \in View
    BY <2>1, DHotStuffAssumption DEF View
  <2>3. QED
    BY <2>1, <2>2
<1>2. votesBuf' \in [Replica -> [View -> Seq(Vote)]]
  BY <1>1 DEF TimeoutEnd, TypeInv, TypeOK
<1>3. window' \in [Replica -> Seq(Block)]
  BY DEF TimeoutEnd, TypeInv, TypeOK
<1>4. curView' = [curView EXCEPT ![r] = vcView[r]]
        /\ timeout' = [timeout EXCEPT ![r] = [phase |-> "idle", view |-> 0]]
  BY DEF TimeoutEnd
<1>5. UNCHANGED <<genericQC, lockedQC, newViewBuf, vcView, deliverVars, requestQ, chain,
                  net, proposed, submitted>>
  BY DEF TimeoutEnd
<1>6. /\ curView' \in [Replica -> View]
      /\ timeout' \in [Replica -> [phase : {"idle", "changing", "ending"}, view : View]]
  BY <1>1, <1>4 DEF TypeInv, TypeOK
<1>7. TypeOK'
  BY <1>2, <1>3, <1>5, <1>6 DEF TypeInv, TypeOK, deliverVars
<1>8. RoundsProposed'
  BY <1>5 DEF TypeInv, RoundsProposed
<1>9. ViewBound'
  <2>1. Len(proposed) \in Nat /\ MaxTimeouts \in Nat /\ curView \in [Replica -> View]
    BY DHotStuffAssumption DEF TypeInv, TypeOK
  <2>2. QED
    BY <1>1, <1>4, <1>5, <2>1 DEF TypeInv, ViewBound, View
<1>10. ChangerBound'
  BY <1>4, <1>5 DEF TypeInv, TypeOK, ChangerBound
<1>11. QED
  BY <1>7, <1>8, <1>9, <1>10 DEF TypeInv

-----------------------------------------------------------------------------
(***************************************************************************)
(* HandlePropose, part by part: the vote, the certificates, the window and *)
(* the one or two calls of Deliver.                                        *)
(***************************************************************************)
LEMMA VoteForType ==
  ASSUME TypeOK, NEW r \in Replica, NEW b \in Block
  PROVE  VoteFor(r, b) \in {v \in Vote : v.view \in View}
<1>1. curView[r] \in View /\ curView[r] \in Nat
  BY DHotStuffAssumption DEF TypeOK, View
<1>2. Mc(r).number \in Nat /\ b.conf \in Nat /\ HashBlock(b) \in Hash
  BY McType, HashType DEF Block
<1>3. Sign(r, b.conf, Mc(r).number, HashBlock(b)) \in Signature
  BY <1>2 DEF Sign, Signature
<1>4. QED
  BY <1>1, <1>2, <1>3 DEF VoteFor, Vote

LEMMA SendVoteType ==
  ASSUME TypeInv, NEW r \in Replica, NEW m \in net, m.type = "propose",
         SafeNode(lockedQC[r], proposed[m.round], chain[r]) => HasLeader(Mc(r))
  PROVE  /\ SendVote(r, m) \subseteq VoteMsg
         /\ \A x \in SendVote(r, m) : x.type = "vote" /\ x.answers = m.round
<1> DEFINE bStar  == proposed[m.round]
           leader == Leader(Mc(r), curView[r])
           out    == [type |-> "vote", dst |-> leader.id, vote |-> VoteFor(r, bStar),
                      answers |-> m.round]
<1>1. bStar \in Block /\ m.round \in 1 .. MaxProposals
  <2>1. bStar \in Block
    BY ProposedType DEF TypeInv
  <2>2. m \in ProposeMsg
    BY MessageKinds DEF TypeInv
  <2>3. QED
    BY <2>1, <2>2 DEF ProposeMsg
<1>2. SendVote(r, m) \subseteq
        (IF SafeNode(lockedQC[r], bStar, chain[r]) THEN {out} ELSE {})
  BY Zenon DEF SendVote, UnicastTo
<1>3. out.type = "vote" /\ out.answers = m.round
  OBVIOUS
<1>4. SafeNode(lockedQC[r], bStar, chain[r]) => out \in VoteMsg
  <2>1. SUFFICES ASSUME HasLeader(Mc(r)) PROVE out \in VoteMsg
    OBVIOUS
  <2>2. Mc(r) \in Committee /\ curView[r] \in Nat
    <3>1. Mc(r) \in Committee
      BY McType DEF TypeInv
    <3>2. curView[r] \in View
      BY DEF TypeInv, TypeOK
    <3>3. QED
      BY <3>1, <3>2, DHotStuffAssumption DEF View
  <2>3. leader.id \in Replica
    BY <2>1, <2>2, LeaderType DEF Member
  <2>4. VoteFor(r, bStar) \in {v \in Vote : v.view \in View}
    BY <1>1, VoteForType DEF TypeInv
  <2>5. QED
    BY <1>1, <2>3, <2>4 DEF VoteMsg
<1> HIDE DEF out
<1>5. QED
  BY <1>2, <1>3, <1>4

\* The chain walk returns blocks of the store.
LEMMA ParentsStored ==
  ASSUME NEW store, NEW blocks
  PROVE  Parents(store, blocks) \subseteq store
BY DEF Parents, Get

LEMMA CommittableStored ==
  ASSUME NEW store, NEW bStar
  PROVE  Committable(store, bStar) \subseteq store
BY ParentsStored DEF Committable

LEMMA AdvancedType ==
  ASSUME NEW w \in Seq(Block)
  PROVE  Advanced(w) \subseteq Block
BY DEF Advanced

LEMMA AdvanceType ==
  ASSUME NEW w \in Seq(Block), NEW b \in Block
  PROVE  Advance(w, b) \in Seq(Block)
<1>1. CASE Len(w) = 4
  <2>1. w # << >>
    BY <1>1
  <2>2. Tail(w) \in Seq(Block)
    BY <2>1
  <2>3. QED
    BY <1>1, <2>2 DEF Advance
<1>2. CASE Len(w) # 4
  BY <1>2 DEF Advance
<1>3. QED
  BY <1>1, <1>2

LEMMA DelivererOfType ==
  ASSUME TypeOK, NEW r \in Replica
  PROVE  DelivererOf(r) \in DelivererState /\ IsStore(DelivererOf(r).configs)
BY DEF TypeOK, DelivererOf, DelivererState

LEMMA DeliverAnyType ==
  ASSUME NEW d \in DelivererState, IsStore(d.configs), NEW blocks \in SUBSET Block
  PROVE  /\ DeliverAny(d, blocks) \in DelivererState
         /\ IsStore(DeliverAny(d, blocks).configs)
         /\ Continues(DeliverAny(d, blocks).configs, d.configs)
<1>1. CASE blocks = {}
  <2>1. Len(d.configs) \in Nat
    BY DEF IsStore
  <2>2. QED
    BY <1>1, <2>1 DEF DeliverAny, Continues
<1>2. CASE blocks # {}
  <2>1. The(blocks) \in Block
    BY <1>2 DEF The
  <2>2. QED
    BY <1>2, <2>1, DeliverType DEF DeliverAny
<1>3. QED
  BY <1>1, <1>2

\* What the two commit paths leave behind, in any step of HandlePropose.
AfterPropose(r, m) ==
  DeliverAny(DeliverAny(DelivererOf(r), Committable(chain[r], proposed[m.round])),
             Advanced(window[r]))

LEMMA ContinuesTransitive ==
  ASSUME NEW s1, IsStore(s1), NEW s2, IsStore(s2), NEW s3, IsStore(s3),
         Continues(s3, s2), Continues(s2, s1)
  PROVE  Continues(s3, s1)
<1>1. Len(s1) \in Nat /\ Len(s2) \in Nat /\ Len(s3) \in Nat
  BY DEF IsStore
<1>2. QED
  BY <1>1 DEF Continues

LEMMA AfterProposeType ==
  ASSUME TypeOK, NEW r \in Replica, NEW m
  PROVE  /\ AfterPropose(r, m) \in DelivererState
         /\ IsStore(AfterPropose(r, m).configs)
         /\ Continues(AfterPropose(r, m).configs, configs[r])
<1> DEFINE first == DeliverAny(DelivererOf(r), Committable(chain[r], proposed[m.round]))
<1>1. Committable(chain[r], proposed[m.round]) \in SUBSET Block
  BY CommittableStored DEF TypeOK
<1>2. Advanced(window[r]) \in SUBSET Block
  BY AdvancedType DEF TypeOK
<1>3. DelivererOf(r).configs = configs[r] /\ IsStore(configs[r])
  BY DEF DelivererOf, TypeOK
<1>4. first \in DelivererState /\ IsStore(first.configs)
        /\ Continues(first.configs, configs[r])
  BY <1>1, <1>3, DelivererOfType, DeliverAnyType
<1> HIDE DEF first
<1>5. AfterPropose(r, m) = DeliverAny(first, Advanced(window[r]))
  BY DEF AfterPropose, first
<1>6. /\ AfterPropose(r, m) \in DelivererState
      /\ IsStore(AfterPropose(r, m).configs)
      /\ Continues(AfterPropose(r, m).configs, first.configs)
  BY <1>2, <1>4, <1>5, DeliverAnyType
<1>7. QED
  BY <1>3, <1>4, <1>6, ContinuesTransitive

LEMMA HandleProposeTypeInv ==
  ASSUME TypeInv, NEW r \in Replica, NEW m \in net, HandlePropose(r, m)
  PROVE  TypeInv'
<1> DEFINE bStar   == proposed[m.round]
           bDouble == Parents(chain[r], {bStar})
           bPrime  == Parents(chain[r], bDouble)
<1>1. m.type = "propose" /\ bStar \in Block /\ m.round \in DOMAIN proposed
  BY ProposedType DEF HandlePropose, TypeInv
<1>2. bStar.justify \in QuorumCert
  BY <1>1 DEF Block
<1>3. genericQC' \in [Replica -> QuorumCert]
  <2>1. UpdateOnOneChain(genericQC[r], bStar, bDouble) \in QuorumCert
    BY <1>2, Zenon DEF UpdateOnOneChain, TypeInv, TypeOK
  <2>2. genericQC' = [genericQC EXCEPT ![r] = UpdateOnOneChain(@, bStar, bDouble)]
    BY DEF HandlePropose
  <2>3. QED
    BY <2>1, <2>2 DEF TypeInv, TypeOK
<1>4. lockedQC' \in [Replica -> QuorumCert]
  <2>1. \A x \in bDouble : x.justify \in QuorumCert
    BY ParentsStored DEF TypeInv, TypeOK, Block
  <2>2. bDouble # {} => The(bDouble) \in bDouble
    BY DEF The
  <2>3. UpdateOnTwoChain(lockedQC[r], bStar, bDouble, bPrime) \in QuorumCert
    <3>1. lockedQC[r] \in QuorumCert
      BY DEF TypeInv, TypeOK
    <3> HIDE DEF bDouble, bPrime, bStar
    <3>2. QED
      BY <2>1, <2>2, <3>1 DEF UpdateOnTwoChain
  <2>4. lockedQC' = [lockedQC EXCEPT ![r] = UpdateOnTwoChain(@, bStar, bDouble, bPrime)]
    BY DEF HandlePropose
  <2>5. QED
    BY <2>3, <2>4 DEF TypeInv, TypeOK
<1>5. window' \in [Replica -> Seq(Block)]
  <2>1. window' = [window EXCEPT ![r] = Advance(@, bStar)]
    BY DEF HandlePropose
  <2>2. window \in [Replica -> Seq(Block)]
    BY DEF TypeInv, TypeOK
  <2>3. Advance(window[r], bStar) \in Seq(Block)
    BY <1>1, <2>2, AdvanceType
  <2>4. QED
    BY <2>1, <2>2, <2>3
<1>6. /\ configs' \in [Replica -> Seq(Committee)]
      /\ \A q \in Replica : IsStore(configs'[q])
      /\ delivered' \in [Replica -> SUBSET Hash]
      /\ executed' \in [Replica -> Seq(Block)]
  <2> DEFINE d == AfterPropose(r, m)
  <2>1. /\ configs' = [configs EXCEPT ![r] = d.configs]
        /\ delivered' = [delivered EXCEPT ![r] = d.delivered]
        /\ executed' = [executed EXCEPT ![r] = d.executed]
    BY DEF HandlePropose, AfterPropose
  <2>2. d \in DelivererState /\ IsStore(d.configs)
    BY AfterProposeType DEF TypeInv
  <2> HIDE DEF d
  <2>3. QED
    BY <2>1, <2>2 DEF DelivererState, TypeInv, TypeOK
<1>7. /\ SendVote(r, m) \subseteq VoteMsg
      /\ \A x \in SendVote(r, m) : x.type = "vote" /\ x.answers = m.round
  BY <1>1, SendVoteType DEF HandlePropose
<1>8. net' = (net \ {m}) \cup SendVote(r, m)
        /\ UNCHANGED <<bufferVars, viewVars, requestQ, chain, proposed, submitted>>
  BY DEF HandlePropose
<1>9. net' \subseteq Message
  BY <1>7, <1>8 DEF TypeInv, TypeOK, Message
<1>10. TypeOK'
  BY <1>3, <1>4, <1>5, <1>6, <1>8, <1>9 DEF TypeInv, TypeOK, bufferVars, viewVars
<1>11. RoundsProposed'
  BY <1>1, <1>7, <1>8 DEF TypeInv, RoundsProposed
<1>12. ViewBound' /\ ChangerBound'
  BY <1>8 DEF TypeInv, ViewBound, ChangerBound, viewVars
<1>13. QED
  BY <1>10, <1>11, <1>12 DEF TypeInv

-----------------------------------------------------------------------------
LEMMA NextTypeInv == TypeInv /\ [Next]_vars => TypeInv'
<1> SUFFICES ASSUME TypeInv, [Next]_vars PROVE TypeInv'
  OBVIOUS
<1>1. CASE UNCHANGED vars
  BY <1>1, ShrinkTypeInv DEF vars
<1>2. ASSUME NEW r \in Replica, NEW m \in net, Receive(r, m) PROVE TypeInv'
  <2>1. CASE StoreBlock(r, m)
    BY <2>1, StoreBlockTypeInv
  <2>2. CASE IgnorePropose(r, m)
    BY <2>2, ShrinkTypeInv DEF IgnorePropose
  <2>3. CASE HandlePropose(r, m)
    BY <2>3, HandleProposeTypeInv
  <2>4. CASE DropVote(r, m)
    BY <2>4, ShrinkTypeInv DEF DropVote
  <2>5. CASE CollectVote(r, m)
    BY <2>5, CollectVoteTypeInv
  <2>6. CASE FormQC(r, m)
    BY <2>6, FormQCTypeInv
  <2>7. CASE CollectNewView(r, m)
    BY <2>7, CollectNewViewTypeInv
  <2>8. CASE ProposeOnNewViews(r, m)
    BY <2>8, ProposeOnNewViewsTypeInv
  <2>9. QED
    BY <1>2, <2>1, <2>2, <2>3, <2>4, <2>5, <2>6, <2>7, <2>8 DEF Receive
<1>3. ASSUME NEW r \in Replica, NEW req \in Request, SubmitRequest(r, req) PROVE TypeInv'
  BY <1>3, SubmitRequestTypeInv
<1>4. ASSUME NEW r \in Replica, TimeoutBegin(r) PROVE TypeInv'
  BY <1>4, TimeoutBeginTypeInv
<1>5. ASSUME NEW r \in Replica, OnTimeout(r) PROVE TypeInv'
  BY <1>5, OnTimeoutTypeInv
<1>6. ASSUME NEW r \in Replica, TimeoutEnd(r) PROVE TypeInv'
  BY <1>6, TimeoutEndTypeInv
<1>7. QED
  BY <1>1, <1>2, <1>3, <1>4, <1>5, <1>6 DEF Next

LEMMA SpecTypeInv == Spec => []TypeInv
BY InitTypeInv, NextTypeInv, PTL DEF Spec

(***************************************************************************)
(* Every engine keeps its types: in particular a configuration store never *)
(* has a gap, whatever the order of the two commit paths (deliver.go:48-   *)
(* 85, config_store.go:79-100), and the engine's view stays within the     *)
(* views counted so far (dhotstuff.go:233, 286).                           *)
(***************************************************************************)
THEOREM EngineTypeOK == Spec => []TypeOK
<1>1. TypeInv => TypeOK
  BY DEF TypeInv
<1>2. QED
  BY <1>1, SpecTypeInv, PTL

-----------------------------------------------------------------------------
(***************************************************************************)
(* What is locked and what is executed lies on a chain.  A stored block    *)
(* was proposed, unless it is the genesis block; a proposed block names as *)
(* its parent the block its certificate is for.                            *)
(***************************************************************************)
StoresProposed ==
  \A r \in Replica :
    /\ chain[r] \subseteq ToSet(proposed) \cup {GenesisBlock}
    /\ ToSet(window[r]) \subseteq ToSet(proposed)

ParentsCertified == \A b \in ToSet(proposed) : b.parent = b.justify.hash

ChainInv == StoresProposed /\ ParentsCertified /\ CommitOnChain /\ LocksOnChain

\* b ends a chain of three proposed descendants.
Settled(b, blocks) ==
  \E x, y, z \in blocks :
    x.justify.hash = HashBlock(b) /\ y.justify.hash = HashBlock(x)
      /\ z.justify.hash = HashBlock(y)

\* Two proposed blocks build on the certificate.
BuiltOn(qc, blocks) ==
  \E x, y \in blocks : x.justify = qc /\ y.justify.hash = HashBlock(x)

LEMMA CommitLocksMeaning ==
  /\ CommitOnChain <=>
       \A r \in Replica : \A b \in ToSet(executed[r]) : Settled(b, ToSet(proposed))
  /\ LocksOnChain <=>
       \A r \in Replica : lockedQC[r] # NoQC => BuiltOn(lockedQC[r], ToSet(proposed))
<1>1. \A s : ToSet(s) = {s[i] : i \in DOMAIN s}
  BY DEF ToSet
<1>2. QED
  BY <1>1 DEF CommitOnChain, LocksOnChain, Settled, BuiltOn

\* Appending keeps what was there.
LEMMA ToSetAppend ==
  ASSUME NEW S, NEW s \in Seq(S), NEW e \in S
  PROVE  ToSet(Append(s, e)) = ToSet(s) \cup {e}
<1>1. DOMAIN Append(s, e) = 1 .. Len(s) + 1 /\ DOMAIN s = 1 .. Len(s)
  OBVIOUS
<1>2. \A i \in 1 .. Len(s) : Append(s, e)[i] = s[i]
  OBVIOUS
<1>3. Append(s, e)[Len(s) + 1] = e
  OBVIOUS
<1>4. Len(s) \in Nat
  OBVIOUS
<1> DEFINE t == Append(s, e)
<1> HIDE DEF t
<1>5. QED
  BY <1>1, <1>2, <1>3, <1>4 DEF ToSet, t

\* The hash of a block is no hash of the block before the genesis block.
LEMMA GenesisHasNoParent ==
  ASSUME NEW b \in Block
  PROVE  GenesisBlock.parent # HashBlock(b)
<1>1. b.parent \in Seq(Int) /\ b.height \in Nat
  BY DEF Block, Hash
<1>2. HashBlock(b)[Len(b.parent) + 1] = b.height /\ Len(HashBlock(b)) = Len(b.parent) + 1
  BY <1>1 DEF HashBlock
<1>3. GenesisBlock.parent = <<-1>>
  BY DEF GenesisBlock
<1>4. SUFFICES ASSUME <<-1>> = HashBlock(b) PROVE FALSE
  BY <1>3
<1>5. Len(b.parent) + 1 = 1
  BY <1>2, <1>4
<1>6. HashBlock(b)[1] = b.height
  BY <1>2, <1>5
<1>7. QED
  BY <1>1, <1>4, <1>6

\* Blocks with one hash have one parent.
LEMMA SameFront ==
  ASSUME NEW S, NEW s \in Seq(S), NEW t \in Seq(S), NEW e \in S, NEW f \in S,
         Append(s, e) = Append(t, f)
  PROVE  s = t
BY AppendInjective

LEMMA HashParent ==
  ASSUME NEW a \in Block, NEW b \in Block, HashBlock(a) = HashBlock(b)
  PROVE  a.parent = b.parent
<1> DEFINE S == Int
<1>1. /\ a.parent \in Seq(S) /\ b.parent \in Seq(S)
      /\ a.height \in S /\ b.height \in S
  BY DEF Block, Hash
<1>2. Append(a.parent, a.height) = Append(b.parent, b.height)
  BY DEF HashBlock
<1> HIDE DEF S
<1>3. QED
  BY <1>1, <1>2, SameFront

-----------------------------------------------------------------------------
\* The chain walk of one proposal.
LEMMA ParentsHash ==
  ASSUME NEW store, NEW b, NEW x \in Parents(store, {b})
  PROVE  x \in store /\ b.justify.hash = HashBlock(x)
BY DEF Parents, Get

\* A stored block with a stored parent was proposed.
LEMMA ChildProposed ==
  ASSUME TypeOK, StoresProposed, NEW r \in Replica, NEW x \in chain[r], NEW y \in Block,
         x.parent = HashBlock(y)
  PROVE  x \in ToSet(proposed)
<1>1. x # GenesisBlock
  BY GenesisHasNoParent
<1>2. QED
  BY <1>1 DEF StoresProposed

LEMMA CommittableSettled ==
  ASSUME TypeOK, StoresProposed, ParentsCertified, NEW r \in Replica,
         NEW bStar \in ToSet(proposed), NEW b \in Committable(chain[r], bStar)
  PROVE  Settled(b, ToSet(proposed))
<1> DEFINE bDouble == Parents(chain[r], {bStar})
           bPrime  == Parents(chain[r], bDouble)
<1>1. PICK x \in bDouble, y \in bPrime : CheckThreeChain(bStar, x, y, b)
  BY DEF Committable
<1>2. x \in chain[r] /\ y \in chain[r] /\ b \in chain[r]
  BY <1>1, ParentsStored, CommittableStored
<1>3. x \in Block /\ y \in Block /\ b \in Block
  BY <1>2 DEF TypeOK
<1>4. /\ bStar.parent = HashBlock(x) /\ x.parent = HashBlock(y)
      /\ y.parent = HashBlock(b)
  BY <1>1 DEF CheckThreeChain
<1>5. x \in ToSet(proposed) /\ y \in ToSet(proposed)
  BY <1>2, <1>3, <1>4, ChildProposed
<1>6. QED
  BY <1>4, <1>5 DEF ParentsCertified, Settled

LEMMA AdvancedSettled ==
  ASSUME TypeOK, StoresProposed, ParentsCertified, NEW r \in Replica,
         NEW b \in Advanced(window[r])
  PROVE  Settled(b, ToSet(proposed))
<1> DEFINE w == window[r]
<1>1. /\ b = w[1] /\ Len(w) = 4
      /\ w[4].parent = HashBlock(w[3]) /\ w[3].parent = HashBlock(w[2])
      /\ w[2].parent = HashBlock(w[1])
  BY DEF Advanced, CheckThreeChain
<1>2. w \in Seq(Block)
  BY DEF TypeOK
<1>3. \A i \in 1 .. 4 : w[i] \in ToSet(w)
  BY <1>1, <1>2 DEF ToSet
<1>4. w[2] \in ToSet(proposed) /\ w[3] \in ToSet(proposed) /\ w[4] \in ToSet(proposed)
  BY <1>3 DEF StoresProposed
<1>5. QED
  BY <1>1, <1>4 DEF ParentsCertified, Settled

\* Deliver executes the block it is called with or nothing.
LEMMA DeliverAnyExecutes ==
  ASSUME NEW d \in DelivererState, NEW blocks \in SUBSET Block
  PROVE  ToSet(DeliverAny(d, blocks).executed) \subseteq ToSet(d.executed) \cup blocks
<1>1. CASE blocks = {}
  BY <1>1 DEF DeliverAny
<1>2. CASE blocks # {}
  <2> DEFINE b == The(blocks)
             new == Deliver(d, b)
  <2>1. b \in blocks /\ b \in Block
    BY <1>2 DEF The
  <2>2. DeliverAny(d, blocks) = new
    BY <1>2 DEF DeliverAny
  <2>3. d.executed \in Seq(Block)
    BY DEF DelivererState
  <2>4. CASE Runs(d, b)
    <3>1. new.executed = Append(d.executed, b)
      BY <2>4 DEF Deliver
    <3>2. ToSet(new.executed) = ToSet(d.executed) \cup {b}
      BY <2>1, <2>3, <3>1, ToSetAppend
    <3>3. QED
      BY <2>1, <2>2, <3>2
  <2>5. CASE ~Runs(d, b)
    BY <2>2, <2>5 DEF Deliver
  <2>6. QED
    BY <2>4, <2>5
<1>3. QED
  BY <1>1, <1>2

LEMMA AfterProposeExecutes ==
  ASSUME TypeOK, NEW r \in Replica, NEW m
  PROVE  ToSet(AfterPropose(r, m).executed) \subseteq
           ToSet(executed[r]) \cup Committable(chain[r], proposed[m.round])
             \cup Advanced(window[r])
<1> DEFINE first == DeliverAny(DelivererOf(r), Committable(chain[r], proposed[m.round]))
<1>1. Committable(chain[r], proposed[m.round]) \in SUBSET Block
  BY CommittableStored DEF TypeOK
<1>2. Advanced(window[r]) \in SUBSET Block
  BY AdvancedType DEF TypeOK
<1>3. DelivererOf(r).executed = executed[r]
  BY DEF DelivererOf
<1>4. first \in DelivererState
  BY <1>1, DelivererOfType, DeliverAnyType
<1>5. ToSet(first.executed) \subseteq
        ToSet(executed[r]) \cup Committable(chain[r], proposed[m.round])
  BY <1>1, <1>3, DelivererOfType, DeliverAnyExecutes
<1> HIDE DEF first
<1>6. AfterPropose(r, m) = DeliverAny(first, Advanced(window[r]))
  BY DEF AfterPropose, first
<1>7. ToSet(AfterPropose(r, m).executed) \subseteq
        ToSet(first.executed) \cup Advanced(window[r])
  BY <1>2, <1>4, <1>6, DeliverAnyExecutes
<1>8. QED
  BY <1>5, <1>7

-----------------------------------------------------------------------------
\* A step that executes nothing and locks nothing.
LEMMA ChainInvGrows ==
  ASSUME ChainInv, ToSet(proposed) \subseteq ToSet(proposed)',
         StoresProposed', ParentsCertified', UNCHANGED <<executed, lockedQC>>
  PROVE  ChainInv'
<1>1. CommitOnChain'
  BY DEF ChainInv, CommitOnChain
<1>2. LocksOnChain'
  BY DEF ChainInv, LocksOnChain
<1>3. QED
  BY <1>1, <1>2 DEF ChainInv

LEMMA ChainInvIdle ==
  ASSUME ChainInv, UNCHANGED <<executed, lockedQC, window, chain, proposed>>
  PROVE  ChainInv'
BY DEF ChainInv, StoresProposed, ParentsCertified, CommitOnChain, LocksOnChain

LEMMA ProposeChainInv ==
  ASSUME TypeInv, ChainInv, NEW r \in Replica, NEW justify \in QuorumCert, NEW m \in net,
         NEW arriving \in Refills(r), Propose(r, justify, arriving, m),
         UNCHANGED <<executed, lockedQC, window>>
  PROVE  ChainInv'
<1> DEFINE b == NewBlock(r, justify, arriving)
<1>1. b \in Block /\ proposed \in Seq(Block)
  BY NewBlockType DEF TypeInv, TypeOK
<1>2. b.parent = b.justify.hash
  BY DEF NewBlock
<1>3. /\ proposed' = Append(proposed, b)
      /\ chain' = [chain EXCEPT ![r] = Put(@, b)]
  BY DEF Propose
<1> HIDE DEF b
<1>4. ToSet(proposed)' = ToSet(proposed) \cup {b}
  <2>1. ToSet(proposed)' = ToSet(proposed')
    BY DEF ToSet
  <2>2. QED
    BY <1>1, <1>3, <2>1, ToSetAppend
<1>5. ParentsCertified'
  BY <1>2, <1>4 DEF ChainInv, ParentsCertified
<1>6. StoresProposed'
  <2>1. ASSUME NEW q \in Replica PROVE chain'[q] \subseteq chain[q] \cup {b}
    BY <1>3 DEF Put, TypeInv, TypeOK
  <2>2. QED
    BY <1>4, <2>1 DEF ChainInv, StoresProposed, ToSet
<1>7. QED
  BY <1>4, <1>5, <1>6, ChainInvGrows

LEMMA StoreBlockChainInv ==
  ASSUME TypeInv, ChainInv, NEW r \in Replica, NEW m \in net, StoreBlock(r, m)
  PROVE  ChainInv'
<1> DEFINE b == proposed[m.round]
<1>1. b \in ToSet(proposed)
  BY ProposedType DEF StoreBlock, TypeInv, ToSet
<1>2. chain' = [chain EXCEPT ![r] = Put(@, b)]
        /\ UNCHANGED <<executed, lockedQC, window, proposed>>
  BY DEF StoreBlock, engineVars, deliverVars
<1> HIDE DEF b
<1>3. StoresProposed'
  <2>1. ASSUME NEW q \in Replica PROVE chain'[q] \subseteq chain[q] \cup {b}
    BY <1>2 DEF Put, TypeInv, TypeOK
  <2>2. QED
    BY <1>1, <1>2, <2>1 DEF ChainInv, StoresProposed
<1>4. ParentsCertified'
  BY <1>2 DEF ChainInv, ParentsCertified
<1>5. QED
  BY <1>2, <1>3, <1>4, ChainInvGrows

LEMMA TimeoutEndChainInv ==
  ASSUME TypeInv, ChainInv, NEW r \in Replica, TimeoutEnd(r)
  PROVE  ChainInv'
<1>1. window' = [window EXCEPT ![r] = << >>]
        /\ UNCHANGED <<executed, lockedQC, chain, proposed>>
  BY DEF TimeoutEnd, deliverVars
<1>2. ToSet(<< >>) = {}
  BY DEF ToSet
<1>3. ASSUME NEW q \in Replica PROVE window'[q] \in {window[q], << >>}
  BY <1>1 DEF TypeInv, TypeOK
<1>4. StoresProposed'
  BY <1>1, <1>2, <1>3 DEF ChainInv, StoresProposed
<1>5. ParentsCertified'
  BY <1>1 DEF ChainInv, ParentsCertified
<1>6. QED
  BY <1>1, <1>4, <1>5, ChainInvGrows

\* The window holds what it held, or less, and the new block.
LEMMA AdvanceElements ==
  ASSUME NEW w \in Seq(Block), NEW b \in Block
  PROVE  ToSet(Advance(w, b)) \subseteq ToSet(w) \cup {b}
<1>1. CASE Len(w) = 4
  <2> DEFINE t == Tail(w)
  <2>1. w # << >>
    BY <1>1
  <2>2. t \in Seq(Block) /\ ToSet(t) \subseteq ToSet(w)
    BY <2>1 DEF ToSet
  <2>3. Advance(w, b) = Append(t, b)
    BY <1>1 DEF Advance
  <2> HIDE DEF t
  <2>4. ToSet(Append(t, b)) = ToSet(t) \cup {b}
    BY <2>2, ToSetAppend
  <2>5. QED
    BY <2>2, <2>3, <2>4
<1>2. CASE Len(w) # 4
  <2>1. Advance(w, b) = Append(w, b)
    BY <1>2 DEF Advance
  <2>2. ToSet(Append(w, b)) = ToSet(w) \cup {b}
    BY ToSetAppend
  <2>3. QED
    BY <2>1, <2>2
<1>3. QED
  BY <1>1, <1>2

LEMMA HandleProposeChainInv ==
  ASSUME TypeInv, ChainInv, NEW r \in Replica, NEW m \in net, HandlePropose(r, m)
  PROVE  ChainInv'
<1> DEFINE bStar   == proposed[m.round]
           bDouble == Parents(chain[r], {bStar})
           bPrime  == Parents(chain[r], bDouble)
           blocks  == ToSet(proposed)
<1>1. bStar \in Block /\ bStar \in blocks
  BY ProposedType DEF HandlePropose, TypeInv, ToSet
<1>2. UNCHANGED <<chain, proposed>>
  BY DEF HandlePropose
<1>3. StoresProposed'
  <2>1. window' = [window EXCEPT ![r] = Advance(@, bStar)]
    BY DEF HandlePropose
  <2>2. window \in [Replica -> Seq(Block)]
    BY DEF TypeInv, TypeOK
  <2>3. ToSet(Advance(window[r], bStar)) \subseteq ToSet(window[r]) \cup {bStar}
    BY <1>1, <2>2, AdvanceElements
  <2> HIDE DEF bStar, blocks
  <2>4. ASSUME NEW q \in Replica
        PROVE  ToSet(window'[q]) \subseteq ToSet(window[q]) \cup {bStar}
    <3>1. CASE q = r
      BY <2>1, <2>2, <2>3, <3>1
    <3>2. CASE q # r
      BY <2>1, <2>2, <3>2
    <3>3. QED
      BY <3>1, <3>2
  <2>5. QED
    BY <1>1, <1>2, <2>4 DEF ChainInv, StoresProposed, blocks
<1>4. ParentsCertified'
  BY <1>2 DEF ChainInv, ParentsCertified
<1>5. CommitOnChain'
  <2> DEFINE d == AfterPropose(r, m)
  <2>1. executed' = [executed EXCEPT ![r] = d.executed]
    BY DEF HandlePropose, AfterPropose
  <2>2. ToSet(d.executed) \subseteq
          ToSet(executed[r]) \cup Committable(chain[r], bStar) \cup Advanced(window[r])
    BY AfterProposeExecutes DEF TypeInv
  <2>3. \A b \in ToSet(executed[r]) : Settled(b, blocks)
    BY CommitLocksMeaning DEF ChainInv
  <2>4. \A b \in Committable(chain[r], bStar) \cup Advanced(window[r]) : Settled(b, blocks)
    BY <1>1, CommittableSettled, AdvancedSettled DEF ChainInv, TypeInv
  <2> HIDE DEF d, bStar
  <2>5. \A b \in ToSet(d.executed) : Settled(b, blocks)
    BY <2>2, <2>3, <2>4
  <2>6. executed \in [Replica -> Seq(Block)]
    BY DEF TypeInv, TypeOK
  <2>7. ASSUME NEW q \in Replica
        PROVE  \A b \in ToSet(executed'[q]) : Settled(b, blocks)
    <3>1. CASE q = r
      BY <2>1, <2>5, <2>6, <3>1
    <3>2. CASE q # r
      <4>1. executed'[q] = executed[q]
        BY <2>1, <2>6, <3>2
      <4>2. QED
        BY <4>1, CommitLocksMeaning DEF ChainInv
    <3>3. QED
      BY <3>1, <3>2
  <2>8. QED
    BY <1>2, <2>7 DEF CommitOnChain, Settled, ToSet
<1>6. LocksOnChain'
  <2> DEFINE new == UpdateOnTwoChain(lockedQC[r], bStar, bDouble, bPrime)
  <2>1. lockedQC' = [lockedQC EXCEPT ![r] = new]
    BY DEF HandlePropose
  <2>2. new = lockedQC[r] \/ BuiltOn(new, blocks)
    <3>1. SUFFICES ASSUME NEW x \in bDouble, NEW y \in bPrime,
                          bStar.parent = HashBlock(x), x.parent = HashBlock(y),
                          new = The(bDouble).justify
                   PROVE  BuiltOn(new, blocks)
      BY DEF UpdateOnTwoChain
    <3> DEFINE z == The(bDouble)
    <3>2. z \in bDouble
      BY DEF The
    <3>3. /\ z \in chain[r] /\ x \in chain[r] /\ y \in chain[r]
          /\ bStar.justify.hash = HashBlock(z) /\ bStar.justify.hash = HashBlock(x)
      <4>1. x \in chain[r] /\ bStar.justify.hash = HashBlock(x)
        BY ParentsHash
      <4>2. z \in chain[r] /\ bStar.justify.hash = HashBlock(z)
        BY <3>2, ParentsHash
      <4>3. y \in chain[r]
        BY ParentsStored
      <4>4. QED
        BY <4>1, <4>2, <4>3
    <3> HIDE DEF z
    <3>4. z \in Block /\ x \in Block /\ y \in Block
      BY <3>3 DEF TypeInv, TypeOK
    <3>5. z.parent = HashBlock(y)
      BY <3>1, <3>3, <3>4, HashParent
    <3>6. z \in blocks
      BY <3>3, <3>4, <3>5, ChildProposed DEF ChainInv, TypeInv
    <3>7. QED
      BY <1>1, <3>1, <3>3, <3>6 DEF BuiltOn, z
  <2> HIDE DEF new, blocks
  <2>3. lockedQC \in [Replica -> QuorumCert]
    BY DEF TypeInv, TypeOK
  <2>4. ASSUME NEW q \in Replica, lockedQC'[q] # NoQC PROVE BuiltOn(lockedQC'[q], blocks)
    <3>1. lockedQC[q] # NoQC => BuiltOn(lockedQC[q], blocks)
      BY CommitLocksMeaning DEF ChainInv, blocks
    <3>2. lockedQC'[q] = lockedQC[q] \/ (q = r /\ lockedQC'[q] = new)
      BY <2>1, <2>3
    <3>3. QED
      BY <2>2, <2>4, <3>1, <3>2
  <2>5. QED
    BY <1>2, <2>4 DEF LocksOnChain, BuiltOn, blocks, ToSet
<1>7. QED
  BY <1>3, <1>4, <1>5, <1>6 DEF ChainInv

-----------------------------------------------------------------------------
LEMMA InitChainInv == Init => ChainInv
<1> SUFFICES ASSUME Init PROVE ChainInv
  OBVIOUS
<1>1. ToSet(<< >>) = {}
  BY DEF ToSet
<1>2. StoresProposed /\ ParentsCertified
  BY <1>1 DEF Init, StoresProposed, ParentsCertified
<1>3. CommitOnChain /\ LocksOnChain
  BY <1>1, CommitLocksMeaning DEF Init
<1>4. QED
  BY <1>2, <1>3 DEF ChainInv

LEMMA NextChainInv == TypeInv /\ ChainInv /\ [Next]_vars => ChainInv'
<1> SUFFICES ASSUME TypeInv, ChainInv, [Next]_vars PROVE ChainInv'
  OBVIOUS
<1> USE DEF engineVars, bufferVars, deliverVars
<1>1. CASE UNCHANGED vars
  BY <1>1, ChainInvIdle DEF vars
<1>2. ASSUME NEW r \in Replica, NEW m \in net, Receive(r, m) PROVE ChainInv'
  <2>1. CASE StoreBlock(r, m)
    BY <2>1, StoreBlockChainInv
  <2>2. CASE HandlePropose(r, m)
    BY <2>2, HandleProposeChainInv
  <2>3. CASE IgnorePropose(r, m) \/ DropVote(r, m)
    BY <2>3, ChainInvIdle DEF IgnorePropose, DropVote
  <2>4. CASE CollectVote(r, m) \/ CollectNewView(r, m)
    BY <2>4, ChainInvIdle DEF CollectVote, CollectNewView
  <2>5. CASE FormQC(r, m)
    <3> DEFINE qc == Certificate(VotesWith(r, m.vote), Mc(r))
    <3>1. qc \in QuorumCert /\ \E arriving \in Refills(r) : Propose(r, qc, arriving, m)
      BY <2>5, FormQCMeans DEF TypeInv
    <3>2. UNCHANGED <<executed, lockedQC, window>>
      BY <2>5 DEF FormQC
    <3> HIDE DEF qc
    <3>3. QED
      BY <3>1, <3>2, ProposeChainInv
  <2>6. CASE ProposeOnNewViews(r, m)
    <3> DEFINE qc == AdoptQC(HighestViewQC(NewViewsWith(r, m)), genericQC[r])
    <3>1. qc \in QuorumCert
      BY <2>6, AdoptedType DEF ProposeOnNewViews, TypeInv
    <3>2. /\ \E arriving \in Refills(r) : Propose(r, qc, arriving, m)
          /\ UNCHANGED <<executed, lockedQC, window>>
      BY <2>6 DEF ProposeOnNewViews
    <3> HIDE DEF qc
    <3>3. QED
      BY <3>1, <3>2, ProposeChainInv
  <2>7. QED
    BY <1>2, <2>1, <2>2, <2>3, <2>4, <2>5, <2>6 DEF Receive
<1>3. ASSUME NEW r \in Replica, NEW req \in Request, SubmitRequest(r, req) PROVE ChainInv'
  BY <1>3, ChainInvIdle DEF SubmitRequest
<1>4. ASSUME NEW r \in Replica, TimeoutBegin(r) \/ OnTimeout(r) PROVE ChainInv'
  BY <1>4, ChainInvIdle DEF TimeoutBegin, OnTimeout
<1>5. ASSUME NEW r \in Replica, TimeoutEnd(r) PROVE ChainInv'
  BY <1>5, TimeoutEndChainInv
<1>6. QED
  BY <1>1, <1>2, <1>3, <1>4, <1>5 DEF Next

LEMMA SpecChainInv == Spec => []ChainInv
BY InitChainInv, NextChainInv, SpecTypeInv, PTL DEF Spec

(***************************************************************************)
(* Both commit paths keep the three-chain rule: the chain walk of          *)
(* HandlePropose (dhotstuff.go:171-182) and the pipeline window, which     *)
(* timeouts clear and old proposals disorder (pipeline.go:18-45).          *)
(***************************************************************************)
THEOREM EngineCommitOnChain == Spec => []CommitOnChain
<1>1. ChainInv => CommitOnChain
  BY DEF ChainInv
<1>2. QED
  BY <1>1, SpecChainInv, PTL

(***************************************************************************)
(* A lock is the justification of a proposed block that a later proposal   *)
(* certifies, in whatever order proposals are handled (safety.go:44-51).   *)
(***************************************************************************)
THEOREM EngineLocksOnChain == Spec => []LocksOnChain
<1>1. ChainInv => LocksOnChain
  BY DEF ChainInv
<1>2. QED
  BY <1>1, SpecChainInv, PTL

-----------------------------------------------------------------------------
(***************************************************************************)
(* What is executed and voted for is of an installed configuration, and    *)
(* what a deliverer marks it does not run again.  The invariant is that of *)
(* one deliverer, for every replica, and that votes stay covered while     *)
(* they travel and the stores grow.                                        *)
(***************************************************************************)
Sound(r) ==
  \E cs \in InitialConfigs :
    Continues(configs[r], cs[r]) /\ DelivererSound(DelivererOf(r), Len(cs[r]))

DeliverersSound == \A r \in Replica : Sound(r)

VotesInstalled ==
  \A m \in net : m.type = "vote" =>
    Installed(configs[m.vote.signer], proposed[m.answers].conf)

ConfigInv == DeliverersSound /\ VotesInstalled

\* A store that continues another has it as a prefix.
LEMMA ContinuesPrefix ==
  ASSUME NEW s \in Seq(Committee), NEW t \in Seq(Committee), Continues(t, s)
  PROVE  IsPrefix(s, t)
<1>1. Len(s) \in Nat /\ Len(t) \in Nat /\ Len(s) <= Len(t)
        /\ \A i \in 1 .. Len(s) : s[i] = t[i]
  BY DEF Continues
<1>2. SubSeq(s, 1, Len(s)) = SubSeq(t, 1, Len(s))
  BY <1>1
<1>3. QED
  BY <1>1, <1>2 DEF IsPrefix

\* Votes in flight stay covered when a step adds none.
LEMMA ConfigInvKept ==
  ASSUME TypeInv, ConfigInv, UNCHANGED deliverVars,
         \A m \in net' : m.type = "vote" => m \in net,
         \A i \in DOMAIN proposed : proposed'[i] = proposed[i]
  PROVE  ConfigInv'
<1>1. DeliverersSound'
  <2>1. ASSUME NEW r \in Replica PROVE Sound(r)'
    <3>1. DelivererOf(r)' = DelivererOf(r) /\ configs' = configs
      BY DEF DelivererOf, deliverVars
    <3>2. Sound(r)
      BY DEF ConfigInv, DeliverersSound
    <3>3. QED
      BY <3>1, <3>2, Zenon DEF Sound
  <2>2. QED
    BY <2>1, Zenon DEF DeliverersSound
<1>2. VotesInstalled'
  BY DEF ConfigInv, VotesInstalled, TypeInv, RoundsProposed, deliverVars
<1>3. QED
  BY <1>1, <1>2 DEF ConfigInv

LEMMA DeliverAnyKeeps ==
  ASSUME NEW d \in DelivererState, IsStore(d.configs), NEW blocks \in SUBSET Block,
         NEW start \in Nat, DelivererSound(d, start)
  PROVE  DelivererSound(DeliverAny(d, blocks), start)
<1>1. CASE blocks = {}
  BY <1>1 DEF DeliverAny
<1>2. CASE blocks # {}
  <2>1. The(blocks) \in Block
    BY <1>2 DEF The
  <2>2. DeliverAny(d, blocks) = Deliver(d, The(blocks))
    BY <1>2 DEF DeliverAny
  <2>3. QED
    BY <2>1, <2>2, DeliverKeeps
<1>3. QED
  BY <1>1, <1>2

LEMMA AfterProposeKeeps ==
  ASSUME TypeOK, NEW r \in Replica, NEW m, NEW start \in Nat,
         DelivererSound(DelivererOf(r), start)
  PROVE  DelivererSound(AfterPropose(r, m), start)
<1> DEFINE first == DeliverAny(DelivererOf(r), Committable(chain[r], proposed[m.round]))
<1>1. Committable(chain[r], proposed[m.round]) \in SUBSET Block
  BY CommittableStored DEF TypeOK
<1>2. Advanced(window[r]) \in SUBSET Block
  BY AdvancedType DEF TypeOK
<1>3. DelivererOf(r) \in DelivererState /\ IsStore(DelivererOf(r).configs)
  BY DelivererOfType
<1>4. first \in DelivererState /\ IsStore(first.configs)
  BY <1>1, <1>3, DeliverAnyType
<1>5. DelivererSound(first, start)
  BY <1>1, <1>3, DeliverAnyKeeps
<1> HIDE DEF first
<1>6. AfterPropose(r, m) = DeliverAny(first, Advanced(window[r]))
  BY DEF AfterPropose, first
<1>7. QED
  BY <1>2, <1>4, <1>5, <1>6, DeliverAnyKeeps

LEMMA HandleProposeConfigInv ==
  ASSUME TypeInv, ConfigInv, NEW r \in Replica, NEW m \in net, HandlePropose(r, m)
  PROVE  ConfigInv'
<1> DEFINE d     == AfterPropose(r, m)
           bStar == proposed[m.round]
<1>1. /\ configs' = [configs EXCEPT ![r] = d.configs]
      /\ delivered' = [delivered EXCEPT ![r] = d.delivered]
      /\ executed' = [executed EXCEPT ![r] = d.executed]
  BY DEF HandlePropose, AfterPropose
<1>2. /\ d \in DelivererState /\ IsStore(d.configs)
      /\ Continues(d.configs, configs[r])
  BY AfterProposeType DEF TypeInv
<1>3. PICK cs \in InitialConfigs :
        Continues(configs[r], cs[r]) /\ DelivererSound(DelivererOf(r), Len(cs[r]))
  BY DEF ConfigInv, DeliverersSound, Sound
<1>4. /\ configs \in [Replica -> Seq(Committee)]
      /\ delivered \in [Replica -> SUBSET Hash]
      /\ executed \in [Replica -> Seq(Block)]
      /\ \A q \in Replica : IsStore(configs[q])
      /\ cs[r] \in Seq(Committee) /\ IsStore(cs[r])
  BY DHotStuffAssumption DEF TypeInv, TypeOK
<1>5. DeliverersSound'
  <2>1. DelivererSound(d, Len(cs[r]))
    BY <1>3, <1>4, AfterProposeKeeps DEF TypeInv, d
  <2>2. Continues(d.configs, cs[r])
    BY <1>2, <1>3, <1>4, ContinuesTransitive
  <2>3. ASSUME NEW q \in Replica PROVE Sound(q)'
    <3>1. CASE q = r
      <4>1. d = [configs |-> d.configs, delivered |-> d.delivered, executed |-> d.executed]
        BY <1>2 DEF DelivererState
      <4>2. DelivererOf(q)' = d /\ configs'[q] = d.configs
        BY <1>1, <1>4, <3>1, <4>1 DEF DelivererOf
      <4>3. QED
        BY <2>1, <2>2, <3>1, <4>2, Zenon DEF Sound
    <3>2. CASE q # r
      <4>1. DelivererOf(q)' = DelivererOf(q) /\ configs'[q] = configs[q]
        BY <1>1, <1>4, <3>2 DEF DelivererOf
      <4>2. Sound(q)
        BY DEF ConfigInv, DeliverersSound
      <4>3. QED
        BY <4>1, <4>2, Zenon DEF Sound
    <3>3. QED
      BY <3>1, <3>2
  <2>4. QED
    BY <2>3, Zenon DEF DeliverersSound
<1>6. VotesInstalled'
  <2>1. \A q \in Replica : Len(configs'[q]) >= Len(configs[q])
    BY <1>1, <1>2, <1>4 DEF Continues, IsStore
  <2>2. \A q \in Replica : Len(configs'[q]) \in Nat /\ Len(configs[q]) \in Nat
    BY <1>1, <1>2, <1>4 DEF IsStore
  <2>3. \A q \in Replica, c \in Nat : Installed(configs[q], c) => Installed(configs'[q], c)
    BY <2>1, <2>2 DEF Installed
  <2>4. \A x \in SendVote(r, m) : x.vote.signer = r /\ x.answers = m.round
    BY DEF SendVote, UnicastTo, VoteFor
  <2>5. bStar \in Block /\ m.round \in DOMAIN proposed
    BY ProposedType DEF HandlePropose, TypeInv
  <2>6. Installed(configs[r], bStar.conf)
    <3>1. ~AheadOf(r, bStar)
      BY DEF HandlePropose
    <3>2. Mc(r).number = Len(configs[r]) - 1 /\ bStar.conf \in Nat
      BY <2>5, McType DEF TypeInv, Block
    <3>3. QED
      BY <2>2, <3>1, <3>2 DEF AheadOf, Installed
  <2>7. net' = (net \ {m}) \cup SendVote(r, m) /\ proposed' = proposed
    BY DEF HandlePropose
  <2>8. ASSUME NEW x \in net, x.type = "vote"
        PROVE  x.vote.signer \in Replica /\ proposed[x.answers].conf \in Nat
    <3>1. x \in VoteMsg /\ x.answers \in DOMAIN proposed
      BY <2>8, MessageKinds DEF TypeInv, RoundsProposed
    <3>2. x.vote.signer \in Replica
      BY <3>1 DEF VoteMsg, Vote
    <3>3. proposed[x.answers] \in Block
      BY <3>1 DEF TypeInv, TypeOK
    <3>4. QED
      BY <3>2, <3>3 DEF Block
  <2>9. bStar.conf \in Nat
    BY <2>5 DEF Block
  <2>10. ASSUME NEW x \in net', x.type = "vote"
         PROVE  Installed(configs'[x.vote.signer], proposed'[x.answers].conf)
    <3>1. CASE x \in SendVote(r, m)
      BY <2>3, <2>4, <2>6, <2>7, <2>9, <3>1
    <3>2. CASE x \in net
      BY <2>3, <2>7, <2>8, <2>10, <3>2 DEF ConfigInv, VotesInstalled
    <3>3. QED
      BY <2>7, <3>1, <3>2
  <2>11. QED
    BY <2>10 DEF VotesInstalled, Installed
<1>7. QED
  BY <1>5, <1>6 DEF ConfigInv

\* A proposal sends no vote and appends to the proposals.
LEMMA ProposeConfigInv ==
  ASSUME TypeInv, ConfigInv, NEW r \in Replica, NEW justify, NEW arriving,
         NEW m, Propose(r, justify, arriving, m), UNCHANGED deliverVars
  PROVE  ConfigInv'
<1> DEFINE out == {[type |-> "propose", dst |-> q, round |-> Len(proposed) + 1,
                    stored |-> FALSE] : q \in BroadcastTargets(r)}
<1>1. net' = (net \ {m}) \cup out
  BY DEF Propose
<1>2. \A x \in out : x.type = "propose"
  OBVIOUS
<1> HIDE DEF out
<1>3. \A x \in net' : x.type = "vote" => x \in net
  BY <1>1, <1>2
<1>4. \A i \in DOMAIN proposed : proposed'[i] = proposed[i]
  <2>1. proposed \in Seq(Block)
    BY DEF TypeInv, TypeOK
  <2> DEFINE b == NewBlock(r, justify, arriving)
  <2>2. proposed' = Append(proposed, b)
    BY DEF Propose
  <2> HIDE DEF b
  <2>3. QED
    BY <2>1, <2>2
<1>5. QED
  BY <1>3, <1>4, ConfigInvKept

LEMMA InitConfigInv == Init => ConfigInv
<1> SUFFICES ASSUME Init PROVE ConfigInv
  OBVIOUS
<1>1. \A r \in Replica : DelivererOf(r).executed = << >> /\ DelivererOf(r).configs = configs[r]
  BY DEF Init, DelivererOf
<1>2. DeliverersSound
  <2>1. configs \in InitialConfigs
    BY DEF Init
  <2>2. ASSUME NEW r \in Replica PROVE Sound(r)
    <3>1. configs[r] \in Seq(Committee)
      BY <2>1, DHotStuffAssumption
    <3>2. Continues(configs[r], configs[r])
      BY <3>1 DEF Continues
    <3>3. ChainedFrom(DelivererOf(r), Len(configs[r]))
      BY <1>1, <3>1 DEF ChainedFrom
    <3>4. DelivererSound(DelivererOf(r), Len(configs[r]))
      BY <1>1, <3>3 DEF DelivererSound, MarksRuns, RerunsFailed, RanInstalled
    <3>5. QED
      BY <2>1, <3>2, <3>4 DEF Sound
  <2>3. QED
    BY <2>2 DEF DeliverersSound
<1>3. VotesInstalled
  BY DEF Init, Bootstrapping, NewViewFrom, UnicastTo, VotesInstalled
<1>4. QED
  BY <1>2, <1>3 DEF ConfigInv

LEMMA NextConfigInv == TypeInv /\ ConfigInv /\ [Next]_vars => ConfigInv'
<1> SUFFICES ASSUME TypeInv, ConfigInv, [Next]_vars PROVE ConfigInv'
  OBVIOUS
<1>1. CASE UNCHANGED vars
  BY <1>1, ConfigInvKept DEF vars
<1>2. ASSUME NEW r \in Replica, NEW m \in net, Receive(r, m) PROVE ConfigInv'
  <2>1. CASE StoreBlock(r, m)
    <3> DEFINE stored == [m EXCEPT !.stored = TRUE]
    <3>1. net' = (net \ {m}) \cup {stored} /\ UNCHANGED <<deliverVars, proposed>>
            /\ m.type = "propose"
      BY <2>1 DEF StoreBlock
    <3>2. m \in ProposeMsg
      BY <3>1, MessageKinds DEF TypeInv
    <3>3. stored.type = "propose"
      BY <3>1, <3>2, Zenon DEF ProposeMsg
    <3> HIDE DEF stored
    <3>4. QED
      BY <3>1, <3>3, ConfigInvKept
  <2>2. CASE HandlePropose(r, m)
    BY <2>2, HandleProposeConfigInv
  <2>3. CASE IgnorePropose(r, m) \/ DropVote(r, m)
    BY <2>3, ConfigInvKept DEF IgnorePropose, DropVote
  <2>4. CASE CollectVote(r, m) \/ CollectNewView(r, m)
    BY <2>4, ConfigInvKept DEF CollectVote, CollectNewView
  <2>5. CASE FormQC(r, m)
    BY <2>5, ProposeConfigInv DEF FormQC
  <2>6. CASE ProposeOnNewViews(r, m)
    BY <2>6, ProposeConfigInv DEF ProposeOnNewViews
  <2>7. QED
    BY <1>2, <2>1, <2>2, <2>3, <2>4, <2>5, <2>6 DEF Receive
<1>3. ASSUME NEW r \in Replica, NEW req \in Request, SubmitRequest(r, req) PROVE ConfigInv'
  BY <1>3, ConfigInvKept DEF SubmitRequest
<1>4. ASSUME NEW r \in Replica, TimeoutBegin(r) \/ TimeoutEnd(r) PROVE ConfigInv'
  BY <1>4, ConfigInvKept DEF TimeoutBegin, TimeoutEnd
<1>5. ASSUME NEW r \in Replica, OnTimeout(r) PROVE ConfigInv'
  <2> DEFINE sent == NewViewFrom(r, Mc(r), NextView(r), genericQC[r])
  <2>1. net' = net \cup sent /\ UNCHANGED <<deliverVars, proposed>>
    BY <1>5 DEF OnTimeout
  <2>2. \A x \in sent : x.type = "newview"
    BY DEF NewViewFrom, UnicastTo
  <2> HIDE DEF sent
  <2>3. QED
    BY <2>1, <2>2, ConfigInvKept
<1>6. QED
  BY <1>1, <1>2, <1>3, <1>4, <1>5 DEF Next

LEMMA SpecConfigInv == Spec => []ConfigInv
BY InitConfigInv, NextConfigInv, SpecTypeInv, PTL DEF Spec

(***************************************************************************)
(* The two commit paths of one replica never run a block twice unless its  *)
(* membership change failed the first time, for a reason that lasts        *)
(* (deliver.go:24, 48-85, dhotstuff.go:174,185).                           *)
(***************************************************************************)
THEOREM EngineReruns == Spec => []RerunOnlyIfFailed
<1>1. TypeInv /\ ConfigInv => RerunOnlyIfFailed
  <2> SUFFICES ASSUME TypeInv, ConfigInv, NEW r \in Replica
               PROVE  \A i, j \in DOMAIN executed[r] :
                        i < j /\ HashBlock(executed[r][i]) = HashBlock(executed[r][j])
                          => \E cs \in InitialConfigs :
                               /\ IsPrefix(cs[r], configs[r])
                               /\ ChangeFailed(DelivererOf(r), i, Len(cs[r]))
    BY DEF RerunOnlyIfFailed
  <2>1. PICK cs \in InitialConfigs :
          Continues(configs[r], cs[r]) /\ DelivererSound(DelivererOf(r), Len(cs[r]))
    BY DEF ConfigInv, DeliverersSound, Sound
  <2>2. cs[r] \in Seq(Committee) /\ configs[r] \in Seq(Committee)
    BY DHotStuffAssumption DEF TypeInv, TypeOK
  <2>3. IsPrefix(cs[r], configs[r])
    BY <2>1, <2>2, ContinuesPrefix
  <2>4. DelivererOf(r).executed = executed[r]
    BY DEF DelivererOf
  <2>5. QED
    BY <2>1, <2>3, <2>4 DEF DelivererSound, RerunsFailed
<1>2. QED
  BY <1>1, SpecTypeInv, SpecConfigInv, PTL

(***************************************************************************)
(* No replica votes for or executes a block of a configuration it has not  *)
(* installed, however votes are delayed and reconfigurations overlap       *)
(* (dhotstuff.go:110-114, deliver.go:58-62).                               *)
(***************************************************************************)
THEOREM EngineWithinConfiguration == Spec => []WithinConfiguration
<1>1. ConfigInv => WithinConfiguration
  BY DEF ConfigInv, DeliverersSound, Sound, VotesInstalled, DelivererSound, RanInstalled,
         DelivererOf, WithinConfiguration
<1>2. QED
  BY <1>1, SpecConfigInv, PTL

-----------------------------------------------------------------------------
(***************************************************************************)
(* New-view messages.  A view changer sends one message for each view it   *)
(* enters, and no two for one view; a message is in flight or counted, and *)
(* counted once.                                                           *)
(***************************************************************************)
NewViews == {m \in net : m.type = "newview"}

SentOnce ==
  /\ \A m \in NewViews : m.view <= vcView[m.src]
  /\ \A m, n \in NewViews : m.src = n.src /\ m.view = n.view => m = n

CountedOnce ==
  \A r \in Replica, v \in View : \A i \in DOMAIN newViewBuf[r][v] :
    /\ v <= vcView[newViewBuf[r][v][i].src]
    /\ \A m \in NewViews : ~(m.src = newViewBuf[r][v][i].src /\ m.view = v)

NewViewInv == SentOnce /\ CountedOnce /\ NewViewsDistinct

\* A step that sends no new-view message and counts none.
LEMMA NewViewInvKept ==
  ASSUME TypeInv, NewViewInv, NewViews' \subseteq NewViews, vcView' = vcView,
         \A r \in Replica, v \in View : newViewBuf'[r][v] \in {newViewBuf[r][v], << >>}
  PROVE  NewViewInv'
<1>1. SentOnce'
  BY DEF NewViewInv, SentOnce
<1>2. ASSUME NEW r \in Replica, NEW v \in View
      PROVE  /\ \A i \in DOMAIN newViewBuf'[r][v] :
                  /\ v <= vcView[newViewBuf'[r][v][i].src]
                  /\ \A m \in NewViews' : ~(m.src = newViewBuf'[r][v][i].src /\ m.view = v)
             /\ \A i, j \in DOMAIN newViewBuf'[r][v] :
                  newViewBuf'[r][v][i].src = newViewBuf'[r][v][j].src => i = j
  <2>1. CASE newViewBuf'[r][v] = newViewBuf[r][v]
    BY <2>1 DEF NewViewInv, CountedOnce, NewViewsDistinct
  <2>2. CASE newViewBuf'[r][v] = << >>
    BY <2>2
  <2>3. QED
    BY <2>1, <2>2
<1>3. CountedOnce' /\ NewViewsDistinct'
  BY <1>2 DEF CountedOnce, NewViewsDistinct
<1>4. QED
  BY <1>1, <1>3 DEF NewViewInv

LEMMA CollectNewViewInv ==
  ASSUME TypeInv, NewViewInv, NEW r \in Replica, NEW m \in net, CollectNewView(r, m)
  PROVE  NewViewInv'
<1> DEFINE old == newViewBuf[r][m.view]
           new == Append(old, m)
<1>1. /\ m \in NewViews /\ m.view \in View /\ old \in Seq(NewViewMsg) /\ m \in NewViewMsg
      /\ m.src \in Replica
  <2>1. m.type = "newview"
    BY DEF CollectNewView
  <2>2. m \in NewViewMsg
    BY <2>1, MessageKinds DEF TypeInv
  <2>3. m.src \in Replica
    BY <2>2 DEF NewViewMsg
  <2>4. QED
    BY <2>1, <2>2, <2>3, NewViewsWithType DEF NewViews, TypeInv
<1>2. /\ newViewBuf' = [newViewBuf EXCEPT ![r][m.view] = new]
      /\ net' = net \ {m} /\ vcView' = vcView
  BY DEF CollectNewView, NewViewsWith, viewVars
<1>3. NewViews' = NewViews \ {m}
  BY <1>2 DEF NewViews
<1>4. SentOnce'
  BY <1>2, <1>3 DEF NewViewInv, SentOnce
<1>5. newViewBuf \in [Replica -> [View -> Seq(NewViewMsg)]]
  BY DEF TypeInv, TypeOK
<1>6. /\ DOMAIN old = 1 .. Len(old) /\ Len(old) \in Nat
      /\ DOMAIN new = 1 .. Len(old) + 1
      /\ \A i \in 1 .. Len(old) : new[i] = old[i]
      /\ new[Len(old) + 1] = m
  BY <1>1, AppendProperties
<1>7. /\ \A i \in DOMAIN old :
           m.view <= vcView[old[i].src] /\ old[i].src # m.src
              /\ \A n \in NewViews : ~(n.src = old[i].src /\ n.view = m.view)
      /\ \A i, j \in DOMAIN old : old[i].src = old[j].src => i = j
  BY <1>1 DEF NewViewInv, CountedOnce, NewViewsDistinct
<1>8. /\ m.view <= vcView[m.src]
      /\ \A n \in NewViews \ {m} : ~(n.src = m.src /\ n.view = m.view)
  BY <1>1 DEF NewViewInv, SentOnce
<1> HIDE DEF old, new
<1>9. /\ \A i \in DOMAIN new :
           m.view <= vcView[new[i].src]
              /\ \A n \in NewViews' : ~(n.src = new[i].src /\ n.view = m.view)
      /\ \A i, j \in DOMAIN new : new[i].src = new[j].src => i = j
  <2>1. ASSUME NEW i \in DOMAIN new
        PROVE  m.view <= vcView[new[i].src]
                 /\ \A n \in NewViews' : ~(n.src = new[i].src /\ n.view = m.view)
    <3>1. CASE i \in 1 .. Len(old)
      BY <1>3, <1>6, <1>7, <3>1
    <3>2. CASE i = Len(old) + 1
      BY <1>3, <1>6, <1>8, <3>2
    <3>3. QED
      BY <1>6, <3>1, <3>2
  <2>2. ASSUME NEW i \in DOMAIN new, NEW j \in DOMAIN new, new[i].src = new[j].src
        PROVE  i = j
    <3>1. CASE i \in 1 .. Len(old) /\ j \in 1 .. Len(old)
      BY <1>6, <1>7, <2>2, <3>1
    <3>2. CASE i = Len(old) + 1 \/ j = Len(old) + 1
      BY <1>6, <1>7, <2>2, <3>2
    <3>3. QED
      BY <1>6, <3>1, <3>2
  <2>3. QED
    BY <2>1, <2>2
<1>10. ASSUME NEW q \in Replica, NEW v \in View
       PROVE  /\ \A i \in DOMAIN newViewBuf'[q][v] :
                   /\ v <= vcView'[newViewBuf'[q][v][i].src]
                   /\ \A n \in NewViews' :
                        ~(n.src = newViewBuf'[q][v][i].src /\ n.view = v)
              /\ \A i, j \in DOMAIN newViewBuf'[q][v] :
                   newViewBuf'[q][v][i].src = newViewBuf'[q][v][j].src => i = j
  <2>1. CASE q = r /\ v = m.view
    <3>1. newViewBuf'[q][v] = new
      BY <1>2, <1>5, <2>1
    <3>2. QED
      BY <1>2, <1>9, <2>1, <3>1
  <2>2. CASE ~(q = r /\ v = m.view)
    <3>1. newViewBuf'[q][v] = newViewBuf[q][v]
      BY <1>2, <1>5, <2>2
    <3>2. QED
      BY <1>2, <1>3, <3>1 DEF NewViewInv, CountedOnce, NewViewsDistinct
  <2>3. QED
    BY <2>1, <2>2
<1>11. QED
  BY <1>4, <1>10 DEF NewViewInv, CountedOnce, NewViewsDistinct

LEMMA OnTimeoutNewViewInv ==
  ASSUME TypeInv, NewViewInv, NEW r \in Replica, OnTimeout(r)
  PROVE  NewViewInv'
<1> DEFINE next == vcView[r] + 1
           sent == NewViewFrom(r, Mc(r), next, genericQC[r])
<1>1. /\ vcView' = [vcView EXCEPT ![r] = next]
      /\ net' = net \cup sent /\ newViewBuf' = newViewBuf
  BY DEF OnTimeout, NextView, bufferVars
<1>2. /\ \A x \in sent : x.type = "newview" /\ x.src = r /\ x.view = next
      /\ \A x, y \in sent : x = y
  BY DEF NewViewFrom, UnicastTo
<1>3. vcView \in [Replica -> 0 .. MaxTimeouts] /\ MaxTimeouts \in Nat
  BY DHotStuffAssumption DEF TypeInv, TypeOK
<1>4. next = vcView[r] + 1 /\ vcView[r] \in Nat
  BY <1>3
<1> HIDE DEF next, sent
<1>5. NewViews' = NewViews \cup sent
  BY <1>1, <1>2 DEF NewViews
<1>6. \A q \in Replica : vcView[q] \in Nat /\ vcView'[q] \in Nat /\ vcView[q] <= vcView'[q]
  BY <1>1, <1>3, <1>4
<1>7. \A m \in NewViews : m.src \in Replica /\ m.view \in Nat
  <2>1. \A m \in NewViews : m \in NewViewMsg
    BY MessageKinds DEF NewViews, TypeInv
  <2>2. \A m \in NewViewMsg : m.src \in Replica /\ m.view \in View
    BY DEF NewViewMsg
  <2>3. View \subseteq Nat
    BY DHotStuffAssumption DEF View
  <2>4. QED
    BY <2>1, <2>2, <2>3
<1>8. \A m \in NewViews : m.src = r => m.view < next
  BY <1>4, <1>7 DEF NewViewInv, SentOnce
<1>9. SentOnce'
  <2>1. \A m \in NewViews : m.view <= vcView'[m.src]
    BY <1>6, <1>7 DEF NewViewInv, SentOnce
  <2>2. \A m \in sent : m.view <= vcView'[m.src]
    BY <1>1, <1>2, <1>3, <1>4
  <2>3. \A m \in NewViews, n \in sent : ~(m.src = n.src /\ m.view = n.view)
    BY <1>2, <1>4, <1>7, <1>8
  <2>4. QED
    BY <1>2, <1>5, <2>1, <2>2, <2>3 DEF NewViewInv, SentOnce
<1>10. CountedOnce'
  <2>1. ASSUME NEW q \in Replica, NEW v \in View, NEW i \in DOMAIN newViewBuf[q][v]
        PROVE  /\ v <= vcView'[newViewBuf[q][v][i].src]
               /\ \A m \in NewViews' : ~(m.src = newViewBuf[q][v][i].src /\ m.view = v)
    <3> DEFINE src == newViewBuf[q][v][i].src
    <3>1. src \in Replica
      <4>1. newViewBuf[q][v] \in Seq(NewViewMsg)
        BY DEF TypeInv, TypeOK
      <4>2. newViewBuf[q][v][i] \in NewViewMsg
        BY <4>1
      <4>3. QED
        BY <4>2 DEF NewViewMsg
    <3>2. v <= vcView[src] /\ \A m \in NewViews : ~(m.src = src /\ m.view = v)
      BY DEF NewViewInv, CountedOnce
    <3>3. v \in Nat
      BY DHotStuffAssumption DEF View
    <3> HIDE DEF src
    <3>4. v <= vcView'[src]
      BY <1>6, <3>1, <3>2, <3>3
    <3>5. \A m \in sent : ~(m.src = src /\ m.view = v)
      BY <1>2, <1>4, <3>2, <3>3
    <3>6. QED
      BY <1>5, <3>2, <3>4, <3>5 DEF src
  <2>2. QED
    BY <1>1, <2>1 DEF CountedOnce
<1>11. NewViewsDistinct'
  BY <1>1 DEF NewViewInv, NewViewsDistinct
<1>12. QED
  BY <1>9, <1>10, <1>11 DEF NewViewInv

LEMMA InitNewViewInv == Init => NewViewInv
<1> SUFFICES ASSUME Init PROVE NewViewInv
  OBVIOUS
<1>1. ASSUME NEW m \in net
      PROVE  \E r \in Bootstrap :
               /\ m \in NewViewFrom(r, Latest(configs[r]), 0, GenesisQC)
               /\ m.src = r /\ m.view = 0
  BY DEF Init, Bootstrapping, NewViewFrom, UnicastTo
<1>2. ASSUME NEW r, NEW x \in NewViewFrom(r, Latest(configs[r]), 0, GenesisQC),
             NEW y \in NewViewFrom(r, Latest(configs[r]), 0, GenesisQC)
      PROVE  x = y
  BY DEF NewViewFrom, UnicastTo
<1>3. Bootstrap \subseteq Replica /\ \A r \in Replica : vcView[r] = 0
  BY DHotStuffAssumption DEF Init
<1>4. SentOnce
  BY <1>1, <1>2, <1>3 DEF SentOnce, NewViews
<1>5. \A r \in Replica, v \in View : newViewBuf[r][v] = << >>
  BY DEF Init
<1>6. CountedOnce /\ NewViewsDistinct
  BY <1>5 DEF CountedOnce, NewViewsDistinct
<1>7. QED
  BY <1>4, <1>6 DEF NewViewInv

LEMMA ProposeNewViews ==
  ASSUME NEW r \in Replica, NEW justify, NEW arriving, NEW m,
         Propose(r, justify, arriving, m)
  PROVE  NewViews' \subseteq NewViews
BY DEF Propose, NewViews

LEMMA NextNewViewInv == TypeInv /\ NewViewInv /\ [Next]_vars => NewViewInv'
<1> SUFFICES ASSUME TypeInv, NewViewInv, [Next]_vars PROVE NewViewInv'
  OBVIOUS
<1> USE DEF bufferVars, viewVars
<1>1. CASE UNCHANGED vars
  BY <1>1, NewViewInvKept DEF vars, NewViews
<1>2. ASSUME NEW r \in Replica, NEW m \in net, Receive(r, m) PROVE NewViewInv'
  <2>1. CASE StoreBlock(r, m)
    <3> DEFINE stored == [m EXCEPT !.stored = TRUE]
    <3>1. net' = (net \ {m}) \cup {stored} /\ UNCHANGED <<vcView, newViewBuf>>
            /\ m.type = "propose"
      BY <2>1 DEF StoreBlock
    <3>2. m \in ProposeMsg
      BY <3>1, MessageKinds DEF TypeInv
    <3>3. stored.type = "propose"
      BY <3>1, <3>2, Zenon DEF ProposeMsg
    <3> HIDE DEF stored
    <3>4. NewViews' \subseteq NewViews
      BY <3>1, <3>3 DEF NewViews
    <3>5. QED
      BY <3>1, <3>4, NewViewInvKept
  <2>2. CASE HandlePropose(r, m)
    <3>1. net' = (net \ {m}) \cup SendVote(r, m) /\ UNCHANGED <<vcView, newViewBuf>>
      BY <2>2 DEF HandlePropose
    <3>2. \A x \in SendVote(r, m) : x.type = "vote"
      BY DEF SendVote, UnicastTo
    <3>3. NewViews' \subseteq NewViews
      BY <3>1, <3>2 DEF NewViews
    <3>4. QED
      BY <3>1, <3>3, NewViewInvKept
  <2>3. CASE IgnorePropose(r, m) \/ DropVote(r, m) \/ CollectVote(r, m)
    <3>1. net' \subseteq net /\ UNCHANGED <<vcView, newViewBuf>>
      BY <2>3 DEF IgnorePropose, DropVote, CollectVote
    <3>2. NewViews' \subseteq NewViews
      BY <3>1 DEF NewViews
    <3>3. QED
      BY <3>1, <3>2, NewViewInvKept
  <2>4. CASE CollectNewView(r, m)
    BY <2>4, CollectNewViewInv
  <2>5. CASE FormQC(r, m)
    <3>1. NewViews' \subseteq NewViews /\ UNCHANGED <<vcView, newViewBuf>>
      BY <2>5, ProposeNewViews DEF FormQC
    <3>2. QED
      BY <3>1, NewViewInvKept
  <2>6. CASE ProposeOnNewViews(r, m)
    <3>1. NewViews' \subseteq NewViews /\ vcView' = vcView
      BY <2>6, ProposeNewViews DEF ProposeOnNewViews
    <3>2. newViewBuf' = [newViewBuf EXCEPT ![r][m.view] = << >>]
      BY <2>6 DEF ProposeOnNewViews
    <3>3. newViewBuf \in [Replica -> [View -> Seq(NewViewMsg)]]
      BY DEF TypeInv, TypeOK
    <3>4. \A q \in Replica, v \in View : newViewBuf'[q][v] \in {newViewBuf[q][v], << >>}
      BY <3>2, <3>3
    <3>5. QED
      BY <3>1, <3>4, NewViewInvKept
  <2>7. QED
    BY <1>2, <2>1, <2>2, <2>3, <2>4, <2>5, <2>6 DEF Receive
<1>3. ASSUME NEW r \in Replica, NEW req \in Request, SubmitRequest(r, req)
      PROVE  NewViewInv'
  BY <1>3, NewViewInvKept DEF SubmitRequest, NewViews
<1>4. ASSUME NEW r \in Replica, TimeoutBegin(r) \/ TimeoutEnd(r) PROVE NewViewInv'
  BY <1>4, NewViewInvKept DEF TimeoutBegin, TimeoutEnd, NewViews
<1>5. ASSUME NEW r \in Replica, OnTimeout(r) PROVE NewViewInv'
  BY <1>5, OnTimeoutNewViewInv
<1>6. QED
  BY <1>1, <1>2, <1>3, <1>4, <1>5 DEF Next

(***************************************************************************)
(* HandleNewView never counts two messages of one replica for a view, so   *)
(* the length of its buffer is a number of replicas (dhotstuff.go:248-252, *)
(* viewchange.go:57-84).                                                   *)
(***************************************************************************)
THEOREM EngineNewViewsDistinct == Spec => []NewViewsDistinct
<1>1. NewViewInv => NewViewsDistinct
  BY DEF NewViewInv
<1>2. QED
  BY <1>1, InitNewViewInv, NextNewViewInv, SpecTypeInv, PTL DEF Spec

-----------------------------------------------------------------------------
(***************************************************************************)
(* Certificates.  A buffer holds verified votes of distinct signers, so a  *)
(* certificate formed from it has a quorum of signers; and a certificate   *)
(* only travels: by proposals, by new-view messages and in GenericQC.      *)
(***************************************************************************)
Backed(qc, cs) ==
  \/ qc \in {NoQC, GenesisQC}
  \/ \E r \in Replica : \E i \in DOMAIN cs[r] :
       Cardinality({s.by : s \in qc.sigs}) >= QuorumSize(cs[r][i])

Verified(votes) ==
  /\ \A i \in DOMAIN votes : votes[i].sig.by = votes[i].signer
  /\ \A i, j \in DOMAIN votes : votes[i].signer = votes[j].signer => i = j

VotesVerified == \A r \in Replica, v \in View : Verified(votesBuf[r][v])

AllBacked ==
  /\ \A r \in Replica : Backed(genericQC[r], configs)
  /\ \A m \in NewViews : Backed(m.qc, configs)
  /\ \A r \in Replica, v \in View : \A i \in DOMAIN newViewBuf[r][v] :
       Backed(newViewBuf[r][v][i].qc, configs)
  /\ \A k \in DOMAIN proposed : Backed(proposed[k].justify, configs)

CertInv == VotesVerified /\ AllBacked

LEMMA VerifiedAggregate ==
  ASSUME NEW votes \in Seq(Vote), Verified(votes), NEW vote \in Vote, Verify(vote)
  PROVE  Verified(AggregateVotes(votes, vote))
<1>1. CASE vote.signer \in Signers(votes)
  BY <1>1 DEF AggregateVotes
<1>2. CASE vote.signer \notin Signers(votes)
  <2> DEFINE n   == Len(votes)
             new == Append(votes, vote)
  <2>1. AggregateVotes(votes, vote) = new
    BY <1>2 DEF AggregateVotes
  <2>2. /\ n \in Nat /\ DOMAIN votes = 1 .. n /\ DOMAIN new = 1 .. n + 1
        /\ \A i \in 1 .. n : new[i] = votes[i]
        /\ new[n + 1] = vote
    BY AppendProperties
  <2>3. vote.sig.by = vote.signer
    BY DEF Verify, Sign
  <2>4. \A i \in 1 .. n : votes[i].signer # vote.signer
    BY <1>2, <2>2 DEF Signers
  <2> HIDE DEF new, n
  <2>5. ASSUME NEW i \in 1 .. n + 1 PROVE new[i].sig.by = new[i].signer
    <3>1. CASE i \in 1 .. n
      BY <2>2, <3>1 DEF Verified
    <3>2. CASE i = n + 1
      BY <2>2, <2>3, <3>2
    <3>3. QED
      BY <2>2, <3>1, <3>2
  <2>6. ASSUME NEW i \in 1 .. n + 1, NEW j \in 1 .. n + 1, new[i].signer = new[j].signer
        PROVE  i = j
    <3>1. CASE i \in 1 .. n /\ j \in 1 .. n
      BY <2>2, <2>6, <3>1 DEF Verified
    <3>2. CASE i = n + 1 \/ j = n + 1
      BY <2>2, <2>4, <2>6, <3>2
    <3>3. QED
      BY <2>2, <3>1, <3>2
  <2>7. QED
    BY <2>1, <2>2, <2>5, <2>6 DEF Verified
<1>3. QED
  BY <1>1, <1>2

\* The quorum of votes becomes a quorum of signatures.
LEMMA QuorumSigned ==
  ASSUME NEW votes \in Seq(Vote), Verified(votes), NEW c \in Committee,
         HasQuorum(votes, c)
  PROVE  Cardinality({s.by : s \in Certificate(votes, c).sigs}) >= QuorumSize(c)
<1>1. OwnSignatures(votes)
  BY DEF Verified, OwnSignatures
<1>2. QED
  BY <1>1, CertificateSigned

\* Stores only grow, so what was backed stays backed.
LEMMA BackedStays ==
  ASSUME NEW qc, NEW old, NEW new, \A r \in Replica : Continues(new[r], old[r]),
         Backed(qc, old)
  PROVE  Backed(qc, new)
BY DEF Backed, Continues

LEMMA SameContinues ==
  ASSUME TypeOK
  PROVE  \A r \in Replica : Continues(configs[r], configs[r])
<1>1. \A r \in Replica : Len(configs[r]) \in Nat
  BY DEF TypeOK, IsStore
<1>2. QED
  BY <1>1 DEF Continues

-----------------------------------------------------------------------------
\* A step that moves no certificate and counts no vote.
LEMMA CertInvKept ==
  ASSUME CertInv, NewViews' \subseteq NewViews,
         UNCHANGED <<genericQC, configs, proposed, newViewBuf>>,
         \A r \in Replica, v \in View : votesBuf'[r][v] \in {votesBuf[r][v], << >>}
  PROVE  CertInv'
<1>1. Verified(<< >>)
  BY DEF Verified
<1>2. \A r \in Replica, v \in View : Verified(votesBuf'[r][v])
  BY <1>1 DEF CertInv, VotesVerified
<1>3. VotesVerified'
  BY <1>2 DEF VotesVerified, Verified
<1>4. AllBacked'
  BY DEF CertInv, AllBacked, Backed
<1>5. QED
  BY <1>3, <1>4 DEF CertInv

\* A step that adopts a certificate and proposes with one.
LEMMA ProposeBacked ==
  ASSUME TypeInv, CertInv, NEW r \in Replica, NEW justify, NEW arriving, NEW m,
         NEW adopted, Propose(r, justify, arriving, m), UNCHANGED configs,
         genericQC' = [genericQC EXCEPT ![r] = adopted],
         \A q \in Replica, v \in View : newViewBuf'[q][v] \in {newViewBuf[q][v], << >>},
         Backed(justify, configs), Backed(adopted, configs)
  PROVE  AllBacked'
<1> DEFINE b == NewBlock(r, justify, arriving)
<1>1. b.justify = justify
  BY DEF NewBlock
<1>2. proposed' = Append(proposed, b) /\ proposed \in Seq(Block)
  BY DEF Propose, TypeInv, TypeOK
<1> HIDE DEF b
<1>3. /\ DOMAIN proposed = 1 .. Len(proposed) /\ Len(proposed) \in Nat
      /\ DOMAIN proposed' = 1 .. Len(proposed) + 1
      /\ \A k \in 1 .. Len(proposed) : proposed'[k] = proposed[k]
      /\ proposed'[Len(proposed) + 1] = b
  BY <1>2
<1>4. ASSUME NEW k \in DOMAIN proposed' PROVE Backed(proposed'[k].justify, configs)
  <2>1. CASE k \in 1 .. Len(proposed)
    BY <1>3, <2>1 DEF CertInv, AllBacked
  <2>2. CASE k = Len(proposed) + 1
    BY <1>1, <1>3, <2>2
  <2>3. QED
    BY <1>3, <1>4, <2>1, <2>2
<1>5. ASSUME NEW q \in Replica PROVE Backed(genericQC'[q], configs)
  <2>1. genericQC'[q] = IF q = r THEN adopted ELSE genericQC[q]
    BY DEF TypeInv, TypeOK
  <2>2. QED
    BY <2>1 DEF CertInv, AllBacked
<1>6. ASSUME NEW x \in NewViews' PROVE Backed(x.qc, configs)
  BY ProposeNewViews DEF CertInv, AllBacked
<1>7. ASSUME NEW q \in Replica, NEW v \in View, NEW i \in DOMAIN newViewBuf'[q][v]
      PROVE  Backed(newViewBuf'[q][v][i].qc, configs)
  BY DEF CertInv, AllBacked
<1>8. QED
  BY <1>4, <1>5, <1>6, <1>7 DEF AllBacked, Backed

LEMMA FormQCCertInv ==
  ASSUME TypeInv, CertInv, NEW r \in Replica, NEW m \in net, FormQC(r, m)
  PROVE  CertInv'
<1> DEFINE votes == VotesWith(r, m.vote)
           qc    == Certificate(votes, Mc(r))
<1>1. /\ votes \in Seq(Vote) /\ m.vote \in Vote /\ m.vote.view \in View
      /\ votesBuf[r][m.vote.view] \in Seq(Vote)
  <2>1. TypeOK /\ m.type = "vote"
    BY DEF FormQC, TypeInv
  <2>2. votes \in Seq(Vote) /\ m.vote \in Vote /\ m.vote.view \in View
    BY <2>1, VotesWithType
  <2>3. QED
    BY <2>1, <2>2 DEF TypeOK
<1>2. Verified(votes)
  BY <1>1, VerifiedAggregate DEF FormQC, VoteAccepted, VotesWith, CertInv, VotesVerified
<1>3. Backed(qc, configs)
  <2>1. Cardinality({s.by : s \in qc.sigs}) >= QuorumSize(Mc(r))
    <3>1. HasQuorum(votes, Mc(r)) /\ Mc(r) \in Committee
      BY McType, FormQCMeans DEF TypeInv
    <3> HIDE DEF votes
    <3>2. QED
      BY <1>1, <1>2, <3>1, QuorumSigned
  <2>2. Mc(r) = configs[r][Len(configs[r])] /\ Len(configs[r]) \in DOMAIN configs[r]
    <3>1. configs[r] \in Seq(Committee) /\ configs[r] # << >>
      BY DEF TypeInv, TypeOK, IsStore
    <3>2. QED
      BY <3>1, EmptySeq DEF Mc, Latest
  <2> HIDE DEF qc
  <2>3. QED
    BY <2>1, <2>2 DEF Backed
<1>4. /\ \E arriving \in Refills(r) : Propose(r, qc, arriving, m)
      /\ genericQC' = [genericQC EXCEPT ![r] = AdoptQC(qc, genericQC[r])]
      /\ UNCHANGED <<configs, newViewBuf>>
      /\ votesBuf' = [votesBuf EXCEPT ![r][m.vote.view] = << >>]
  BY FormQCMeans DEF FormQC, TypeInv, deliverVars
<1> HIDE DEF qc
<1>5. Backed(AdoptQC(qc, genericQC[r]), configs)
  BY <1>3 DEF AdoptQC, CertInv, AllBacked
<1>6. AllBacked'
  <2> DEFINE adopted == AdoptQC(qc, genericQC[r])
  <2>1. Backed(adopted, configs) /\ genericQC' = [genericQC EXCEPT ![r] = adopted]
    BY <1>4, <1>5
  <2> HIDE DEF adopted
  <2>2. \A q \in Replica, v \in View : newViewBuf'[q][v] \in {newViewBuf[q][v], << >>}
    BY <1>4
  <2>3. QED
    BY <1>3, <1>4, <2>1, <2>2, ProposeBacked
<1>7. VotesVerified'
  <2>1. Verified(<< >>)
    BY DEF Verified
  <2>2. ASSUME NEW q \in Replica, NEW v \in View
        PROVE  votesBuf'[q][v] \in {votesBuf[q][v], << >>}
    BY <1>1, <1>4 DEF TypeInv, TypeOK
  <2>3. \A q \in Replica, v \in View : Verified(votesBuf'[q][v])
    BY <2>1, <2>2 DEF CertInv, VotesVerified
  <2>4. QED
    BY <2>3 DEF VotesVerified, Verified
<1>8. QED
  BY <1>6, <1>7 DEF CertInv

LEMMA ProposeOnNewViewsCertInv ==
  ASSUME TypeInv, CertInv, NEW r \in Replica, NEW m \in net, ProposeOnNewViews(r, m)
  PROVE  CertInv'
<1> DEFINE msgs == NewViewsWith(r, m)
           qc   == AdoptQC(HighestViewQC(msgs), genericQC[r])
           buf  == newViewBuf[r][m.view]
<1>1. /\ m.type = "newview" /\ m.view \in View
      /\ buf \in Seq(NewViewMsg) /\ msgs \in Seq(NewViewMsg) /\ msgs = Append(buf, m)
  BY NewViewsWithType DEF ProposeOnNewViews, TypeInv, NewViewsWith
<1>2. m \in NewViews
  BY <1>1 DEF NewViews
<1>3. \A i \in DOMAIN buf : Backed(buf[i].qc, configs)
  BY <1>1 DEF CertInv, AllBacked
<1>4. Backed(m.qc, configs) /\ Backed(genericQC[r], configs)
  BY <1>2 DEF CertInv, AllBacked
<1>5. /\ \E arriving \in Refills(r) : Propose(r, qc, arriving, m)
      /\ UNCHANGED <<configs, votesBuf>>
      /\ genericQC' = [genericQC EXCEPT ![r] = qc]
      /\ newViewBuf' = [newViewBuf EXCEPT ![r][m.view] = << >>]
  BY DEF ProposeOnNewViews, deliverVars
<1> HIDE DEF msgs, buf
<1>6. ASSUME NEW i \in 1 .. Len(msgs) PROVE Backed(msgs[i].qc, configs)
  <2>1. /\ Len(msgs) = Len(buf) + 1 /\ Len(buf) \in Nat /\ DOMAIN buf = 1 .. Len(buf)
        /\ \A j \in 1 .. Len(buf) : msgs[j] = buf[j]
        /\ msgs[Len(buf) + 1] = m
    <3>1. m \in NewViewMsg
      BY <1>1, MessageKinds DEF TypeInv
    <3>2. QED
      BY <1>1, <3>1, AppendProperties
  <2>2. CASE i \in 1 .. Len(buf)
    BY <1>3, <2>1, <2>2
  <2>3. CASE i = Len(buf) + 1
    BY <1>4, <2>1, <2>3
  <2>4. QED
    BY <2>1, <2>2, <2>3
<1>7. Backed(HighestViewQC(msgs), configs)
  <2>1. Backed(NoQC, configs)
    BY DEF Backed
  <2>2. QED
    BY <1>1, <1>6, <2>1, HighestViewQCType
<1>8. Backed(qc, configs)
  BY <1>4, <1>7 DEF AdoptQC
<1> HIDE DEF qc
<1>9. ASSUME NEW q \in Replica, NEW v \in View
      PROVE  newViewBuf'[q][v] \in {newViewBuf[q][v], << >>}
  BY <1>1, <1>5 DEF TypeInv, TypeOK
<1>10. AllBacked'
  BY <1>5, <1>8, <1>9, ProposeBacked
<1>11. VotesVerified'
  BY <1>5 DEF CertInv, VotesVerified, Verified
<1>12. QED
  BY <1>10, <1>11 DEF CertInv

LEMMA HandleProposeCertInv ==
  ASSUME TypeInv, CertInv, NEW r \in Replica, NEW m \in net, HandlePropose(r, m)
  PROVE  CertInv'
<1> DEFINE d      == AfterPropose(r, m)
           bStar  == proposed[m.round]
           newQC  == UpdateOnOneChain(genericQC[r], bStar, Parents(chain[r], {bStar}))
<1>1. /\ configs' = [configs EXCEPT ![r] = d.configs]
      /\ genericQC' = [genericQC EXCEPT ![r] = newQC]
      /\ net' = (net \ {m}) \cup SendVote(r, m)
      /\ UNCHANGED <<votesBuf, newViewBuf, proposed>>
  BY DEF HandlePropose, AfterPropose, bufferVars
<1>2. Continues(d.configs, configs[r])
  BY AfterProposeType DEF TypeInv
<1>3. m.round \in DOMAIN proposed
  BY DEF HandlePropose, TypeInv, RoundsProposed
<1>4. newQC \in {genericQC[r], bStar.justify}
  BY DEF UpdateOnOneChain
<1>5. Backed(newQC, configs)
  BY <1>3, <1>4 DEF CertInv, AllBacked
<1> HIDE DEF d, newQC, bStar
<1>6. configs \in [Replica -> Seq(Committee)] /\ genericQC \in [Replica -> QuorumCert]
  BY DEF TypeInv, TypeOK
<1>7. \A q \in Replica : Continues(configs'[q], configs[q])
  BY <1>1, <1>2, <1>6, SameContinues DEF TypeInv
<1>8. ASSUME NEW qc, Backed(qc, configs) PROVE Backed(qc, configs')
  BY <1>7, <1>8, BackedStays
<1>9. ASSUME NEW q \in Replica PROVE Backed(genericQC'[q], configs')
  <2>1. genericQC'[q] = IF q = r THEN newQC ELSE genericQC[q]
    BY <1>1, <1>6
  <2>2. Backed(genericQC'[q], configs)
    BY <1>5, <2>1 DEF CertInv, AllBacked
  <2>3. QED
    BY <1>8, <2>2
<1>10. NewViews' \subseteq NewViews
  <2>1. \A x \in SendVote(r, m) : x.type = "vote"
    BY DEF SendVote, UnicastTo
  <2>2. QED
    BY <1>1, <2>1 DEF NewViews
<1>11. \A x \in NewViews' : Backed(x.qc, configs')
  BY <1>8, <1>10 DEF CertInv, AllBacked
<1>12. \A q \in Replica, v \in View : \A i \in DOMAIN newViewBuf[q][v] :
         Backed(newViewBuf[q][v][i].qc, configs')
  BY <1>8 DEF CertInv, AllBacked
<1>13. \A k \in DOMAIN proposed : Backed(proposed[k].justify, configs')
  BY <1>8 DEF CertInv, AllBacked
<1>14. AllBacked'
  BY <1>1, <1>9, <1>11, <1>12, <1>13 DEF AllBacked, Backed
<1>15. VotesVerified'
  BY <1>1 DEF CertInv, VotesVerified, Verified
<1>16. QED
  BY <1>14, <1>15 DEF CertInv

LEMMA CollectVoteCertInv ==
  ASSUME TypeInv, CertInv, NEW r \in Replica, NEW m \in net, CollectVote(r, m)
  PROVE  CertInv'
<1> DEFINE votes == VotesWith(r, m.vote)
<1>1. /\ votes \in Seq(Vote) /\ m.vote \in Vote /\ m.vote.view \in View
      /\ votesBuf[r][m.vote.view] \in Seq(Vote)
  <2>1. TypeOK /\ m.type = "vote"
    BY DEF CollectVote, TypeInv
  <2>2. votes \in Seq(Vote) /\ m.vote \in Vote /\ m.vote.view \in View
    BY <2>1, VotesWithType
  <2>3. QED
    BY <2>1, <2>2 DEF TypeOK
<1>2. Verified(votes)
  BY <1>1, VerifiedAggregate DEF CollectVote, VoteAccepted, VotesWith, CertInv, VotesVerified
<1>3. /\ votesBuf' = [votesBuf EXCEPT ![r][m.vote.view] = votes]
      /\ net' = net \ {m} /\ UNCHANGED <<genericQC, configs, proposed, newViewBuf>>
  BY DEF CollectVote, engineVars, deliverVars
<1> HIDE DEF votes
<1>4. VotesVerified'
  <2>1. ASSUME NEW q \in Replica, NEW v \in View
        PROVE  votesBuf'[q][v] \in {votesBuf[q][v], votes}
    BY <1>1, <1>3 DEF TypeInv, TypeOK
  <2>2. \A q \in Replica, v \in View : Verified(votesBuf'[q][v])
    BY <1>2, <2>1 DEF CertInv, VotesVerified
  <2>3. QED
    BY <2>2 DEF VotesVerified, Verified
<1>5. NewViews' \subseteq NewViews
  BY <1>3 DEF NewViews
<1>6. AllBacked'
  BY <1>3, <1>5 DEF CertInv, AllBacked, Backed
<1>7. QED
  BY <1>4, <1>6 DEF CertInv

LEMMA CollectNewViewCertInv ==
  ASSUME TypeInv, CertInv, NEW r \in Replica, NEW m \in net, CollectNewView(r, m)
  PROVE  CertInv'
<1> DEFINE old == newViewBuf[r][m.view]
           new == Append(old, m)
<1>1. /\ m \in NewViews /\ m \in NewViewMsg /\ m.view \in View
      /\ old \in Seq(NewViewMsg)
  BY NewViewsWithType, MessageKinds DEF CollectNewView, NewViews, TypeInv
<1>2. /\ newViewBuf' = [newViewBuf EXCEPT ![r][m.view] = new]
      /\ net' = net \ {m} /\ UNCHANGED <<genericQC, configs, proposed, votesBuf>>
  BY DEF CollectNewView, NewViewsWith, engineVars, deliverVars
<1>3. NewViews' \subseteq NewViews
  BY <1>2 DEF NewViews
<1>4. Backed(m.qc, configs)
  BY <1>1 DEF CertInv, AllBacked
<1>5. \A i \in DOMAIN old : Backed(old[i].qc, configs)
  BY <1>1 DEF CertInv, AllBacked
<1>6. ASSUME NEW i \in DOMAIN new PROVE Backed(new[i].qc, configs)
  <2>1. /\ Len(old) \in Nat /\ DOMAIN old = 1 .. Len(old)
        /\ DOMAIN new = 1 .. Len(old) + 1
        /\ \A j \in 1 .. Len(old) : new[j] = old[j]
        /\ new[Len(old) + 1] = m
    BY <1>1, AppendProperties
  <2> HIDE DEF new, old
  <2>2. CASE i \in 1 .. Len(old)
    BY <1>5, <2>1, <2>2
  <2>3. CASE i = Len(old) + 1
    BY <1>4, <2>1, <2>3
  <2>4. QED
    BY <1>6, <2>1, <2>2, <2>3
<1>7. newViewBuf \in [Replica -> [View -> Seq(NewViewMsg)]]
  BY DEF TypeInv, TypeOK
<1> HIDE DEF new, old
<1>8. ASSUME NEW q \in Replica, NEW v \in View
      PROVE  newViewBuf'[q][v] \in {newViewBuf[q][v], new}
  BY <1>1, <1>2, <1>7
<1>9. \A q \in Replica, v \in View : \A i \in DOMAIN newViewBuf'[q][v] :
        Backed(newViewBuf'[q][v][i].qc, configs)
  BY <1>6, <1>8 DEF CertInv, AllBacked
<1>10. AllBacked'
  BY <1>2, <1>3, <1>9 DEF CertInv, AllBacked, Backed
<1>11. VotesVerified'
  BY <1>2 DEF CertInv, VotesVerified, Verified
<1>12. QED
  BY <1>10, <1>11 DEF CertInv

LEMMA OnTimeoutCertInv ==
  ASSUME TypeInv, CertInv, NEW r \in Replica, OnTimeout(r)
  PROVE  CertInv'
<1>1. /\ net' = net \cup NewViewFrom(r, Mc(r), NextView(r), genericQC[r])
      /\ UNCHANGED <<genericQC, configs, proposed, newViewBuf, votesBuf>>
  BY DEF OnTimeout, engineVars, bufferVars, deliverVars
<1>2. \A x \in NewViewFrom(r, Mc(r), NextView(r), genericQC[r]) : x.qc = genericQC[r]
  BY DEF NewViewFrom, UnicastTo
<1>3. \A x \in NewViews' : Backed(x.qc, configs)
  BY <1>1, <1>2 DEF NewViews, CertInv, AllBacked
<1>4. AllBacked'
  BY <1>1, <1>3 DEF CertInv, AllBacked, Backed
<1>5. VotesVerified'
  BY <1>1 DEF CertInv, VotesVerified, Verified
<1>6. QED
  BY <1>4, <1>5 DEF CertInv

-----------------------------------------------------------------------------
LEMMA InitCertInv == Init => CertInv
<1> SUFFICES ASSUME Init PROVE CertInv
  OBVIOUS
<1>1. /\ \A r \in Replica : genericQC[r] = NoQC
      /\ \A r \in Replica, v \in View : votesBuf[r][v] = << >> /\ newViewBuf[r][v] = << >>
      /\ proposed = << >> /\ net = Bootstrapping
  BY DEF Init
<1>2. \A m \in Bootstrapping : m.qc = GenesisQC
  BY DEF Bootstrapping, NewViewFrom, UnicastTo
<1>3. VotesVerified
  BY <1>1 DEF VotesVerified, Verified
<1>4. AllBacked
  BY <1>1, <1>2 DEF AllBacked, Backed, NewViews
<1>5. QED
  BY <1>3, <1>4 DEF CertInv

LEMMA NextCertInv == TypeInv /\ CertInv /\ [Next]_vars => CertInv'
<1> SUFFICES ASSUME TypeInv, CertInv, [Next]_vars PROVE CertInv'
  OBVIOUS
<1> USE DEF engineVars, bufferVars, viewVars, deliverVars
<1>1. CASE UNCHANGED vars
  BY <1>1, CertInvKept DEF vars, NewViews
<1>2. ASSUME NEW r \in Replica, NEW m \in net, Receive(r, m) PROVE CertInv'
  <2>1. CASE StoreBlock(r, m)
    <3> DEFINE stored == [m EXCEPT !.stored = TRUE]
    <3>1. net' = (net \ {m}) \cup {stored} /\ m.type = "propose"
            /\ UNCHANGED <<genericQC, configs, proposed, newViewBuf, votesBuf>>
      BY <2>1 DEF StoreBlock
    <3>2. m \in ProposeMsg
      BY <3>1, MessageKinds DEF TypeInv
    <3>3. stored.type = "propose"
      BY <3>1, <3>2, Zenon DEF ProposeMsg
    <3> HIDE DEF stored
    <3>4. NewViews' \subseteq NewViews
      BY <3>1, <3>3 DEF NewViews
    <3>5. QED
      BY <3>1, <3>4, CertInvKept
  <2>2. CASE HandlePropose(r, m)
    BY <2>2, HandleProposeCertInv
  <2>3. CASE IgnorePropose(r, m) \/ DropVote(r, m)
    <3>1. net' \subseteq net /\ UNCHANGED <<genericQC, configs, proposed, newViewBuf, votesBuf>>
      BY <2>3 DEF IgnorePropose, DropVote
    <3>2. NewViews' \subseteq NewViews
      BY <3>1 DEF NewViews
    <3>3. QED
      BY <3>1, <3>2, CertInvKept
  <2>4. CASE CollectVote(r, m)
    BY <2>4, CollectVoteCertInv
  <2>5. CASE FormQC(r, m)
    BY <2>5, FormQCCertInv
  <2>6. CASE CollectNewView(r, m)
    BY <2>6, CollectNewViewCertInv
  <2>7. CASE ProposeOnNewViews(r, m)
    BY <2>7, ProposeOnNewViewsCertInv
  <2>8. QED
    BY <1>2, <2>1, <2>2, <2>3, <2>4, <2>5, <2>6, <2>7 DEF Receive
<1>3. ASSUME NEW r \in Replica, NEW req \in Request, SubmitRequest(r, req)
      PROVE  CertInv'
  BY <1>3, CertInvKept DEF SubmitRequest, NewViews
<1>4. ASSUME NEW r \in Replica, TimeoutBegin(r) PROVE CertInv'
  BY <1>4, CertInvKept DEF TimeoutBegin, NewViews
<1>5. ASSUME NEW r \in Replica, TimeoutEnd(r) PROVE CertInv'
  <2>1. /\ votesBuf' = [votesBuf EXCEPT ![r][timeout[r].view] = << >>]
        /\ UNCHANGED <<genericQC, configs, proposed, newViewBuf, net>>
    BY <1>5 DEF TimeoutEnd
  <2>2. votesBuf \in [Replica -> [View -> Seq(Vote)]]
    BY DEF TypeInv, TypeOK
  <2>3. \A q \in Replica, v \in View : votesBuf'[q][v] \in {votesBuf[q][v], << >>}
    BY <2>1, <2>2
  <2>4. NewViews' \subseteq NewViews
    BY <2>1 DEF NewViews
  <2>5. QED
    BY <2>1, <2>3, <2>4, CertInvKept
<1>6. ASSUME NEW r \in Replica, OnTimeout(r) PROVE CertInv'
  BY <1>6, OnTimeoutCertInv
<1>7. QED
  BY <1>1, <1>2, <1>3, <1>4, <1>5, <1>6 DEF Next

(***************************************************************************)
(* A certificate is formed from a buffer that holds one verified vote per  *)
(* signer, and certificates are copied and never altered, so what          *)
(* justifies a proposal has a quorum behind it (dhotstuff.go:209-240,      *)
(* ecdsa_qc.go:17-80).                                                     *)
(***************************************************************************)
THEOREM EngineCertificatesBacked == Spec => []CertificatesBacked
<1>1. CertInv => CertificatesBacked
  BY DEF CertInv, AllBacked, Backed, CertificatesBacked
<1>2. QED
  BY <1>1, InitCertInv, NextCertInv, SpecTypeInv, PTL DEF Spec

-----------------------------------------------------------------------------
(***************************************************************************)
(* Requests.  What is queued or proposed was submitted, so a request that  *)
(* is new to a queue is nowhere else; propose moves the front of a queue   *)
(* into a block and the rest up.                                           *)
(***************************************************************************)
QueuedSubmitted ==
  \A r \in Replica : \A i \in DOMAIN requestQ[r] : requestQ[r][i] \in submitted

ProposedSubmitted ==
  \A k \in DOMAIN proposed : \A i \in DOMAIN proposed[k].batch :
    proposed[k].batch[i] \in submitted

QueuedOnce ==
  \A r, q \in Replica : \A i \in DOMAIN requestQ[r], j \in DOMAIN requestQ[q] :
    requestQ[r][i] = requestQ[q][j] => r = q /\ i = j

ProposedOnce ==
  \A k, l \in DOMAIN proposed :
    \A i \in DOMAIN proposed[k].batch, j \in DOMAIN proposed[l].batch :
      proposed[k].batch[i] = proposed[l].batch[j] => k = l /\ i = j

NotQueuedAndProposed ==
  \A r \in Replica : \A i \in DOMAIN requestQ[r] :
    \A k \in DOMAIN proposed : \A j \in DOMAIN proposed[k].batch :
      requestQ[r][i] # proposed[k].batch[j]

NoneLost ==
  \A req \in submitted :
    \/ \E r \in Replica : \E i \in DOMAIN requestQ[r] : requestQ[r][i] = req
    \/ \E k \in DOMAIN proposed : \E i \in DOMAIN proposed[k].batch :
         proposed[k].batch[i] = req

RequestInv ==
  /\ QueuedSubmitted /\ ProposedSubmitted
  /\ QueuedOnce /\ ProposedOnce /\ NotQueuedAndProposed /\ NoneLost

LEMMA LenOfDomain ==
  ASSUME NEW S, NEW a \in Seq(S), NEW k \in Nat, DOMAIN a = 1 .. k
  PROVE  Len(a) = k
OBVIOUS

\* A sequence s is cut into b and t.
CutInto(s, b, t) ==
  \E n \in 0 .. Len(s) :
    /\ DOMAIN b = 1 .. n /\ \A i \in 1 .. n : b[i] = s[i]
    /\ DOMAIN t = 1 .. Len(s) - n
    /\ \A i \in 1 .. Len(s) - n : t[i] = s[i + n]

\* A drain of d elements, with others added after the last one only.
LEMMA SplitAtDrain ==
  ASSUME NEW S, NEW q \in Seq(S), NEW a \in Seq(S), NEW d \in 0 .. Len(q),
         Len(a) = 0 \/ d = Len(q)
  PROVE  CutInto(q \o a, SubSeq(q, 1, d) \o a, SubSeq(q, d + 1, Len(q)))
<1> DEFINE s == q \o a
           b == SubSeq(q, 1, d) \o a
           t == SubSeq(q, d + 1, Len(q))
           n == d + Len(a)
<1>1. n \in 0 .. Len(s) /\ DOMAIN b = 1 .. n /\ \A i \in 1 .. n : b[i] = s[i]
  OBVIOUS
<1>2. DOMAIN t = 1 .. Len(s) - n /\ \A i \in 1 .. Len(s) - n : t[i] = s[i + n]
  OBVIOUS
<1> HIDE DEF s, b, t, n
<1>3. QED
  BY <1>1, <1>2 DEF CutInto, s, b, t

\* The queue of r, lengthened by the requests that arrive during the drain.
Lengthened(r, arriving) == requestQ[r] \o arriving

\* propose moves the first n requests of that queue into the batch of a new block.
LEMMA ProposeMoves ==
  ASSUME TypeInv, NEW r \in Replica, NEW justify, NEW arriving \in Refills(r), NEW m,
         Propose(r, justify, arriving, m)
  PROVE  LET s == Lengthened(r, arriving)
         IN  \E n \in 0 .. Len(s) :
           /\ \A q \in Replica \ {r} : requestQ'[q] = requestQ[q]
           /\ Len(s) \in Nat /\ DOMAIN s = 1 .. Len(s)
           /\ DOMAIN requestQ'[r] = 1 .. Len(s) - n
           /\ \A i \in 1 .. Len(s) - n : requestQ'[r][i] = s[i + n]
           /\ DOMAIN proposed = 1 .. Len(proposed)
           /\ DOMAIN proposed' = 1 .. Len(proposed) + 1
           /\ \A k \in 1 .. Len(proposed) : proposed'[k] = proposed[k]
           /\ DOMAIN proposed'[Len(proposed) + 1].batch = 1 .. n
           /\ \A i \in 1 .. n : proposed'[Len(proposed) + 1].batch[i] = s[i]
<1> DEFINE d  == BatchLen(r)
           q0 == requestQ[r]
           b  == NewBlock(r, justify, arriving)
<1>1. q0 \in Seq(Request) /\ arriving \in Seq(Request)
  BY RefillsType, SeqMonotonic DEF TypeInv, TypeOK
<1>2. d \in 0 .. Len(q0) /\ BatchSize - d \in Nat
  BY <1>1, DHotStuffAssumption DEF BatchLen
<1>3. Len(arriving) = 0 \/ d = Len(q0)
  <2>1. d = IF Len(q0) < BatchSize THEN Len(q0) ELSE BatchSize
    BY DEF BatchLen
  <2>2. PICK k \in 0 .. BatchSize - d : arriving \in [1 .. k -> Request \ submitted]
    BY Zenon DEF Refills, SeqOf
  <2> HIDE DEF d, q0
  <2>3. k \in Nat /\ DOMAIN arriving = 1 .. k
    BY <1>2, <2>2
  <2>4. Len(arriving) = k
    BY <1>1, <2>3, LenOfDomain
  <2>5. QED
    BY <1>1, <1>2, <2>1, <2>2, <2>4, DHotStuffAssumption
<1>4. /\ proposed \in Seq(Block) /\ proposed' = Append(proposed, b)
      /\ requestQ' = [requestQ EXCEPT ![r] = SubSeq(q0, d + 1, Len(q0))]
      /\ requestQ \in [Replica -> Seq(Request)]
  BY DEF Propose, TypeInv, TypeOK
<1>5. b.batch = SubSeq(q0, 1, d) \o arriving
  BY DEF NewBlock, Batch
<1> HIDE DEF b, d, q0
<1>6. /\ DOMAIN proposed = 1 .. Len(proposed) /\ DOMAIN proposed' = 1 .. Len(proposed) + 1
      /\ \A k \in 1 .. Len(proposed) : proposed'[k] = proposed[k]
      /\ proposed'[Len(proposed) + 1] = b
  BY <1>4
<1>7. /\ \A q \in Replica \ {r} : requestQ'[q] = requestQ[q]
      /\ requestQ'[r] = SubSeq(q0, d + 1, Len(q0))
  BY <1>4
<1> DEFINE s     == q0 \o arriving
           batch == SubSeq(q0, 1, d) \o arriving
           rest  == SubSeq(q0, d + 1, Len(q0))
<1>8. \E n \in 0 .. Len(s) :
        /\ DOMAIN batch = 1 .. n /\ \A i \in 1 .. n : batch[i] = s[i]
        /\ DOMAIN rest = 1 .. Len(s) - n
        /\ \A i \in 1 .. Len(s) - n : rest[i] = s[i + n]
  <2>1. CutInto(s, batch, rest)
    BY <1>1, <1>2, <1>3, SplitAtDrain
  <2> HIDE DEF s, batch, rest
  <2>2. QED
    BY <2>1 DEF CutInto
<1>9. Len(s) \in Nat /\ DOMAIN s = 1 .. Len(s) /\ Lengthened(r, arriving) = s
  BY <1>1 DEF Lengthened, q0
<1>10. requestQ'[r] = rest /\ proposed'[Len(proposed) + 1].batch = batch
  BY <1>5, <1>6, <1>7
<1> HIDE DEF s, batch, rest
<1>11. QED
  BY <1>6, <1>7, <1>8, <1>9, <1>10, Zenon

\* What that queue holds was queued, or is submitted by this step.
LEMMA LengthenedFresh ==
  ASSUME TypeInv, RequestInv, NEW r \in Replica, NEW arriving \in Refills(r),
         submitted' = submitted \cup ToSet(arriving)
  PROVE  LET s == Lengthened(r, arriving)
         IN  /\ \A i \in DOMAIN s : s[i] \in submitted'
             /\ \A i, j \in DOMAIN s : s[i] = s[j] => i = j
             /\ \A q \in Replica \ {r} : \A j \in DOMAIN requestQ[q], i \in DOMAIN s :
                  requestQ[q][j] # s[i]
             /\ \A k \in DOMAIN proposed : \A j \in DOMAIN proposed[k].batch, i \in DOMAIN s :
                  proposed[k].batch[j] # s[i]
             /\ \A i \in DOMAIN requestQ[r] : i \in DOMAIN s /\ s[i] = requestQ[r][i]
             /\ \A req \in submitted' \ submitted : \E i \in DOMAIN s : s[i] = req
<1> DEFINE q0 == requestQ[r]
           s  == Lengthened(r, arriving)
<1>1. q0 \in Seq(Request) /\ Len(q0) \in Nat /\ DOMAIN q0 = 1 .. Len(q0)
  BY DEF TypeInv, TypeOK
<1>2. /\ arriving \in Seq(Request \ submitted) /\ IsInjective(arriving)
      /\ Len(arriving) \in Nat /\ DOMAIN arriving = 1 .. Len(arriving)
  BY RefillsType
<1>3. \A i \in 1 .. Len(arriving) : arriving[i] \notin submitted /\ arriving[i] \in submitted'
  BY <1>2 DEF ToSet
<1>4. \A i, j \in 1 .. Len(arriving) : arriving[i] = arriving[j] => i = j
  BY <1>2 DEF IsInjective
<1>5. s = q0 \o arriving
  BY DEF Lengthened
<1> HIDE DEF s
<1>6. /\ Len(s) = Len(q0) + Len(arriving) /\ DOMAIN s = 1 .. Len(s)
      /\ \A i \in 1 .. Len(q0) : s[i] = q0[i]
      /\ \A i \in 1 .. Len(arriving) : s[i + Len(q0)] = arriving[i]
  <2>1. arriving \in Seq(Request)
    BY <1>2, SeqMonotonic
  <2>2. QED
    BY <1>1, <1>5, <2>1
<1>7. ASSUME NEW i \in DOMAIN s
      PROVE  \/ i \in DOMAIN q0 /\ s[i] = q0[i] /\ s[i] \in submitted
             \/ /\ i - Len(q0) \in 1 .. Len(arriving) /\ s[i] = arriving[i - Len(q0)]
                /\ s[i] \notin submitted /\ s[i] \in submitted'
  <2>1. CASE i \in 1 .. Len(q0)
    BY <1>1, <1>6, <2>1 DEF RequestInv, QueuedSubmitted
  <2>2. CASE i \notin 1 .. Len(q0)
    <3>1. i - Len(q0) \in 1 .. Len(arriving) /\ (i - Len(q0)) + Len(q0) = i
      <4> HIDE DEF q0
      <4>1. Len(q0) \in Nat /\ Len(arriving) \in Nat /\ i \in 1 .. Len(q0) + Len(arriving)
        BY <1>1, <1>2, <1>6
      <4>2. QED
        BY <2>2, <4>1
    <3>2. s[i] = arriving[i - Len(q0)]
      BY <1>6, <3>1
    <3>3. QED
      BY <1>3, <3>1, <3>2
  <2>3. QED
    BY <2>1, <2>2
<1>8. \A i \in DOMAIN s : s[i] \in submitted'
  BY <1>7
<1>9. ASSUME NEW i \in DOMAIN s, NEW j \in DOMAIN s, s[i] = s[j] PROVE i = j
  <2>1. i \in Int /\ j \in Int
    BY <1>1, <1>2, <1>6
  <2>2. CASE s[i] \in submitted
    BY <1>7, <1>9, <2>2 DEF RequestInv, QueuedOnce
  <2>3. CASE s[i] \notin submitted
    <3>1. i - Len(q0) = j - Len(q0)
      BY <1>4, <1>7, <1>9, <2>3
    <3>2. QED
      BY <1>1, <2>1, <3>1
  <2>4. QED
    BY <2>2, <2>3
<1>10. ASSUME NEW q \in Replica \ {r}, NEW j \in DOMAIN requestQ[q], NEW i \in DOMAIN s
       PROVE  requestQ[q][j] # s[i]
  BY <1>7 DEF RequestInv, QueuedOnce, QueuedSubmitted
<1>11. ASSUME NEW k \in DOMAIN proposed, NEW j \in DOMAIN proposed[k].batch, NEW i \in DOMAIN s
       PROVE  proposed[k].batch[j] # s[i]
  BY <1>7 DEF RequestInv, NotQueuedAndProposed, ProposedSubmitted
<1>12. \A i \in DOMAIN requestQ[r] : i \in DOMAIN s /\ s[i] = requestQ[r][i]
  BY <1>1, <1>2, <1>6
<1>13. ASSUME NEW req \in submitted' \ submitted PROVE \E i \in DOMAIN s : s[i] = req
  <2>1. PICK i \in 1 .. Len(arriving) : arriving[i] = req
    BY <1>2 DEF ToSet
  <2>2. i + Len(q0) \in DOMAIN s
    BY <1>1, <1>2, <1>6
  <2>3. QED
    BY <1>6, <2>1, <2>2
<1>14. QED
  BY <1>8, <1>9, <1>10, <1>11, <1>12, <1>13 DEF s

LEMMA ProposeRequestInv ==
  ASSUME TypeInv, RequestInv, NEW r \in Replica, NEW justify, NEW arriving \in Refills(r),
         NEW m, Propose(r, justify, arriving, m)
  PROVE  RequestInv'
<1> DEFINE s == Lengthened(r, arriving)
           t == requestQ'[r]
           P == Len(proposed)
<1>1. PICK n \in 0 .. Len(s) :
        /\ \A q \in Replica \ {r} : requestQ'[q] = requestQ[q]
        /\ Len(s) \in Nat /\ DOMAIN s = 1 .. Len(s) /\ DOMAIN t = 1 .. Len(s) - n
        /\ \A i \in 1 .. Len(s) - n : t[i] = s[i + n]
        /\ DOMAIN proposed = 1 .. P /\ DOMAIN proposed' = 1 .. P + 1
        /\ \A k \in 1 .. P : proposed'[k] = proposed[k]
        /\ DOMAIN proposed'[P + 1].batch = 1 .. n
        /\ \A i \in 1 .. n : proposed'[P + 1].batch[i] = s[i]
  <2> HIDE DEF s
  <2>1. QED
    BY ProposeMoves DEF s
<1>2. Len(s) \in Nat /\ P \in Nat /\ n \in Nat /\ n <= Len(s)
  BY <1>1 DEF TypeInv, TypeOK
<1>3. \A i \in DOMAIN t : i + n \in DOMAIN s /\ t[i] = s[i + n]
  BY <1>1, <1>2
<1>4. \A i \in 1 .. n : i \in DOMAIN s /\ proposed'[P + 1].batch[i] = s[i]
  BY <1>1, <1>2
<1>5. \A k \in DOMAIN proposed' :
        \/ k \in DOMAIN proposed /\ proposed'[k] = proposed[k]
        \/ k = P + 1
  BY <1>1, <1>2
<1>6. DOMAIN t \subseteq Int /\ DOMAIN proposed \subseteq Int /\ P + 1 \notin DOMAIN proposed
  BY <1>1, <1>2
<1>7. submitted' = submitted \cup ToSet(arriving)
  BY DEF Propose
<1>8. /\ \A i \in DOMAIN s : s[i] \in submitted'
      /\ \A i, j \in DOMAIN s : s[i] = s[j] => i = j
      /\ \A q \in Replica \ {r} : \A j \in DOMAIN requestQ[q], i \in DOMAIN s :
           requestQ[q][j] # s[i]
      /\ \A k \in DOMAIN proposed : \A j \in DOMAIN proposed[k].batch, i \in DOMAIN s :
           proposed[k].batch[j] # s[i]
      /\ \A i \in DOMAIN requestQ[r] : i \in DOMAIN s /\ s[i] = requestQ[r][i]
      /\ \A req \in submitted' \ submitted : \E i \in DOMAIN s : s[i] = req
  BY <1>7, LengthenedFresh
<1> HIDE DEF s, t, P
<1>left. \A j \in DOMAIN requestQ'[r] : j + n \in DOMAIN s /\ requestQ'[r][j] = s[j + n]
  BY <1>3 DEF t
<1>apart. \A q \in Replica \ {r} : \A i \in DOMAIN requestQ'[q], k \in DOMAIN s :
            requestQ'[q][i] # s[k]
  <2>1. TAKE q \in Replica \ {r}
  <2>2. requestQ'[q] = requestQ[q]
    BY <1>1
  <2>3. \A j \in DOMAIN requestQ[q], i \in DOMAIN s : requestQ[q][j] # s[i]
    BY <1>8
  <2>4. QED
    BY <2>2, <2>3, Zenon
<1>drained. \A i \in DOMAIN proposed'[P + 1].batch :
              i \in DOMAIN s /\ proposed'[P + 1].batch[i] = s[i]
  BY <1>1, <1>4
<1>new. \A k \in DOMAIN proposed : \A j \in DOMAIN proposed'[k].batch, i \in DOMAIN s :
          proposed'[k].batch[j] # s[i]
  <2>1. TAKE k \in DOMAIN proposed
  <2>2. proposed'[k] = proposed[k]
    BY <1>1
  <2>3. \A j \in DOMAIN proposed[k].batch, i \in DOMAIN s : proposed[k].batch[j] # s[i]
    BY <1>8
  <2>4. QED
    BY <2>2, <2>3, Zenon
<1>distinct. \A i, j \in DOMAIN s : s[i] = s[j] => i = j
  BY <1>8
<1>9. QueuedSubmitted'
  <2>1. ASSUME NEW q \in Replica, NEW i \in DOMAIN requestQ'[q]
        PROVE  requestQ'[q][i] \in submitted'
    <3>1. CASE q = r
      BY <1>3, <1>8, <3>1 DEF t
    <3>2. CASE q # r
      BY <1>1, <1>7, <3>2 DEF RequestInv, QueuedSubmitted
    <3>3. QED
      BY <3>1, <3>2
  <2>2. QED
    BY <2>1 DEF QueuedSubmitted
<1>10. ProposedSubmitted'
  <2>1. SUFFICES ASSUME NEW k \in DOMAIN proposed', NEW i \in DOMAIN proposed'[k].batch
                 PROVE  proposed'[k].batch[i] \in submitted'
    BY DEF ProposedSubmitted
  <2>2. CASE k \in DOMAIN proposed /\ proposed'[k] = proposed[k]
    BY <1>7, <2>2 DEF RequestInv, ProposedSubmitted
  <2>3. CASE k = P + 1
    BY <1>1, <1>4, <1>8, <2>3
  <2>4. QED
    BY <1>5, <2>2, <2>3
<1>11. QueuedOnce'
  <2>1. SUFFICES ASSUME NEW p \in Replica, NEW q \in Replica,
                        NEW i \in DOMAIN requestQ'[p], NEW j \in DOMAIN requestQ'[q],
                        requestQ'[p][i] = requestQ'[q][j]
                 PROVE  p = q /\ i = j
    BY DEF QueuedOnce
  <2>2. CASE p # r /\ q # r
    BY <1>1, <2>1, <2>2 DEF RequestInv, QueuedOnce
  <2>3. CASE p = r /\ q = r
    <3>1. i + n = j + n
      BY <1>3, <1>8, <2>1, <2>3 DEF t
    <3>2. QED
      BY <1>2, <1>6, <2>3, <3>1 DEF t
  <2>4. CASE p = r /\ q # r
    BY <1>left, <1>apart, <2>1, <2>4, Zenon
  <2>5. CASE p # r /\ q = r
    BY <1>left, <1>apart, <2>1, <2>5, Zenon
  <2>6. QED
    BY <2>2, <2>3, <2>4, <2>5
<1>12. ProposedOnce'
  <2>1. SUFFICES ASSUME NEW k \in DOMAIN proposed', NEW l \in DOMAIN proposed',
                        NEW i \in DOMAIN proposed'[k].batch,
                        NEW j \in DOMAIN proposed'[l].batch,
                        proposed'[k].batch[i] = proposed'[l].batch[j]
                 PROVE  k = l /\ i = j
    BY DEF ProposedOnce
  <2>2. CASE k \in DOMAIN proposed /\ l \in DOMAIN proposed
    BY <1>5, <1>6, <2>1, <2>2 DEF RequestInv, ProposedOnce
  <2>3. CASE k = P + 1 /\ l = P + 1
    BY <1>drained, <1>distinct, <2>1, <2>3, Zenon
  <2>4. CASE k = P + 1 /\ l \in DOMAIN proposed
    BY <1>drained, <1>new, <2>1, <2>4, Zenon
  <2>5. CASE k \in DOMAIN proposed /\ l = P + 1
    BY <1>drained, <1>new, <2>1, <2>5, Zenon
  <2>6. QED
    BY <1>5, <2>2, <2>3, <2>4, <2>5
<1>13. NotQueuedAndProposed'
  <2>1. SUFFICES ASSUME NEW q \in Replica, NEW i \in DOMAIN requestQ'[q],
                        NEW k \in DOMAIN proposed', NEW j \in DOMAIN proposed'[k].batch
                 PROVE  requestQ'[q][i] # proposed'[k].batch[j]
    BY DEF NotQueuedAndProposed
  <2>2. CASE k \in DOMAIN proposed /\ q # r
    BY <1>1, <1>5, <1>6, <2>2 DEF RequestInv, NotQueuedAndProposed
  <2>3. CASE k \in DOMAIN proposed /\ q = r
    BY <1>left, <1>new, <2>3, Zenon
  <2>4. CASE k = P + 1 /\ q # r
    <3>1. q \in Replica \ {r}
      BY <2>4
    <3>2. j \in DOMAIN s /\ proposed'[k].batch[j] = s[j]
      BY <1>drained, <2>4, Zenon
    <3>3. requestQ'[q][i] # s[j]
      BY <1>apart, <3>1, <3>2, Zenon
    <3>4. QED
      BY <3>2, <3>3
  <2>5. CASE k = P + 1 /\ q = r
    <3>1. j \in 1 .. n /\ j \in DOMAIN s /\ proposed'[k].batch[j] = s[j]
      BY <1>1, <1>4, <2>5
    <3>2. i \in Nat /\ i >= 1 /\ i + n \in DOMAIN s /\ requestQ'[q][i] = s[i + n]
      BY <1>1, <1>2, <1>3, <2>5 DEF t
    <3>3. i + n # j
      BY <1>2, <3>1, <3>2
    <3>4. QED
      BY <1>distinct, <3>1, <3>2, <3>3, Zenon
  <2>6. QED
    BY <1>5, <2>2, <2>3, <2>4, <2>5
<1>14. NoneLost'
  <2>1. SUFFICES ASSUME NEW req \in submitted'
                 PROVE  \/ \E q \in Replica : \E i \in DOMAIN requestQ'[q] : requestQ'[q][i] = req
                        \/ \E k \in DOMAIN proposed' : \E i \in DOMAIN proposed'[k].batch :
                             proposed'[k].batch[i] = req
    BY DEF NoneLost
  <2>2. ASSUME NEW i \in DOMAIN s, s[i] = req
        PROVE  \/ \E q \in Replica : \E j \in DOMAIN requestQ'[q] : requestQ'[q][j] = req
               \/ \E k \in DOMAIN proposed' : \E j \in DOMAIN proposed'[k].batch :
                    proposed'[k].batch[j] = req
    <3>1. CASE i <= n
      <4>1. i \in 1 .. n
        BY <1>1, <1>2, <3>1
      <4>2. P + 1 \in DOMAIN proposed' /\ i \in DOMAIN proposed'[P + 1].batch
              /\ proposed'[P + 1].batch[i] = req
        BY <1>1, <1>2, <2>2, <4>1
      <4>3. QED
        BY <4>2
    <3>2. CASE i > n
      <4>1. i \in Int /\ i - n \in DOMAIN t /\ (i - n) + n = i
        BY <1>1, <1>2, <3>2
      <4>2. t[i - n] = req
        BY <1>3, <2>2, <4>1
      <4>3. QED
        BY <4>1, <4>2 DEF t
    <3>3. QED
      BY <1>1, <1>2, <3>1, <3>2
  <2>3. ASSUME NEW q \in Replica \ {r}, NEW i \in DOMAIN requestQ[q], requestQ[q][i] = req
        PROVE  i \in DOMAIN requestQ'[q] /\ requestQ'[q][i] = req
    BY <1>1, <2>3
  <2>4. ASSUME NEW k \in DOMAIN proposed, NEW i \in DOMAIN proposed[k].batch,
               proposed[k].batch[i] = req
        PROVE  \E l \in DOMAIN proposed' : \E j \in DOMAIN proposed'[l].batch :
                 proposed'[l].batch[j] = req
    <3>1. k \in DOMAIN proposed' /\ proposed'[k] = proposed[k]
      BY <1>1, <1>2
    <3>2. QED
      BY <2>4, <3>1
  <2>5. CASE req \in submitted
    <3>1. \/ \E q \in Replica : \E i \in DOMAIN requestQ[q] : requestQ[q][i] = req
          \/ \E k \in DOMAIN proposed : \E i \in DOMAIN proposed[k].batch :
               proposed[k].batch[i] = req
      BY <2>5 DEF RequestInv, NoneLost
    <3>2. ASSUME NEW i \in DOMAIN requestQ[r], requestQ[r][i] = req
          PROVE  i \in DOMAIN s /\ s[i] = req
      BY <1>8, <3>2
    <3>3. QED
      BY <2>2, <2>3, <2>4, <3>1, <3>2
  <2>6. CASE req \notin submitted
    BY <1>8, <2>2, <2>6
  <2>7. QED
    BY <2>5, <2>6
<1>15. QED
  BY <1>9, <1>10, <1>11, <1>12, <1>13, <1>14 DEF RequestInv

\* Nothing moves.
LEMMA RequestInvKept ==
  ASSUME RequestInv, UNCHANGED <<requestQ, proposed, submitted>>
  PROVE  RequestInv'
BY DEF RequestInv, QueuedSubmitted, ProposedSubmitted, QueuedOnce, ProposedOnce,
       NotQueuedAndProposed, NoneLost

\* A request that was never submitted is appended to one queue.
LEMMA SubmitRequestInv ==
  ASSUME TypeInv, RequestInv, NEW r \in Replica, NEW req \in Request, SubmitRequest(r, req)
  PROVE  RequestInv'
<1> DEFINE s == requestQ[r]
           n == Len(s)
<1>1. /\ req \notin submitted /\ submitted' = submitted \cup {req}
      /\ requestQ' = [requestQ EXCEPT ![r] = Append(s, req)]
      /\ proposed' = proposed
  BY DEF SubmitRequest
<1>2. requestQ \in [Replica -> Seq(Request)] /\ s \in Seq(Request) /\ n \in Nat
  BY DEF TypeInv, TypeOK
<1>3. /\ \A q \in Replica \ {r} : requestQ'[q] = requestQ[q]
      /\ DOMAIN requestQ[r] = 1 .. n /\ DOMAIN requestQ'[r] = 1 .. n + 1
      /\ \A i \in 1 .. n : requestQ'[r][i] = requestQ[r][i]
      /\ requestQ'[r][n + 1] = req
  BY <1>1, <1>2
<1> HIDE DEF s, n
<1>4. ASSUME NEW q \in Replica, NEW i \in DOMAIN requestQ'[q]
      PROVE  \/ i \in DOMAIN requestQ[q] /\ requestQ'[q][i] = requestQ[q][i]
             \/ q = r /\ i = n + 1 /\ requestQ'[q][i] = req
  BY <1>2, <1>3
<1>5. \A q \in Replica : \A i \in DOMAIN requestQ[q] : requestQ[q][i] # req
  BY <1>1 DEF RequestInv, QueuedSubmitted
<1>6. \A k \in DOMAIN proposed : \A i \in DOMAIN proposed[k].batch : proposed[k].batch[i] # req
  BY <1>1 DEF RequestInv, ProposedSubmitted
<1>7. QueuedSubmitted'
  BY <1>1, <1>4 DEF RequestInv, QueuedSubmitted
<1>8. ProposedSubmitted' /\ ProposedOnce'
  BY <1>1 DEF RequestInv, ProposedSubmitted, ProposedOnce
<1>9. QueuedOnce'
  <2>1. SUFFICES ASSUME NEW p \in Replica, NEW q \in Replica,
                        NEW i \in DOMAIN requestQ'[p], NEW j \in DOMAIN requestQ'[q],
                        requestQ'[p][i] = requestQ'[q][j]
                 PROVE  p = q /\ i = j
    BY DEF QueuedOnce
  <2>2. \/ i \in DOMAIN requestQ[p] /\ requestQ'[p][i] = requestQ[p][i]
        \/ p = r /\ i = n + 1 /\ requestQ'[p][i] = req
    BY <1>4
  <2>3. \/ j \in DOMAIN requestQ[q] /\ requestQ'[q][j] = requestQ[q][j]
        \/ q = r /\ j = n + 1 /\ requestQ'[q][j] = req
    BY <1>4
  <2>4. QED
    BY <1>5, <2>1, <2>2, <2>3 DEF RequestInv, QueuedOnce
<1>10. NotQueuedAndProposed'
  BY <1>1, <1>4, <1>6 DEF RequestInv, NotQueuedAndProposed
<1>11. NoneLost'
  <2>1. n + 1 \in DOMAIN requestQ'[r] /\ requestQ'[r][n + 1] = req
    BY <1>2, <1>3
  <2>2. ASSUME NEW q \in Replica, NEW i \in DOMAIN requestQ[q]
        PROVE  i \in DOMAIN requestQ'[q] /\ requestQ'[q][i] = requestQ[q][i]
    BY <1>2, <1>3
  <2>3. QED
    BY <1>1, <2>1, <2>2 DEF RequestInv, NoneLost
<1>12. QED
  BY <1>7, <1>8, <1>9, <1>10, <1>11 DEF RequestInv

LEMMA InitRequestInv == Init => RequestInv
BY DEF Init, RequestInv, QueuedSubmitted, ProposedSubmitted, QueuedOnce, ProposedOnce,
       NotQueuedAndProposed, NoneLost

LEMMA NextRequestInv == TypeInv /\ RequestInv /\ [Next]_vars => RequestInv'
<1> SUFFICES ASSUME TypeInv, RequestInv, [Next]_vars PROVE RequestInv'
  OBVIOUS
<1>1. CASE UNCHANGED vars
  BY <1>1, RequestInvKept DEF vars
<1>2. ASSUME NEW r \in Replica, NEW m \in net, Receive(r, m) PROVE RequestInv'
  <2>1. CASE FormQC(r, m)
    BY <2>1, FormQCMeans, ProposeRequestInv DEF TypeInv
  <2>2. CASE ProposeOnNewViews(r, m)
    BY <2>2, ProposeRequestInv DEF ProposeOnNewViews
  <2>3. CASE StoreBlock(r, m) \/ IgnorePropose(r, m) \/ HandlePropose(r, m)
    BY <2>3, RequestInvKept DEF StoreBlock, IgnorePropose, HandlePropose
  <2>4. CASE DropVote(r, m) \/ CollectVote(r, m) \/ CollectNewView(r, m)
    BY <2>4, RequestInvKept DEF DropVote, CollectVote, CollectNewView
  <2>5. QED
    BY <1>2, <2>1, <2>2, <2>3, <2>4 DEF Receive
<1>3. ASSUME NEW r \in Replica, NEW req \in Request, SubmitRequest(r, req) PROVE RequestInv'
  BY <1>3, SubmitRequestInv
<1>4. ASSUME NEW r \in Replica, TimeoutBegin(r) \/ OnTimeout(r) \/ TimeoutEnd(r)
      PROVE  RequestInv'
  BY <1>4, RequestInvKept DEF TimeoutBegin, OnTimeout, TimeoutEnd
<1>5. QED
  BY <1>1, <1>2, <1>3, <1>4 DEF Next

LEMMA RequestInvConserves == RequestInv => RequestsConserved
<1> SUFFICES ASSUME RequestInv, NEW req \in submitted PROVE Cardinality(Occurrences(req)) = 1
  BY DEF RequestsConserved
<1> DEFINE Queued(q, i)   == i \in DOMAIN requestQ[q] /\ requestQ[q][i] = req
           Included(k, i) == i \in DOMAIN proposed[k].batch /\ proposed[k].batch[i] = req
<1>1. \A p : p \in Occurrences(req) <=>
        \/ \E q \in Replica : \E i \in DOMAIN requestQ[q] :
             Queued(q, i) /\ p = <<"queue", q, i>>
        \/ \E k \in DOMAIN proposed : \E i \in DOMAIN proposed[k].batch :
             Included(k, i) /\ p = <<"block", k, i>>
  <2> DEFINE InQueue(q) == {i \in DOMAIN requestQ[q] : requestQ[q][i] = req}
             InBlock(k) == {i \in DOMAIN proposed[k].batch : proposed[k].batch[i] = req}
             QueuePlaces(q) == {<<"queue", q, i>> : i \in InQueue(q)}
             BlockPlaces(k) == {<<"block", k, i>> : i \in InBlock(k)}
  <2>1. Occurrences(req) = (UNION {QueuePlaces(q) : q \in Replica})
                             \cup (UNION {BlockPlaces(k) : k \in DOMAIN proposed})
    BY Zenon DEF Occurrences
  <2>2. \A q, p : p \in QueuePlaces(q) <=>
          \E i \in DOMAIN requestQ[q] : Queued(q, i) /\ p = <<"queue", q, i>>
    BY Zenon
  <2>3. \A k, p : p \in BlockPlaces(k) <=>
          \E i \in DOMAIN proposed[k].batch : Included(k, i) /\ p = <<"block", k, i>>
    BY Zenon
  <2> HIDE DEF QueuePlaces, BlockPlaces, Queued, Included
  <2>4. \A p : p \in Occurrences(req) <=> \/ \E q \in Replica : p \in QueuePlaces(q)
                                          \/ \E k \in DOMAIN proposed : p \in BlockPlaces(k)
    BY <2>1
  <2>5. QED
    BY <2>2, <2>3, <2>4
<1>2. \E p : Occurrences(req) = {p}
  <2>1. ASSUME NEW q \in Replica, NEW i \in DOMAIN requestQ[q], Queued(q, i)
        PROVE  Occurrences(req) = {<<"queue", q, i>>}
    <3>1. \A o \in Replica : \A j \in DOMAIN requestQ[o] : Queued(o, j) => o = q /\ j = i
      BY <2>1 DEF RequestInv, QueuedOnce
    <3>2. \A k \in DOMAIN proposed : \A j \in DOMAIN proposed[k].batch : ~Included(k, j)
      BY <2>1 DEF RequestInv, NotQueuedAndProposed
    <3> HIDE DEF Queued, Included
    <3>3. QED
      BY <1>1, <2>1, <3>1, <3>2, Zenon
  <2>2. ASSUME NEW k \in DOMAIN proposed, NEW i \in DOMAIN proposed[k].batch, Included(k, i)
        PROVE  Occurrences(req) = {<<"block", k, i>>}
    <3>1. \A l \in DOMAIN proposed : \A j \in DOMAIN proposed[l].batch :
            Included(l, j) => l = k /\ j = i
      BY <2>2 DEF RequestInv, ProposedOnce
    <3>2. \A q \in Replica : \A j \in DOMAIN requestQ[q] : ~Queued(q, j)
      BY <2>2 DEF RequestInv, NotQueuedAndProposed
    <3> HIDE DEF Queued, Included
    <3>3. QED
      BY <1>1, <2>2, <3>1, <3>2, Zenon
  <2>3. QED
    BY <2>1, <2>2 DEF RequestInv, NoneLost
<1>3. QED
  BY <1>2, FS_Singleton

(***************************************************************************)
(* A submitted request is never lost and never proposed twice, whichever   *)
(* replica it was handed to, however full its queue and whichever replica  *)
(* proposes (dhotstuff.go:306-343).                                        *)
(***************************************************************************)
THEOREM EngineRequestsConserved == Spec => []RequestsConserved
BY InitRequestInv, NextRequestInv, SpecTypeInv, RequestInvConserves, PTL DEF Spec

=============================================================================
