------------------------- MODULE BenchClusterProofs -------------------------
(***************************************************************************)
(* The benchmark clusters, for every genesis committee NewBenchCluster can *)
(* make, every batch and every number of rounds and resets: every replica  *)
(* vouches for every block, the certificates made while the genesis        *)
(* committee rules are valid, leaders turn fairly, and every block is      *)
(* counted once, when it is four behind the last one.                      *)
(*                                                                         *)
(* The argument: the tip of the chain is stored and carries the            *)
(* certificate before the last one, so the replicas are locked one         *)
(* certificate behind, and views only grow within a run.                   *)
(***************************************************************************)
EXTENDS BenchCluster, MembershipProofs

\* The first committee is a genesis committee, and Apply computed the others' caps.
CommitteesMade ==
  /\ configs[1] \in Clusters
  /\ \A i \in DOMAIN configs : configs[i].faultCap = FaultCap(Len(configs[i].replicas))

\* A block is of a committee in the store: deliver always finds it.
BlocksInstalled == \A b \in chain : Installed(configs, b.conf)

\* A benchmark has the views it still needs; only repbench runs one.
ViewsLeft ==
  /\ curView + bench.left <= MaxView + 1
  /\ mode = "plain" => bench.left = 0

\* The last certified block is stored; its certificate is older than the last one.
TipCertified ==
  /\ Get(chain, lastHash) # {}
  /\ \A tip \in Get(chain, lastHash) :
       tip.justify = NoQC \/ tip.justify.view < genericQC.view
  /\ genericQC.view < curView

\* No block in the window can be replaced by the next one.
WindowBehind == \A i \in DOMAIN window : window[i].height < curHeight

\* The certificate the next block will carry.
LastValidates ==
  curHeight > 1 /\ genericQC.conf = 0 => ValidateQC(genericQC, configs[1])

IInv ==
  /\ TypeOK /\ CommitteesMade /\ BlocksInstalled /\ ViewsLeft
  /\ TipCertified /\ EveryoneVouches /\ WindowBehind
  /\ LastValidates /\ CertificatesValidate

-----------------------------------------------------------------------------
\* The committees of the store, and the keys made for the first.
LEMMA StoreFacts ==
  ASSUME TypeOK, CommitteesMade
  PROVE  /\ Latest(configs) \in Committee
         /\ Latest(configs).faultCap = FaultCap(Len(Latest(configs).replicas))
         /\ Latest(configs).number = 0 => Latest(configs) = configs[1]
         /\ configs[1] \in Committee /\ configs[1].number = 0
         /\ configs[1].faultCap = FaultCap(Len(configs[1].replicas))
         /\ Len(configs[1].replicas) >= 4 /\ Distinct(configs[1].replicas)
         /\ Keys \in Seq(Member)
<1>1. /\ configs \in Seq(Committee) /\ Len(configs) \in Nat /\ Len(configs) >= 1
      /\ \A i \in DOMAIN configs : configs[i].number = i - 1
  BY DEF TypeOK, IsStore
<1>2. Len(configs) \in DOMAIN configs /\ 1 \in DOMAIN configs
  BY <1>1
<1>3. /\ configs[1] \in Committee
      /\ configs[1] = NewCommittee(0, configs[1].replicas)
      /\ Len(configs[1].replicas) >= 4 /\ Distinct(configs[1].replicas)
  BY BenchAssumption DEF CommitteesMade, Distinct
<1>4. configs[1].number = 0
  BY <1>1, <1>2
<1>5. Keys \in Seq(Member)
  BY <1>3 DEF Keys, Committee
<1>6. Latest(configs).number = 0 => Latest(configs) = configs[1]
  BY <1>1, <1>2 DEF Latest
<1>7. Latest(configs) \in Committee
  BY <1>1, <1>2 DEF Latest
<1>8. QED
  BY <1>2, <1>3, <1>4, <1>5, <1>6, <1>7 DEF Latest, CommitteesMade

\* A committee of the store has a quorum of members.
LEMMA QuorumFits ==
  ASSUME NEW c \in Committee, c.faultCap = FaultCap(Len(c.replicas)), c.replicas # << >>
  PROVE  QuorumSize(c) \in Nat /\ QuorumSize(c) >= 1 /\ QuorumSize(c) <= Len(c.replicas)
<1>1. c.number \in Nat /\ c.replicas \in Seq(Member) /\ c.faultCap \in Nat
  BY DEF Committee
<1>2. LET d == NewCommittee(c.number, c.replicas)
      IN  QuorumSize(d) <= Len(d.replicas) - d.faultCap
  BY <1>1, QuorumAvailable
<1>3. QuorumSize(c) <= Len(c.replicas) - c.faultCap
  BY <1>2 DEF NewCommittee, QuorumSize
<1>4. Len(c.replicas) \in Nat
  BY <1>1
<1>5. QuorumSize(c) \in Nat /\ QuorumSize(c) >= 1
  BY <1>1, <1>4 DEF QuorumSize
<1>6. QED
  BY <1>1, <1>3, <1>4, <1>5

-----------------------------------------------------------------------------
\* What a round signs, before the votes are aggregated.
Signed(c, hash) ==
  [i \in 1 .. IF QuorumSize(c) < Len(Keys) THEN QuorumSize(c) ELSE Len(Keys)
     |-> VoteOf(i, c, hash)]

\* The votes of a round are votes for its block, in its view and configuration.
LEMMA SignedType ==
  ASSUME NEW c \in Committee, c.faultCap = FaultCap(Len(c.replicas)), c.replicas # << >>,
         Keys \in Seq(Member), curView \in Nat, NEW hash \in Hash
  PROVE  /\ Signed(c, hash) \in Seq(Vote)
         /\ \A i \in DOMAIN Signed(c, hash) :
              /\ i \in DOMAIN c.replicas /\ i \in DOMAIN Keys
              /\ Signed(c, hash)[i] = VoteOf(i, c, hash)
         /\ DOMAIN Signed(c, hash)
              = 1 .. IF QuorumSize(c) < Len(Keys) THEN QuorumSize(c) ELSE Len(Keys)
<1> DEFINE n == IF QuorumSize(c) < Len(Keys) THEN QuorumSize(c) ELSE Len(Keys)
<1>1. c.number \in Nat /\ c.replicas \in Seq(Member)
  BY DEF Committee
<1>2. QuorumSize(c) \in Nat /\ QuorumSize(c) <= Len(c.replicas)
  BY QuorumFits
<1>3. n \in Nat /\ n <= Len(c.replicas) /\ n <= Len(Keys)
  BY <1>1, <1>2
<1>4. Signed(c, hash) = [i \in 1 .. n |-> VoteOf(i, c, hash)]
  BY DEF Signed
<1> HIDE DEF n
<1>5. \A i \in 1 .. n : i \in DOMAIN c.replicas /\ i \in DOMAIN Keys
  BY <1>1, <1>3
<1>6. ASSUME NEW i \in 1 .. n PROVE VoteOf(i, c, hash) \in Vote
  <2>1. c.replicas[i] \in Member /\ Keys[i] \in Member
    <3>1. c.replicas[i] \in Member
      BY <1>1, <1>5
    <3>2. Keys[i] \in Member
      BY <1>5
    <3>3. QED
      BY <3>1, <3>2
  <2>2. QED
    BY <1>1, <2>1 DEF VoteOf, Vote, Signature, Sign, Member
<1>7. QED
  BY <1>3, <1>4, <1>5, <1>6 DEF n

LEMMA VotesFromSigned ==
  ASSUME NEW c \in Committee, c.faultCap = FaultCap(Len(c.replicas)), c.replicas # << >>,
         Keys \in Seq(Member), curView \in Nat, NEW hash \in Hash
  PROVE  /\ Votes(c, hash) = DistinctVotes(Signed(c, hash))
         /\ OnePerSigner(Votes(c, hash), Signed(c, hash), Signers(Signed(c, hash)))
<1>1. Votes(c, hash) = DistinctVotes(Signed(c, hash))
  BY DEF Votes, Signed
<1>2. QED
  BY <1>1, SignedType, DistinctVotesOnePerSigner

(***************************************************************************)
(* The certificate of a round is one for its block, in its view and        *)
(* configuration.                                                          *)
(***************************************************************************)
LEMMA CertificateType ==
  ASSUME NEW c \in Committee, c.faultCap = FaultCap(Len(c.replicas)), c.replicas # << >>,
         Keys \in Seq(Member), curView \in Nat, NEW hash \in Hash,
         NEW qc \in CreateQC(Votes(c, hash), c)
  PROVE  qc \in QuorumCert /\ qc.view = curView /\ qc.conf = c.number /\ qc.hash = hash
<1> DEFINE votes == Votes(c, hash)
<1>1. OnePerSigner(votes, Signed(c, hash), Signers(Signed(c, hash)))
  BY VotesFromSigned
<1>2. votes \in Seq(Vote)
  BY <1>1 DEF OnePerSigner
<1>3. HasQuorum(votes, c) /\ qc = Certificate(votes, c)
  BY <1>2, CreateQCAgrees
<1>4. qc \in QuorumCert /\ 1 \in DOMAIN votes
  BY <1>2, <1>3, CertificateSigned
<1>5. PICK j \in DOMAIN Signed(c, hash) : votes[1] = Signed(c, hash)[j]
  BY <1>1, <1>4 DEF OnePerSigner
<1>6. votes[1] = VoteOf(j, c, hash)
  BY <1>5, SignedType
<1>7. votes[1].view = curView /\ votes[1].conf = c.number /\ votes[1].hash = hash
  BY <1>6 DEF VoteOf
<1> HIDE DEF votes
<1>8. QED
  BY <1>3, <1>4, <1>7 DEF Certificate

\* The first committee signs as itself: its certificates are valid.
LEMMA CertificateValidates ==
  ASSUME TypeOK, CommitteesMade, NEW hash \in Hash,
         NEW qc \in CreateQC(Votes(configs[1], hash), configs[1])
  PROVE  ValidateQC(qc, configs[1])
<1> DEFINE c == configs[1]
           s == Signed(c, hash)
           votes == Votes(c, hash)
<1>1. /\ c \in Committee /\ c.faultCap = FaultCap(Len(c.replicas)) /\ c.replicas # << >>
      /\ Keys \in Seq(Member) /\ curView \in Nat
  BY StoreFacts, BenchAssumption DEF TypeOK
<1>2. /\ s \in Seq(Vote)
      /\ \A i \in DOMAIN s : i \in DOMAIN c.replicas /\ s[i] = VoteOf(i, c, hash)
  BY <1>1, SignedType
<1>3. OnePerSigner(votes, s, Signers(s))
  BY <1>1, VotesFromSigned
<1>4. votes \in Seq(Vote) /\ \A i \in DOMAIN votes : \E j \in DOMAIN s : votes[i] = s[j]
  BY <1>3 DEF OnePerSigner
<1>5. HasQuorum(votes, c)
  BY <1>1, <1>4, CreateQCAgrees
<1>6. 1 \in DOMAIN votes
  BY <1>1, <1>4, <1>5, CertificateSigned
<1>7. ASSUME NEW i \in DOMAIN votes
      PROVE  Verify(votes[i]) /\ votes[i].signer \in MemberIds(c) /\ votes[i].hash = hash
  <2>1. PICK j \in DOMAIN s : votes[i] = s[j]
    BY <1>4
  <2>2. votes[i] = VoteOf(j, c, hash) /\ j \in DOMAIN c.replicas
    BY <1>2, <2>1
  <2> HIDE DEF s, votes
  <2>3. QED
    BY <2>2 DEF VoteOf, Verify, MemberIds, Keys
<1>8. Unanimous(votes, c)
  <2> HIDE DEF s, votes
  <2>1. QED
    BY <1>6, <1>7 DEF Unanimous
<1>9. QuorumOf(votes, c).ok
  BY <1>1, <1>4, <1>5, QuorumOfAgrees
<1>10. qc \in CreateQC(votes, c)
  OBVIOUS
<1> HIDE DEF s, c, votes
<1>11. PICK x : CreateQC(votes, c) = {x} /\ ValidateQC(x, c)
  BY <1>1, <1>4, <1>8, <1>9, QuorumCertifies
<1>12. ValidateQC(qc, c)
  BY <1>10, <1>11
<1>13. QED
  BY <1>12 DEF c

\* The first committee lists nobody twice, so its keys make a quorum: no round
\* with an honest leader fails to certify its block.
LEMMA KeysSuffice ==
  ASSUME TypeOK, CommitteesMade, NEW hash \in Hash
  PROVE  CreateQC(Votes(configs[1], hash), configs[1]) # {}
<1> DEFINE c == configs[1]
           s == Signed(c, hash)
           q == QuorumSize(c)
<1>1. /\ c \in Committee /\ c.faultCap = FaultCap(Len(c.replicas)) /\ c.replicas # << >>
      /\ Keys \in Seq(Member) /\ curView \in Nat /\ Distinct(c.replicas)
      /\ c.replicas \in Seq(Member)
  BY StoreFacts, BenchAssumption DEF TypeOK, Committee
<1>2. q \in Nat /\ q <= Len(Keys)
  BY <1>1, QuorumFits DEF Keys
<1>3. /\ s \in Seq(Vote)
      /\ \A i \in DOMAIN s : i \in DOMAIN c.replicas /\ s[i] = VoteOf(i, c, hash)
      /\ DOMAIN s = 1 .. IF q < Len(Keys) THEN q ELSE Len(Keys)
  BY <1>1, SignedType
<1>4. DOMAIN s = 1 .. q
  <2>1. (IF q < Len(Keys) THEN q ELSE Len(Keys)) = q
    BY <1>1, <1>2
  <2>2. QED
    BY <1>3, <2>1
<1>5. OnePerSigner(s, s, Signers(s))
  <2> HIDE DEF s, c
  <2>1. ASSUME NEW i \in DOMAIN s PROVE s[i].signer = c.replicas[i].id
    <3>1. s[i] = VoteOf(i, c, hash)
      BY <1>3, Zenon
    <3>2. QED
      BY <3>1 DEF VoteOf
  <2>2. \A i, j \in DOMAIN s : s[i].signer = s[j].signer => i = j
    BY <2>1, <1>1, <1>3 DEF Distinct
  <2>3. QED
    BY <1>3, <2>2 DEF OnePerSigner
<1>6. Cardinality(Signers(s)) = Len(s)
  BY <1>5, AsManyAsSigners
<1>7. Signers(Votes(c, hash)) = Signers(s) /\ Votes(c, hash) \in Seq(Vote)
  BY <1>1, VotesFromSigned DEF OnePerSigner
<1>8. Len(s) = q
  <2> HIDE DEF s, q
  <2>1. QED
    BY <1>2, <1>3, <1>4
<1>9. HasQuorum(Votes(c, hash), c)
  <2> HIDE DEF q, s
  <2>1. Cardinality(Signers(Votes(c, hash))) = q
    BY <1>6, <1>7, <1>8
  <2>2. QED
    BY <1>2, <2>1 DEF HasQuorum, q
<1>10. QED
  BY <1>1, <1>7, <1>9, CreateQCAgrees

-----------------------------------------------------------------------------
\* The block a round proposes.
LEMMA NextBlockType ==
  ASSUME TypeOK, NEW batch \in Seq(MembershipRequest), NEW conf \in Nat
  PROVE  LET b == NextBlock(batch, conf)
         IN  /\ b \in Block /\ HashBlock(b) \in Hash /\ HashBlock(b) # lastHash
             /\ b.parent = lastHash /\ b.height = curHeight /\ b.justify = genericQC
<1>1. lastHash \in Seq(Int) /\ curHeight \in Nat /\ genericQC \in QuorumCert
  BY BenchAssumption DEF TypeOK, Hash
<1>2. NextBlock(batch, conf) \in Block
  BY <1>1 DEF NextBlock, Block, Hash
<1>3. Append(lastHash, curHeight) \in Seq(Int) /\ Append(lastHash, curHeight) # lastHash
  <2>1. Len(Append(lastHash, curHeight)) = Len(lastHash) + 1
    BY <1>1
  <2>2. Len(lastHash) \in Nat
    BY <1>1
  <2>3. Append(lastHash, curHeight) # lastHash
    BY <2>1, <2>2
  <2>4. QED
    BY <1>1, <2>3
<1>4. HashBlock(NextBlock(batch, conf)) = Append(lastHash, curHeight)
  BY DEF HashBlock, NextBlock
<1>5. QED
  BY <1>2, <1>3, <1>4 DEF NextBlock, Hash

\* Storing it replaces blocks of its height only, and not the tip.
LEMMA PutNext ==
  ASSUME TypeOK, NEW b \in Block, HashBlock(b) # lastHash, b.height = curHeight
  PROVE  /\ Put(chain, b) \subseteq Block
         /\ \A x \in Put(chain, b) : x \in chain \/ x = b
         /\ b \in Put(chain, b)
         /\ \A x \in chain : x.height < curHeight => x \in Put(chain, b)
         /\ Get(Put(chain, b), HashBlock(b)) = {b}
         /\ Get(Put(chain, b), lastHash) = Get(chain, lastHash)
<1>1. chain \subseteq Block /\ curHeight \in Nat
  BY BenchAssumption DEF TypeOK
<1>2. ASSUME NEW x \in chain, x.height < curHeight PROVE HashBlock(x) # HashBlock(b)
  <2>1. /\ x.parent \in Seq(Int) /\ x.height \in Int
        /\ b.parent \in Seq(Int) /\ b.height \in Int
    BY <1>1 DEF Block, Hash
  <2>2. x.height # b.height
    BY <1>1, <1>2, <2>1
  <2>3. Append(x.parent, x.height) # Append(b.parent, b.height)
    BY <2>1, <2>2, AppendInjective
  <2>4. QED
    BY <2>3 DEF HashBlock
<1>3. Put(chain, b) = {x \in chain : HashBlock(x) # HashBlock(b)} \cup {b}
  BY DEF Put, Get
<1>4. Get(Put(chain, b), lastHash) = Get(chain, lastHash)
  BY <1>3 DEF Get
<1>5. Get(Put(chain, b), HashBlock(b)) = {b}
  BY <1>3 DEF Get
<1>6. QED
  BY <1>1, <1>2, <1>3, <1>4, <1>5

\* The last three of four.
LEMMA TailOfFour ==
  ASSUME NEW S, NEW w \in Seq(S), Len(w) = 4
  PROVE  /\ Tail(w) \in Seq(S) /\ Len(Tail(w)) = 3
         /\ \A i \in 1 .. 3 : Tail(w)[i] = w[i + 1]
<1>1. w # << >>
  BY EmptySeq
<1>2. /\ Tail(w) \in Seq(S) /\ Len(Tail(w)) = Len(w) - 1
      /\ \A i \in 1 .. Len(Tail(w)) : Tail(w)[i] = w[i + 1]
  BY <1>1, HeadTailProperties
<1>3. Len(Tail(w)) = 3
  BY <1>2
<1>4. QED
  BY <1>2, <1>3, Zenon

\* A window of stored blocks slides over stored blocks.
LEMMA SlideType ==
  ASSUME NEW w, w \in Seq(chain), Len(w) <= 4, NEW b, NEW S,
         b \in S, \A i \in DOMAIN w : w[i] \in S
  PROVE  /\ Slide(w, b) \in Seq(S) /\ Len(Slide(w, b)) <= 4
         /\ \A i \in DOMAIN Slide(w, b) :
              Slide(w, b)[i] = b \/ \E j \in DOMAIN w : Slide(w, b)[i] = w[j]
<1> DEFINE t == IF Len(w) = 4 THEN Tail(w) ELSE w
<1>1. w \in Seq(S) /\ Len(w) \in Nat /\ Len(w) <= 4 /\ DOMAIN w = 1 .. Len(w)
  BY SeqEqual
<1>2. /\ t \in Seq(S) /\ Len(t) \in Nat /\ Len(t) <= 3 /\ DOMAIN t = 1 .. Len(t)
      /\ \A i \in 1 .. Len(t) : \E j \in DOMAIN w : t[i] = w[j]
  <2>1. CASE Len(w) = 4
    <3>1. t = Tail(w)
      BY <2>1
    <3>2. /\ Tail(w) \in Seq(S) /\ Len(Tail(w)) = 3
          /\ \A i \in 1 .. 3 : Tail(w)[i] = w[i + 1]
      BY <1>1, <2>1, TailOfFour
    <3> HIDE DEF t
    <3>3. \A i \in 1 .. 3 : i + 1 \in DOMAIN w
      BY <1>1, <2>1
    <3>4. \A i \in 1 .. 3 : \E j \in DOMAIN w : t[i] = w[j]
      BY <3>1, <3>2, <3>3
    <3>5. DOMAIN t = 1 .. Len(t) /\ Len(t) = 3
      BY <3>1, <3>2
    <3>6. QED
      BY <3>1, <3>2, <3>4, <3>5
  <2>2. CASE Len(w) # 4
    <3>1. t = w
      BY <2>2
    <3> HIDE DEF t
    <3>2. QED
      BY <1>1, <2>2, <3>1
  <2>3. QED
    BY <2>1, <2>2
<1>3. Slide(w, b) = Append(t, b)
  BY DEF Slide
<1> HIDE DEF t
<1>4. /\ Append(t, b) \in Seq(S) /\ Len(Append(t, b)) = Len(t) + 1
      /\ DOMAIN Append(t, b) = 1 .. Len(t) + 1
      /\ \A i \in 1 .. Len(t) : Append(t, b)[i] = t[i]
      /\ Append(t, b)[Len(t) + 1] = b
  BY <1>2, AppendProperties
<1>5. \A i \in 1 .. Len(t) + 1 : i \in 1 .. Len(t) \/ i = Len(t) + 1
  BY <1>2
<1>6. QED
  BY <1>2, <1>3, <1>4, <1>5

-----------------------------------------------------------------------------
\* What leaves the window is a stored block.
LEMMA LeavingType ==
  ASSUME TypeOK
  PROVE  /\ Leaving(window) \subseteq chain
         /\ Leaving(window) # {} => (CHOOSE x \in Leaving(window) : TRUE) \in chain
<1>1. Leaving(window) \subseteq chain
  <2>1. window \in Seq(chain)
    BY DEF TypeOK
  <2>2. Len(window) = 4 => window[1] \in chain
    BY <2>1
  <2>3. QED
    BY <2>2 DEF Leaving
<1>2. QED
  BY <1>1

\* Delivering a block installs a successor of the latest committee, or nothing.
LEMMA ReconfiguredType ==
  ASSUME TypeOK, CommitteesMade, NEW b \in Block, Installed(configs, b.conf)
  PROVE  LET new == Reconfigured(configs, b)
         IN  /\ IsStore(new) /\ new[1] = configs[1] /\ Len(new) >= Len(configs)
             /\ \A i \in DOMAIN new : new[i].faultCap = FaultCap(Len(new[i].replicas))
<1> DEFINE reqs == MembershipRequests(b.batch)
           next == Apply(AtNumber(configs, b.conf), reqs)
           new  == Reconfigured(configs, b)
<1>1. /\ configs \in Seq(Committee) /\ Len(configs) \in Nat /\ Len(configs) >= 1
      /\ \A i \in DOMAIN configs : configs[i].number = i - 1
      /\ \A i \in DOMAIN configs : configs[i].faultCap = FaultCap(Len(configs[i].replicas))
  BY DEF TypeOK, IsStore, CommitteesMade
<1>2. AtNumber(configs, b.conf) \in Committee
  <2>1. b.conf \in Nat /\ b.conf < Len(configs)
    BY DEF Block, Installed
  <2>2. b.conf + 1 \in DOMAIN configs
    BY <1>1, <2>1
  <2>3. QED
    BY <1>1, <2>2 DEF AtNumber
<1>3. next.committee \in Committee
      /\ next.committee.faultCap = FaultCap(Len(next.committee.replicas))
  BY <1>2, MembershipRequestsType, ApplyType
<1>4. CASE new = configs
  BY <1>1, <1>4 DEF IsStore, TypeOK
<1>5. CASE new = Append(configs, next.committee) /\ next.committee.number = Len(configs)
  <2> DEFINE c == next.committee
  <2>1. c \in Committee /\ c.number = Len(configs) /\ c.faultCap = FaultCap(Len(c.replicas))
    BY <1>3, <1>5
  <2>2. new = Append(configs, c)
    BY <1>5
  <2> HIDE DEF c, new
  <2>3. /\ new \in Seq(Committee) /\ new # << >> /\ Len(new) = Len(configs) + 1
        /\ \A i \in 1 .. Len(configs) : new[i] = configs[i]
        /\ new[Len(configs) + 1] = c
    BY <1>1, <2>1, <2>2, AppendProperties
  <2>4. DOMAIN new = 1 .. Len(configs) + 1 /\ DOMAIN configs = 1 .. Len(configs)
    BY <1>1, <2>3
  <2>5. ASSUME NEW i \in DOMAIN new
        PROVE  new[i].number = i - 1 /\ new[i].faultCap = FaultCap(Len(new[i].replicas))
    <3>1. CASE i \in 1 .. Len(configs)
      BY <1>1, <2>3, <2>4, <3>1
    <3>2. CASE i = Len(configs) + 1
      BY <1>1, <2>1, <2>3, <3>2
    <3>3. QED
      BY <1>1, <2>4, <3>1, <3>2
  <2>6. new[1] = configs[1]
    BY <1>1, <2>3
  <2>7. QED
    BY <1>1, <2>3, <2>5, <2>6 DEF IsStore, new
<1>6. QED
  BY <1>4, <1>5 DEF Reconfigured, Installable

-----------------------------------------------------------------------------
\* The certificate chain after a round, the configurations aside.
Linked ==
  /\ TipCertified /\ EveryoneVouches /\ WindowBehind
  /\ curHeight \in 1 .. curView
  /\ genericQC \in QuorumCert /\ lastHash \in Hash
  /\ chain \subseteq Block
  /\ safety \in [DOMAIN configs[1].replicas -> [locked : QuorumCert, generic : QuorumCert]]
  /\ window \in Seq(chain) /\ Len(window) <= 4
  /\ delivered \in Nat

\* A round that certifies the next block in the current view keeps it linked.
LEMMA CertifiedLinked ==
  ASSUME IInv, NEW batch \in Seq(MembershipRequest), NEW conf \in Nat,
         NEW qc \in QuorumCert, qc.view = curView,
         Certified(NextBlock(batch, conf), qc), configs'[1] = configs[1]
  PROVE  Linked'
<1> PICK b \in Block : b = NextBlock(batch, conf)
  BY NextBlockType DEF IInv
<1>1. /\ TypeOK /\ TipCertified /\ EveryoneVouches /\ WindowBehind
      /\ curView \in Nat /\ curHeight \in Nat /\ curHeight >= 1 /\ curHeight <= curView
  BY BenchAssumption DEF IInv, TypeOK
<1>2. /\ HashBlock(b) \in Hash /\ HashBlock(b) # lastHash
      /\ b.parent = lastHash /\ b.height = curHeight /\ b.justify = genericQC
  BY <1>1, NextBlockType
<1>3. /\ chain' \subseteq Block /\ b \in chain'
      /\ \A x \in chain : x.height < curHeight => x \in chain'
      /\ Get(chain', HashBlock(b)) = {b}
      /\ Get(chain', lastHash) = Get(chain, lastHash)
  BY <1>1, <1>2, PutNext DEF Certified
<1>4. /\ safety' = [i \in DOMAIN safety |-> Vouch(safety[i], b, qc, chain')]
      /\ window' = Slide(window, b)
      /\ genericQC' = qc /\ lastHash' = HashBlock(b)
      /\ curView' = curView + 1 /\ curHeight' = curHeight + 1
  BY DEF Certified
<1>5. genericQC \in QuorumCert /\ genericQC.view \in Nat /\ genericQC.view < curView
  BY <1>1 DEF TypeOK, TipCertified, QuorumCert
<1>6. TipCertified'
  <2>1. Get(chain', lastHash') = {b}
    BY <1>3, <1>4
  <2>2. b.justify.view < qc.view /\ qc.view < curView + 1
    BY <1>1, <1>2, <1>5
  <2>3. QED
    BY <1>4, <2>1, <2>2 DEF TipCertified
\* A replica locked one certificate behind vouches, and is locked one behind again.
<1>7. \A i \in DOMAIN safety' : safety'[i] = [generic |-> qc, locked |-> genericQC]
  <2>1. TAKE i \in DOMAIN safety'
  <2>2. PICK tip \in chain : HashBlock(tip) = lastHash
    BY <1>1 DEF TipCertified, Get
  <2>3. tip \in Get(chain, lastHash)
    BY <2>2 DEF Get
  <2>4. /\ safety[i] = [generic |-> genericQC, locked |-> tip.justify]
        /\ tip.justify = NoQC \/ tip.justify.view < genericQC.view
    BY <1>1, <1>4, <2>3 DEF EveryoneVouches, TipCertified
  <2>5. tip.justify.view \in Nat
    BY <1>1 DEF TypeOK, Block, QuorumCert
  <2>6. Get(chain', b.parent) # {}
    BY <1>2, <1>3, <2>3
  <2>7. Vouch(safety[i], b, qc, chain') = [generic |-> qc, locked |-> b.justify]
    <3>1. safety[i] = [generic |-> b.justify, locked |-> tip.justify]
      BY <1>2, <2>4
    <3>2. tip.justify = NoQC \/ tip.justify.view < b.justify.view
      BY <1>2, <2>4
    <3>3. b.justify.view \in Nat
      BY <1>2, <1>5
    <3>4. SafeNode(safety[i], b, chain')
      BY <2>5, <3>1, <3>2, <3>3 DEF SafeNode
    <3>5. QED
      BY <2>6, <3>1, <3>4 DEF Vouch
  <2>8. QED
    BY <1>2, <1>4, <2>7
<1>8. EveryoneVouches'
  BY <1>2, <1>3, <1>4, <1>7 DEF EveryoneVouches
<1>9. safety' \in [DOMAIN configs'[1].replicas -> [locked : QuorumCert, generic : QuorumCert]]
  <2>1. DOMAIN safety' = DOMAIN safety /\ DOMAIN safety = DOMAIN configs[1].replicas
    BY <1>1, <1>4 DEF TypeOK
  <2>2. \A i \in DOMAIN safety' : safety'[i] \in [locked : QuorumCert, generic : QuorumCert]
    BY <1>5, <1>7
  <2>3. safety' = [i \in DOMAIN safety' |-> safety'[i]]
    BY <1>4
  <2>4. QED
    BY <2>1, <2>2, <2>3
<1>10. /\ window \in Seq(chain) /\ Len(window) <= 4
       /\ \A i \in DOMAIN window : window[i] \in chain /\ window[i].height < curHeight
  BY <1>1 DEF TypeOK, WindowBehind
<1>11. /\ window' \in Seq(chain') /\ Len(window') <= 4
       /\ \A i \in DOMAIN window' :
            window'[i] = b \/ \E j \in DOMAIN window : window'[i] = window[j]
  BY <1>3, <1>4, <1>10, SlideType
<1>12. WindowBehind'
  <2>1. SUFFICES ASSUME NEW i \in DOMAIN window' PROVE window'[i].height < curHeight'
    BY DEF WindowBehind
  <2>2. CASE window'[i] = b
    BY <1>1, <1>2, <1>4, <2>2
  <2>3. ASSUME NEW j \in DOMAIN window, window'[i] = window[j]
        PROVE  window'[i].height < curHeight'
    <3>1. window[j].height \in Nat
      BY <1>1, <1>10 DEF TypeOK, Block
    <3>2. QED
      BY <1>1, <1>4, <1>10, <2>3, <3>1
  <2>4. QED
    BY <1>11, <2>2, <2>3 DEF WindowBehind
<1>13. delivered' \in Nat
  <2> DEFINE out == Leaving(window)
             n == IF out = {} THEN 0 ELSE Len((CHOOSE x \in out : TRUE).batch)
  <2>1. delivered' = delivered + n /\ delivered \in Nat
    BY <1>1 DEF Certified, TypeOK
  <2>2. n \in Nat
    <3>1. CASE out = {}
      BY <3>1
    <3>2. CASE out # {}
      <4>1. (CHOOSE x \in out : TRUE) \in Block
        BY <1>1, <3>2, LeavingType DEF TypeOK
      <4> HIDE DEF out
      <4>2. QED
        BY <3>2, <4>1 DEF Block
    <3>3. QED
      BY <3>1, <3>2
  <2> HIDE DEF n
  <2>3. QED
    BY <2>1, <2>2
<1>14. curHeight' \in 1 .. curView'
  BY <1>1, <1>4
<1>15. QED
  BY <1>2, <1>3, <1>4, <1>6, <1>8, <1>9, <1>11, <1>12, <1>13, <1>14 DEF Linked

-----------------------------------------------------------------------------
\* The certificates and the configurations after such a round.
LEMMA CertifiedValidates ==
  ASSUME IInv, NEW batch \in Seq(MembershipRequest), NEW conf \in Nat,
         Installed(configs, conf),
         NEW qc, qc.conf = 0 => ValidateQC(qc, configs[1]),
         Certified(NextBlock(batch, conf), qc),
         configs'[1] = configs[1], Len(configs') >= Len(configs),
         Len(configs) \in Nat, Len(configs') \in Nat
  PROVE  BlocksInstalled' /\ LastValidates' /\ CertificatesValidate'
<1> PICK b \in Block : b = NextBlock(batch, conf)
  BY NextBlockType DEF IInv
<1>1. /\ b.height = curHeight /\ b.justify = genericQC /\ b.conf = conf
      /\ HashBlock(b) # lastHash
  BY NextBlockType DEF IInv, NextBlock
<1>2. \A x \in chain' : x \in chain \/ x = b
  BY <1>1, PutNext DEF IInv, Certified
<1>3. genericQC' = qc
  BY DEF Certified
<1>4. BlocksInstalled'
  <2>1. SUFFICES ASSUME NEW x \in chain' PROVE Installed(configs', x.conf)
    BY DEF BlocksInstalled
  <2>2. Installed(configs, x.conf) /\ x \in Block
    BY <1>1, <1>2 DEF IInv, BlocksInstalled, TypeOK
  <2>3. QED
    BY <2>2 DEF Installed, Block
<1>5. LastValidates'
  BY <1>3 DEF LastValidates
<1>6. CertificatesValidate'
  <2>1. SUFFICES ASSUME NEW x \in chain', x.height > 1, x.justify.conf = 0
                 PROVE  ValidateQC(x.justify, configs'[1])
    BY DEF CertificatesValidate
  <2>2. CASE x \in chain
    BY <2>1, <2>2 DEF IInv, CertificatesValidate
  <2>3. CASE x = b
    BY <1>1, <2>1, <2>3 DEF IInv, LastValidates
  <2>4. QED
    BY <1>2, <2>2, <2>3
<1>7. QED
  BY <1>4, <1>5, <1>6

\* What a round leaves alone, once its chain is linked.
LEMMA TypeFromLinked ==
  ASSUME TypeOK, Linked', IsStore(configs'), configs'[1] = configs[1],
         curView' \in 1 .. MaxView + 1,
         UNCHANGED <<mode, faulty, resets>>, viewChanges' \in Nat,
         stats' \in [Replica -> ReplicaStats],
         bench' \in [left : Nat, batch : Seq(MembershipRequest), consec : Nat, worst : Nat]
  PROVE  TypeOK'
BY DEF TypeOK, Linked

LEMMA RunRoundIInv ==
  ASSUME IInv, NEW batch \in Batches, RunRound(batch)
  PROVE  IInv'
<1> DEFINE mc == Latest(configs)
<1>1. batch \in Seq(MembershipRequest) /\ MaxView \in Nat
  BY BenchAssumption
<1>2. /\ TypeOK /\ CommitteesMade /\ BlocksInstalled /\ ViewsLeft
      /\ curView \in Nat /\ Len(configs) \in Nat /\ Len(configs) >= 1
  BY BenchAssumption DEF IInv, TypeOK, IsStore
<1>3. /\ mc \in Committee /\ mc.faultCap = FaultCap(Len(mc.replicas))
      /\ mc.number = 0 => mc = configs[1]
      /\ Keys \in Seq(Member)
  BY <1>2, StoreFacts
<1>4. mc.number \in Nat /\ Installed(configs, mc.number)
  BY <1>2, <1>3 DEF Latest, TypeOK, IsStore, Installed, Committee
<1> HIDE DEF mc
<1>5. PICK b \in Block : b = NextBlock(batch, mc.number) /\ HashBlock(b) \in Hash
  BY <1>1, <1>2, <1>4, NextBlockType
<1>6. PICK qc \in CreateQC(Votes(mc, HashBlock(b)), mc) :
        Certified(NextBlock(batch, mc.number), qc)
  BY <1>5 DEF RunRound, mc
<1>7. /\ mode = "plain" /\ curView <= MaxView /\ mc.replicas # << >>
      /\ Certified(NextBlock(batch, mc.number), qc)
      /\ configs' = IF Leaving(window) = {} THEN configs
                    ELSE Reconfigured(configs, CHOOSE x \in Leaving(window) : TRUE)
      /\ UNCHANGED <<mode, faulty, viewChanges, stats, bench, resets>>
  BY <1>5, <1>6 DEF RunRound, mc
<1>8. qc \in QuorumCert /\ qc.view = curView /\ qc.conf = mc.number
  BY <1>2, <1>3, <1>5, <1>6, <1>7, CertificateType
<1>9. qc.conf = 0 => ValidateQC(qc, configs[1])
  BY <1>2, <1>3, <1>5, <1>6, <1>7, <1>8, CertificateValidates
<1>10. /\ IsStore(configs') /\ configs'[1] = configs[1] /\ Len(configs') >= Len(configs)
       /\ \A i \in DOMAIN configs' :
            configs'[i].faultCap = FaultCap(Len(configs'[i].replicas))
  <2>1. CASE Leaving(window) = {}
    BY <1>2, <1>7, <2>1 DEF TypeOK, CommitteesMade
  <2>2. CASE Leaving(window) # {}
    <3>1. PICK x \in chain : x = CHOOSE y \in Leaving(window) : TRUE
      BY <1>2, <2>2, LeavingType
    <3>2. x \in Block /\ Installed(configs, x.conf)
      BY <1>2 DEF TypeOK, BlocksInstalled
    <3>3. configs' = Reconfigured(configs, x)
      BY <1>7, <2>2, <3>1
    <3>4. QED
      BY <1>2, <3>2, <3>3, ReconfiguredType
  <2>3. QED
    BY <2>1, <2>2
<1>11. Linked'
  BY <1>1, <1>4, <1>7, <1>8, <1>10, CertifiedLinked
<1>12. Len(configs') \in Nat
  BY <1>10 DEF IsStore
<1>13. BlocksInstalled' /\ LastValidates' /\ CertificatesValidate'
  BY <1>1, <1>2, <1>4, <1>7, <1>9, <1>10, <1>12, CertifiedValidates
<1>14. curView' = curView + 1 /\ curView' \in 1 .. MaxView + 1
  BY <1>1, <1>2, <1>7 DEF Certified
<1>15. TypeOK'
  BY <1>2, <1>7, <1>10, <1>11, <1>14, TypeFromLinked DEF TypeOK
<1>16. CommitteesMade'
  BY <1>2, <1>10 DEF CommitteesMade
<1>17. ViewsLeft'
  BY <1>1, <1>2, <1>7, <1>14 DEF ViewsLeft
<1>18. QED
  BY <1>11, <1>13, <1>15, <1>16, <1>17 DEF IInv, Linked

LEMMA FailRoundIInv ==
  ASSUME IInv, NEW batch \in Batches, FailRound(batch)
  PROVE  IInv'
<1> DEFINE conf == Latest(configs).number
<1>1. batch \in Seq(MembershipRequest)
  BY BenchAssumption
<1>2. /\ TypeOK /\ TipCertified /\ EveryoneVouches /\ WindowBehind /\ BlocksInstalled
      /\ LastValidates /\ CertificatesValidate /\ Len(configs) \in Nat /\ Len(configs) >= 1
  BY DEF IInv, TypeOK, IsStore
<1>3. conf \in Nat /\ Installed(configs, conf)
  BY <1>2 DEF Latest, TypeOK, IsStore, Installed
<1> HIDE DEF conf
<1>4. PICK b \in Block : b = NextBlock(batch, conf)
  BY <1>1, <1>2, <1>3, NextBlockType
<1>5. /\ HashBlock(b) # lastHash
      /\ b.height = curHeight /\ b.justify = genericQC /\ b.conf = conf
  BY <1>1, <1>2, <1>3, <1>4, NextBlockType DEF NextBlock
<1>6. /\ chain' = Put(chain, b)
      /\ UNCHANGED <<mode, faulty, curView, curHeight, genericQC, lastHash, safety, window,
                     delivered, configs, viewChanges, stats, bench, resets>>
  BY <1>4 DEF FailRound, conf
<1>7. /\ chain' \subseteq Block
      /\ \A x \in chain' : x \in chain \/ x = b
      /\ \A x \in chain : x.height < curHeight => x \in chain'
      /\ Get(chain', lastHash') = Get(chain, lastHash)
  BY <1>2, <1>5, <1>6, PutNext
<1>8. window' \in Seq(chain')
  <2>1. window \in Seq(chain) /\ \A i \in DOMAIN window : window[i] \in chain'
    BY <1>2, <1>7 DEF TypeOK, WindowBehind
  <2>2. QED
    BY <1>6, <2>1
<1>9. TypeOK'
  BY <1>2, <1>6, <1>7, <1>8 DEF TypeOK
<1>10. TipCertified' /\ EveryoneVouches' /\ WindowBehind'
  BY <1>2, <1>6, <1>7 DEF TipCertified, EveryoneVouches, WindowBehind
<1>11. BlocksInstalled'
  BY <1>2, <1>3, <1>5, <1>6, <1>7 DEF BlocksInstalled
<1>12. CertificatesValidate'
  <2>1. SUFFICES ASSUME NEW x \in chain', x.height > 1, x.justify.conf = 0
                 PROVE  ValidateQC(x.justify, configs[1])
    BY <1>6 DEF CertificatesValidate
  <2>2. CASE x \in chain
    BY <1>2, <2>1, <2>2 DEF CertificatesValidate
  <2>3. CASE x = b
    BY <1>2, <1>5, <2>1, <2>3 DEF LastValidates
  <2>4. QED
    BY <1>7, <2>2, <2>3
<1>13. CommitteesMade' /\ ViewsLeft' /\ LastValidates'
  BY <1>6 DEF IInv, CommitteesMade, ViewsLeft, LastValidates
<1>14. QED
  BY <1>9, <1>10, <1>11, <1>12, <1>13 DEF IInv

-----------------------------------------------------------------------------
\* Recording keeps the statistics those of the replicas.
LEMMA RecordedType ==
  ASSUME stats \in [Replica -> ReplicaStats], NEW r, NEW height \in Nat
  PROVE  /\ Recorded(RecordTimeout(Begun(r), r)) \in [Replica -> ReplicaStats]
         /\ Recorded(RecordCommit(Begun(r), r, height)) \in [Replica -> ReplicaStats]
<1>1. ASSUME NEW st \in ReplicaStats
      PROVE  /\ LedRound(st) \in ReplicaStats /\ TimedOut(st) \in ReplicaStats
             /\ Committed(st, height) \in ReplicaStats
  <2>1. LedRound(st) \in ReplicaStats
    BY DEF LedRound, ReplicaStats
  <2>2. TimedOut(st) \in ReplicaStats
    BY DEF TimedOut, ReplicaStats
  <2>3. Committed(st, height) \in ReplicaStats
    <3>1. PICK last \in Nat : last = IF height > st.lastLed THEN height ELSE st.lastLed
      BY DEF ReplicaStats
    <3>2. Committed(st, height) = [st EXCEPT !.committed = @ + 1, !.lastLed = last]
      BY <3>1 DEF Committed
    <3>3. st.committed + 1 \in Nat
      BY DEF ReplicaStats
    <3>4. QED
      BY <3>1, <3>2, <3>3 DEF ReplicaStats
  <2>4. QED
    BY <2>1, <2>2, <2>3
<1>2. ASSUME NEW store \in [Replica -> ReplicaStats]
      PROVE  /\ RecordLeaderRound(store, r) \in [Replica -> ReplicaStats]
             /\ RecordTimeout(store, r) \in [Replica -> ReplicaStats]
             /\ RecordCommit(store, r, height) \in [Replica -> ReplicaStats]
  BY <1>1 DEF RecordLeaderRound, RecordTimeout, RecordCommit
<1>3. Begun(r) \in [Replica -> ReplicaStats]
  BY <1>2 DEF Begun
<1>4. QED
  BY <1>2, <1>3 DEF Recorded

LEMMA NewStoreType == NewStore \in [Replica -> ReplicaStats]
BY DEF NewStore, Fresh, ReplicaStats

LEMMA BenchType ==
  ASSUME TypeOK
  PROVE  /\ bench = [left |-> bench.left, batch |-> bench.batch, consec |-> bench.consec,
                     worst |-> bench.worst]
         /\ bench.left \in Nat /\ bench.batch \in Seq(MembershipRequest)
         /\ bench.consec \in Nat /\ bench.worst \in Nat
BY DEF TypeOK

LEMMA RunBenchmarkIInv ==
  ASSUME IInv, NEW rounds \in 1 .. MaxView, NEW batch \in Batches, RunBenchmark(rounds, batch)
  PROVE  IInv'
<1>1. batch \in Seq(MembershipRequest) /\ rounds \in Nat
  BY BenchAssumption
<1>2. /\ mode # "plain" /\ curView + rounds <= MaxView + 1
      /\ bench' = [left |-> rounds, batch |-> batch, consec |-> 0, worst |-> 0]
      /\ UNCHANGED <<mode, faulty, curView, curHeight, genericQC, lastHash, chain, safety,
                     window, delivered, configs, viewChanges, stats, resets>>
  BY DEF RunBenchmark, roundVars
<1>3. TypeOK'
  BY <1>1, <1>2 DEF IInv, TypeOK
<1>4. ViewsLeft'
  BY <1>2 DEF ViewsLeft
<1>5. QED
  BY <1>2, <1>3, <1>4
     DEF IInv, CommitteesMade, BlocksInstalled, TipCertified, EveryoneVouches, WindowBehind,
         LastValidates, CertificatesValidate

LEMMA TimeoutRoundIInv ==
  ASSUME IInv, TimeoutRound
  PROVE  IInv'
<1>1. /\ TypeOK /\ ViewsLeft /\ TipCertified /\ MaxView \in Nat
      /\ curView \in Nat /\ curHeight \in Nat /\ curHeight <= curView /\ curHeight >= 1
  BY BenchAssumption DEF IInv, TypeOK
<1>2. /\ bench.left > 0
      /\ \E leader : stats' = Recorded(RecordTimeout(Begun(leader), leader))
      /\ viewChanges' = viewChanges + 1 /\ curView' = curView + 1
      /\ bench' = [bench EXCEPT !.left = @ - 1, !.consec = @ + 1,
                                !.worst = IF bench.consec + 1 > @ THEN bench.consec + 1 ELSE @]
      /\ UNCHANGED <<mode, faulty, curHeight, genericQC, lastHash, chain, safety, window,
                     delivered, configs, resets>>
  BY DEF TimeoutRound
<1>3. stats' \in [Replica -> ReplicaStats]
  <2>1. PICK leader : stats' = Recorded(RecordTimeout(Begun(leader), leader))
    BY <1>2
  <2>2. QED
    BY <1>1, <2>1, RecordedType DEF TypeOK
<1>4. /\ bench' \in [left : Nat, batch : Seq(MembershipRequest), consec : Nat, worst : Nat]
      /\ bench'.left = bench.left - 1
  <2>1. bench \in [left : Nat, batch : Seq(MembershipRequest), consec : Nat, worst : Nat]
    BY <1>1 DEF TypeOK
  <2>2. bench.left - 1 \in Nat
    BY <1>2, <2>1
  <2>3. QED
    <3>1. PICK worst \in Nat :
            worst = IF bench.consec + 1 > bench.worst THEN bench.consec + 1 ELSE bench.worst
      BY <2>1
    <3>2. bench' = [bench EXCEPT !.left = @ - 1, !.consec = @ + 1, !.worst = worst]
      BY <1>2, <3>1
    <3>3. bench.consec + 1 \in Nat
      BY <2>1
    <3>4. QED
      BY <2>1, <2>2, <3>1, <3>2, <3>3
<1>5. curView' + bench'.left <= MaxView + 1 /\ mode # "plain"
  BY <1>1, <1>2, <1>4, BenchType DEF ViewsLeft
<1>6. curView' \in 1 .. MaxView + 1 /\ curHeight' \in 1 .. curView'
  <2>1. bench'.left \in Nat
    BY <1>4
  <2>2. QED
    BY <1>1, <1>2, <1>5, <2>1
<1>7. TypeOK'
  BY <1>1, <1>2, <1>3, <1>4, <1>6 DEF TypeOK
<1>8. ViewsLeft'
  BY <1>2, <1>5 DEF ViewsLeft
<1>9. TipCertified'
  <2>1. genericQC.view \in Nat
    BY <1>1 DEF TypeOK, QuorumCert
  <2>2. QED
    BY <1>1, <1>2, <2>1 DEF TipCertified
<1>10. QED
  BY <1>2, <1>7, <1>8, <1>9
     DEF IInv, CommitteesMade, BlocksInstalled, EveryoneVouches, WindowBehind,
         LastValidates, CertificatesValidate

LEMMA HonestRoundIInv ==
  ASSUME IInv, HonestRound
  PROVE  IInv'
<1> DEFINE c == configs[1]
<1>1. /\ TypeOK /\ CommitteesMade /\ ViewsLeft /\ MaxView \in Nat
      /\ curView \in Nat /\ Len(configs) \in Nat /\ Len(configs) >= 1
      /\ curHeight \in Nat /\ bench.batch \in Seq(MembershipRequest)
  BY BenchAssumption, BenchType DEF IInv, TypeOK, IsStore
<1>2. /\ c \in Committee /\ c.number = 0 /\ c.faultCap = FaultCap(Len(c.replicas))
      /\ c.replicas # << >> /\ Keys \in Seq(Member)
  BY <1>1, StoreFacts
<1>3. Installed(configs, 0)
  BY <1>1 DEF Installed
<1>4. PICK b \in Block : b = NextBlock(bench.batch, 0) /\ HashBlock(b) \in Hash
  BY <1>1, NextBlockType
<1> HIDE DEF c
<1>5. PICK qc \in CreateQC(Votes(c, HashBlock(b)), c) : Certified(NextBlock(bench.batch, 0), qc)
  BY <1>4 DEF HonestRound, c
<1>6. /\ bench.left > 0
      /\ \E leader : stats' = Recorded(RecordCommit(Begun(leader), leader, curHeight))
      /\ Certified(NextBlock(bench.batch, 0), qc)
      /\ bench' = [bench EXCEPT !.left = @ - 1, !.consec = 0]
      /\ UNCHANGED <<mode, faulty, configs, viewChanges, resets>>
  BY <1>4, <1>5 DEF HonestRound, c
<1>8. qc \in QuorumCert /\ qc.view = curView /\ qc.conf = 0
  BY <1>1, <1>2, <1>4, <1>5, CertificateType
<1>9. ValidateQC(qc, configs[1])
  BY <1>1, <1>4, <1>5, CertificateValidates DEF c
<1>10. Linked'
  BY <1>1, <1>6, <1>8, CertifiedLinked
<1>11. BlocksInstalled' /\ LastValidates' /\ CertificatesValidate'
  BY <1>1, <1>3, <1>6, <1>9, CertifiedValidates
<1>12. stats' \in [Replica -> ReplicaStats]
  <2>1. PICK leader : stats' = Recorded(RecordCommit(Begun(leader), leader, curHeight))
    BY <1>6
  <2>2. QED
    BY <1>1, <2>1, RecordedType DEF TypeOK
<1>13. /\ bench' \in [left : Nat, batch : Seq(MembershipRequest), consec : Nat, worst : Nat]
       /\ bench'.left = bench.left - 1
  <2>1. bench \in [left : Nat, batch : Seq(MembershipRequest), consec : Nat, worst : Nat]
    BY <1>1 DEF TypeOK
  <2>2. bench.left - 1 \in Nat
    BY <1>6, <2>1
  <2>3. QED
    BY <1>6, <2>1, <2>2
<1>14. curView' + bench'.left <= MaxView + 1 /\ mode # "plain" /\ curView' = curView + 1
  <2>1. curView' = curView + 1
    BY <1>6 DEF Certified
  <2>2. QED
    BY <1>1, <1>6, <1>13, <2>1, BenchType DEF ViewsLeft
<1>15. curView' \in 1 .. MaxView + 1
  BY <1>1, <1>13, <1>14
<1>16. TypeOK'
  BY <1>1, <1>6, <1>10, <1>12, <1>13, <1>15, TypeFromLinked DEF TypeOK
<1>17. CommitteesMade'
  BY <1>1, <1>6 DEF CommitteesMade
<1>18. ViewsLeft'
  BY <1>6, <1>14 DEF ViewsLeft
<1>19. QED
  BY <1>10, <1>11, <1>16, <1>17, <1>18 DEF IInv, Linked

-----------------------------------------------------------------------------
\* The first block of a run.
LEMMA GenesisFacts ==
  /\ Genesis \in Block /\ Genesis.justify = NoQC /\ Genesis.height = 0 /\ Genesis.conf = 0
  /\ HashBlock(Genesis) \in Hash
  /\ GenesisQC \in QuorumCert /\ GenesisQC.view = 0
  /\ NoQC \in QuorumCert
  /\ NewSafety = [generic |-> GenesisQC, locked |-> NoQC]
<1>1. << >> \in Hash /\ NoQC \in QuorumCert
  BY DEF Hash, NoQC, QuorumCert
<1>2. Genesis \in Block /\ Genesis.justify = NoQC /\ Genesis.height = 0 /\ Genesis.conf = 0
  BY <1>1 DEF Genesis, Block
<1>3. HashBlock(Genesis) \in Hash
  BY DEF Genesis, HashBlock, Hash
<1>4. GenesisQC \in QuorumCert /\ GenesisQC.view = 0
  BY <1>3 DEF GenesisQC, QuorumCert
<1>5. QED
  BY <1>1, <1>2, <1>3, <1>4 DEF NewSafety

\* The state a run begins in; its chain is linked, whatever came before.
RunBegins ==
  /\ curView = 1 /\ curHeight = 1 /\ genericQC = GenesisQC
  /\ lastHash = HashBlock(Genesis) /\ chain = {Genesis}
  /\ safety = [i \in DOMAIN configs[1].replicas |-> NewSafety]
  /\ window = << >> /\ delivered = 0
  /\ Installed(configs, 0)

LEMMA FreshLinked ==
  RunBegins => Linked /\ BlocksInstalled /\ LastValidates /\ CertificatesValidate
<1> SUFFICES ASSUME RunBegins
             PROVE  Linked /\ BlocksInstalled /\ LastValidates /\ CertificatesValidate
  OBVIOUS
<1> USE DEF RunBegins
<1>1. Get(chain, lastHash) = {Genesis}
  BY DEF Get
<1>2. TipCertified
  <2>1. Genesis \in Get(chain, lastHash) /\ \A tip \in Get(chain, lastHash) : tip = Genesis
    BY <1>1
  <2>2. genericQC.view < curView
    BY GenesisFacts
  <2>3. \A tip \in Get(chain, lastHash) : tip.justify = NoQC
    BY <2>1, GenesisFacts
  <2>4. QED
    BY <2>1, <2>2, <2>3 DEF TipCertified
<1>3. EveryoneVouches
  BY <1>1, GenesisFacts DEF EveryoneVouches
<1>4. Linked
  BY <1>2, <1>3, GenesisFacts DEF Linked, WindowBehind
<1>5. QED
  BY <1>4, GenesisFacts DEF BlocksInstalled, LastValidates, CertificatesValidate

-----------------------------------------------------------------------------
LEMMA InitIInv == Init => IInv
<1> SUFFICES ASSUME Init PROVE IInv
  OBVIOUS
<1>1. PICK c \in Clusters :
        FreshCluster(c) /\ faulty \in IF mode = "plain" THEN {{}} ELSE SUBSET MemberIds(c)
  BY DEF Init
<1>2. /\ c \in Committee /\ c = NewCommittee(0, c.replicas)
  BY BenchAssumption
<1>3. c.number = 0 /\ c.faultCap = FaultCap(Len(c.replicas))
  BY <1>2 DEF NewCommittee
<1>4. /\ configs = <<c>> /\ curView = 1 /\ curHeight = 1 /\ genericQC = GenesisQC
      /\ lastHash = HashBlock(Genesis) /\ chain = {Genesis} /\ window = << >> /\ delivered = 0
      /\ safety = [i \in DOMAIN configs[1].replicas |-> NewSafety]
  BY <1>1 DEF FreshCluster
<1>5. IsStore(configs) /\ Len(configs) = 1 /\ configs[1] = c
  BY <1>2, <1>3, <1>4 DEF IsStore
<1>6. Linked /\ BlocksInstalled /\ LastValidates /\ CertificatesValidate
  BY <1>4, <1>5, FreshLinked DEF RunBegins, Installed
<1>7. CommitteesMade
  BY <1>3, <1>4, <1>5 DEF CommitteesMade
<1>8. /\ MaxView \in Nat /\ MaxResets \in Nat /\ stats = NewStore
      /\ mode \in {"plain", "round-robin", "reputation"}
      /\ viewChanges = 0 /\ resets = 0 /\ bench = Idle
  BY BenchAssumption DEF Init
<1>9. bench \in [left : Nat, batch : Seq(MembershipRequest), consec : Nat, worst : Nat]
      /\ bench.left = 0
  BY <1>8 DEF Idle
<1>10. faulty \subseteq MemberIds(configs[1])
  BY <1>1, <1>5
<1>11. TypeOK
  BY <1>4, <1>5, <1>6, <1>8, <1>9, <1>10, NewStoreType DEF TypeOK, Linked
<1>12. ViewsLeft
  BY <1>4, <1>8, <1>9 DEF ViewsLeft
<1>13. QED
  BY <1>6, <1>7, <1>11, <1>12 DEF IInv, Linked

\* A fresh run keeps the committees and the keys.
LEMMA FreshRunIInv ==
  ASSUME IInv, FreshRun, bench.left = 0,
         resets' \in 0 .. MaxResets, viewChanges' \in Nat, stats' \in [Replica -> ReplicaStats]
  PROVE  IInv'
<1>1. /\ TypeOK /\ CommitteesMade /\ ViewsLeft /\ MaxView \in Nat
      /\ Len(configs) \in Nat /\ Len(configs) >= 1
  BY BenchAssumption DEF IInv, TypeOK, IsStore
<1>2. /\ curView' = 1 /\ curHeight' = 1 /\ genericQC' = GenesisQC
      /\ lastHash' = HashBlock(Genesis) /\ chain' = {Genesis}
      /\ window' = << >> /\ delivered' = 0
      /\ UNCHANGED <<mode, faulty, configs, bench>>
      /\ safety' = [i \in DOMAIN configs'[1].replicas |-> NewSafety]
  BY <1>1 DEF FreshRun, ResetSafety, ResetWindow, TypeOK
<1>3. RunBegins'
  BY <1>1, <1>2 DEF RunBegins, Installed
<1>4. (Linked /\ BlocksInstalled /\ LastValidates /\ CertificatesValidate)'
  BY <1>3, FreshLinked, PTL
<1>5. TypeOK'
  BY <1>1, <1>2, <1>4 DEF TypeOK, Linked
<1>6. CommitteesMade' /\ ViewsLeft'
  BY <1>1, <1>2 DEF CommitteesMade, ViewsLeft
<1>7. QED
  BY <1>4, <1>5, <1>6 DEF IInv, Linked

LEMMA NextIInv == IInv /\ [Next]_vars => IInv'
<1> SUFFICES ASSUME IInv, [Next]_vars PROVE IInv'
  OBVIOUS
<1>1. ASSUME NEW batch \in Batches, RunRound(batch) PROVE IInv'
  BY <1>1, RunRoundIInv
<1>2. ASSUME NEW batch \in Batches, FailRound(batch) PROVE IInv'
  BY <1>2, FailRoundIInv
<1>3. ASSUME NEW rounds \in 1 .. MaxView, NEW batch \in Batches, RunBenchmark(rounds, batch)
      PROVE  IInv'
  BY <1>3, RunBenchmarkIInv
<1>4. CASE TimeoutRound
  BY <1>4, TimeoutRoundIInv
<1>5. CASE HonestRound
  BY <1>5, HonestRoundIInv
<1>6. CASE Reset
  <2>1. bench.left = 0
    BY <1>6 DEF Reset, IInv, ViewsLeft
  <2>2. resets' \in 0 .. MaxResets /\ viewChanges' \in Nat
    BY <1>6, BenchAssumption DEF Reset, IInv, TypeOK
  <2>3. stats' \in [Replica -> ReplicaStats]
    BY <1>6 DEF Reset, IInv, TypeOK
  <2>4. QED
    BY <1>6, <2>1, <2>2, <2>3, FreshRunIInv DEF Reset
<1>7. CASE ResetBenchmark
  <2>1. resets' \in 0 .. MaxResets /\ viewChanges' \in Nat
    BY <1>7, BenchAssumption DEF ResetBenchmark, IInv, TypeOK
  <2>2. stats' \in [Replica -> ReplicaStats]
    BY <1>7, NewStoreType DEF ResetBenchmark, Recorded, IInv, TypeOK
  <2>3. QED
    BY <1>7, <2>1, <2>2, FreshRunIInv DEF ResetBenchmark
<1>8. CASE UNCHANGED vars
  BY <1>8 DEF vars, roundVars, IInv, TypeOK, CommitteesMade, BlocksInstalled, ViewsLeft,
     TipCertified, EveryoneVouches, WindowBehind, LastValidates, CertificatesValidate
<1>9. QED
  BY <1>1, <1>2, <1>3, <1>4, <1>5, <1>6, <1>7, <1>8 DEF Next

LEMMA Invariant == Spec => []IInv
<1>1. QED
  BY InitIInv, NextIInv, PTL DEF Spec

-----------------------------------------------------------------------------
(***************************************************************************)
(* The state keeps its types: committees are installed one by one, the     *)
(* window holds at most four stored blocks, and the height never passes    *)
(* the view (benchutil/cluster.go:235-323).                                *)
(***************************************************************************)
THEOREM BenchTypeOK == Spec => []TypeOK
<1>1. IInv => TypeOK
  BY DEF IInv
<1>2. QED
  BY <1>1, Invariant, PTL

(***************************************************************************)
(* No replica ever refuses a block, whatever committees are installed and  *)
(* whatever rounds fail: all hold the last certificate and the lock one    *)
(* behind it (benchutil/cluster.go:87-95, 305-315).                        *)
(***************************************************************************)
THEOREM BenchEveryoneVouches == Spec => []EveryoneVouches
<1>1. IInv => EveryoneVouches
  BY DEF IInv
<1>2. QED
  BY <1>1, Invariant, PTL

(***************************************************************************)
(* The certificates of the genesis committee, which no code validates, are *)
(* valid: a quorum of distinct members signed the block they certify       *)
(* (benchutil/cluster.go:275-302, quorum.go:69-107).                       *)
(***************************************************************************)
THEOREM BenchCertificatesValidate == Spec => []CertificatesValidate
<1>1. IInv => CertificatesValidate
  BY DEF IInv
<1>2. QED
  BY <1>1, Invariant, PTL

-----------------------------------------------------------------------------
(***************************************************************************)
(* Leaders by reputation and in turn.  An honest replica commits every     *)
(* round it leads, so its commit rate is one; a faulty one that has led    *)
(* has a rate of zero, and its novelty, at most one, weighs less than      *)
(* that.  Among honest ones novelty decides: who has led less has led      *)
(* longer ago.                                                             *)
(***************************************************************************)
SomeHonest == faulty # MemberIds(configs[1])

Honest == MemberIds(configs[1]) \ faulty

HasFailed == {r \in faulty : stats[r].rounds # 0}

RatesKnown ==
  /\ \A r \in Replica \ faulty : stats[r].committed = stats[r].rounds
  /\ \A r \in faulty : stats[r].committed = 0 /\ stats[r].lastLed = 0
  /\ \A r \in Replica : stats[r].lastLed < curHeight

FailedOnce == SomeHonest => viewChanges = Cardinality(HasFailed)

LedInTurn ==
  \A r, s \in Honest :
    /\ stats[r].committed <= stats[s].committed + 1
    /\ stats[r].committed = stats[s].committed + 1 => stats[r].lastLed > stats[s].lastLed

\* The failures in a row of the benchmark in progress, in either mode.
RunOfFailures ==
  SomeHonest /\ bench.left > 0 =>
    /\ mode = "reputation" => bench.consec <= viewChanges
    /\ mode = "round-robin" =>
         /\ bench.consec < curView /\ bench.consec <= Cardinality(faulty)
         /\ \A v \in curView - bench.consec .. curView - 1 :
              Leader(configs[1], v).id \in faulty

LeaderInv ==
  /\ mode = "reputation" => RatesKnown /\ FailedOnce /\ LedInTurn
  /\ RunOfFailures /\ FailuresBounded

-----------------------------------------------------------------------------
\* A product of positive factors grows with each factor.
LEMMA ScaledAbove ==
  ASSUME NEW c \in Nat \ {0}, NEW k \in Nat \ {0}, NEW h \in Nat \ {0},
         NEW p \in Int, NEW q \in Int, p > q
  PROVE  (c * p) * (k * h) > (k * q) * (c * h)
<1> DEFINE m == (c * k) * h
<1>1. m \in Nat /\ m > 0
  <2>1. c * k \in Nat /\ c * k > 0
    OBVIOUS
  <2>2. QED
    BY <2>1
<1>2. (c * p) * (k * h) = m * p /\ (k * q) * (c * h) = m * q
  OBVIOUS
<1> HIDE DEF m
<1>3. m * p > m * q
  <2>1. m * (p - q) > 0
    BY <1>1
  <2>2. m * (p - q) = m * p - m * q
    BY <1>1
  <2>3. m * p \in Int /\ m * q \in Int
    BY <1>1
  <2>4. QED
    BY <2>1, <2>2, <2>3
<1>4. QED
  BY <1>2, <1>3

\* The distance to a height the replica has not passed does not wrap.
LEMMA NoveltyIs ==
  ASSUME NEW st \in ReplicaStats, NEW h \in Nat \ {0}, h < Wide, st.lastLed <= h
  PROVE  NoveltyOf(st, h) = <<h - st.lastLed, h>>
<1>1. st.lastLed \in Nat
  BY DEF ReplicaStats
<1>2. Wide \in Nat /\ h - st.lastLed \in 0 .. Wide - 1
  BY <1>1, ReputationAssumption
<1>3. (h - st.lastLed) % Wide = h - st.lastLed
  BY <1>2
<1>4. QED
  BY <1>1, <1>3 DEF NoveltyOf, Novelty

\* The score of a replica that commits whenever it leads.
LEMMA HonestScore ==
  ASSUME NEW st \in ReplicaStats, st.committed = st.rounds,
         NEW h \in Nat \ {0}, h < Wide, st.lastLed <= h
  PROVE  \E c \in Nat \ {0} :
           Score(st, h) = <<c * (3 * h + 2 * (h - st.lastLed)), c * h>>
<1>1. st.rounds \in Nat /\ st.lastLed \in Nat
  BY DEF ReplicaStats
<1>2. PICK c \in Nat \ {0} : RateOf(st) = <<c, c>>
  <2>1. CASE st.rounds = 0
    <3>1. RateOf(st) = <<1, 1>>
      BY <2>1 DEF RateOf, CommitRate
    <3>2. QED
      BY <3>1
  <2>2. CASE st.rounds # 0
    BY <1>1, <2>2 DEF RateOf, CommitRate
  <2>3. QED
    BY <2>1, <2>2
<1>3. NoveltyOf(st, h) = <<h - st.lastLed, h>>
  BY NoveltyIs
<1>4. Score(st, h) = <<3 * c * h + 2 * (h - st.lastLed) * c, c * h>>
  BY <1>2, <1>3 DEF Score, Weighted, Alpha, Beta
<1>5. 3 * c * h + 2 * (h - st.lastLed) * c = c * (3 * h + 2 * (h - st.lastLed))
  BY <1>1
<1>6. QED
  BY <1>4, <1>5

\* The score of a replica that has led and never committed.
LEMMA FailedScore ==
  ASSUME NEW st \in ReplicaStats, st.committed = 0, st.rounds # 0, st.lastLed = 0,
         NEW h \in Nat \ {0}, h < Wide
  PROVE  \E k \in Nat \ {0} : Score(st, h) = <<k * (2 * h), k * h>>
<1>1. st.rounds \in Nat \ {0}
  BY DEF ReplicaStats
<1>2. RateOf(st) = <<0, st.rounds>>
  BY <1>1 DEF RateOf, CommitRate
<1>3. NoveltyOf(st, h) = <<h - 0, h>>
  BY NoveltyIs
<1>4. Score(st, h) = <<3 * 0 * h + 2 * (h - 0) * st.rounds, st.rounds * h>>
  BY <1>2, <1>3 DEF Score, Weighted, Alpha, Beta
<1>5. 3 * 0 * h + 2 * (h - 0) * st.rounds = st.rounds * (2 * h)
  BY <1>1
<1>6. QED
  BY <1>1, <1>4, <1>5

\* Numbers less than n apart have different remainders.
LEMMA Division ==
  ASSUME NEW n \in Nat \ {0}, NEW a \in Nat
  PROVE  a \div n \in Int /\ a % n \in 0 .. n - 1 /\ a = n * (a \div n) + (a % n)
<1>1. a \div n \in Int
  OBVIOUS
<1>2. a % n \in 0 .. n - 1
  OBVIOUS
<1>3. a = n * (a \div n) + (a % n)
  BY SMTT(30)
<1>4. QED
  BY <1>1, <1>2, <1>3

LEMMA ModInjective ==
  ASSUME NEW n \in Nat \ {0}, NEW a \in Nat, NEW b \in Nat, a < b, b - a < n
  PROVE  a % n # b % n
<1>1. PICK p \in Int, r \in 0 .. n - 1 : a = n * p + r /\ r = a % n
  BY Division
<1>2. PICK q \in Int, s \in 0 .. n - 1 : b = n * q + s /\ s = b % n
  BY Division
<1>3. SUFFICES ASSUME r = s PROVE FALSE
  BY <1>1, <1>2
<1>4. PICK d \in Int : d = q - p
  OBVIOUS
<1>5. b - a = n * d
  BY <1>1, <1>2, <1>3, <1>4
<1>6. CASE d <= 0
  BY <1>5, <1>6
<1>7. CASE d >= 1
  <2>1. n * d >= n
    BY <1>7
  <2>2. QED
    BY <1>5, <2>1
<1>8. QED
  BY <1>6, <1>7

-----------------------------------------------------------------------------
\* The members are replicas.
LEMMA MembersKnown ==
  ASSUME IInv
  PROVE  MemberIds(configs[1]) \subseteq Replica
<1>1. configs[1].replicas \in Seq(Member)
  BY StoreFacts DEF IInv, Committee
<1>2. ASSUME NEW i \in DOMAIN configs[1].replicas PROVE configs[1].replicas[i].id \in Replica
  <2>1. configs[1].replicas[i] \in Member
    BY <1>1
  <2>2. QED
    BY <2>1 DEF Member
<1>3. QED
  BY <1>2 DEF MemberIds

\* The state a leader is chosen in by reputation.
LEMMA ChoiceFacts ==
  ASSUME IInv, mode = "reputation", bench.left > 0, RatesKnown
  PROVE  /\ stats \in [Replica -> ReplicaStats]
         /\ curView \in Nat \ {0} /\ curView < Wide
         /\ \A r \in Replica : stats[r] \in ReplicaStats /\ stats[r].lastLed < curView
         /\ MemberIds(configs[1]) \subseteq Replica /\ faulty \subseteq MemberIds(configs[1])
<1>1. TypeOK /\ CommitteesMade /\ ViewsLeft
  BY DEF IInv
<1>2. curView \in Nat /\ curView >= 1 /\ curHeight \in Nat /\ curHeight <= curView
  BY <1>1, BenchAssumption DEF TypeOK
<1>3. curView < Wide
  BY <1>1, <1>2, BenchType, BenchAssumption, ReputationAssumption DEF ViewsLeft
<1>4. stats \in [Replica -> ReplicaStats] /\ faulty \subseteq MemberIds(configs[1])
  BY <1>1 DEF TypeOK
<1>5. ASSUME NEW r \in Replica
      PROVE  stats[r] \in ReplicaStats /\ stats[r].lastLed < curView
  <2>1. stats[r] \in ReplicaStats /\ stats[r].lastLed < curHeight
    BY <1>4 DEF RatesKnown
  <2>2. stats[r].lastLed \in Nat
    BY <2>1 DEF ReplicaStats
  <2>3. QED
    BY <1>2, <2>1, <2>2
<1>6. MemberIds(configs[1]) \subseteq Replica
  BY MembersKnown
<1>7. QED
  BY <1>2, <1>3, <1>4, <1>5, <1>6

\* A faulty replica that has led is beaten by every honest one.
LEMMA FailedBeaten ==
  ASSUME IInv, mode = "reputation", bench.left > 0, RatesKnown,
         NEW r \in faulty, stats[r].rounds # 0, NEW s \in Honest
  PROVE  Beats(stats, curView, s, r)
<1> DEFINE h == curView
<1>1. /\ h \in Nat \ {0} /\ h < Wide
      /\ r \in Replica /\ s \in Replica /\ s \notin faulty
      /\ stats[r] \in ReplicaStats /\ stats[s] \in ReplicaStats /\ stats[s].lastLed < h
  BY ChoiceFacts DEF Honest
<1>2. stats[s].lastLed \in Nat /\ stats[s].lastLed <= h
  BY <1>1 DEF ReplicaStats
<1>3. /\ stats[r].committed = 0 /\ stats[r].lastLed = 0
      /\ stats[s].committed = stats[s].rounds
  BY <1>1 DEF RatesKnown
<1> HIDE DEF h
<1>4. PICK x \in Nat : x = h - stats[s].lastLed
  BY <1>1, <1>2
<1>5. PICK c \in Nat \ {0} : Score(stats[s], h) = <<c * (3 * h + 2 * x), c * h>>
  BY <1>1, <1>2, <1>3, <1>4, HonestScore
<1>6. PICK k \in Nat \ {0} : Score(stats[r], h) = <<k * (2 * h), k * h>>
  BY <1>1, <1>3, FailedScore
<1>7. PICK p \in Int, q \in Int : p = 3 * h + 2 * x /\ q = 2 * h
  BY <1>1
<1>8. p > q
  BY <1>1, <1>4, <1>7
<1>9. (c * p) * (k * h) > (k * q) * (c * h)
  BY <1>1, <1>8, ScaledAbove
<1>10. Above(Score(stats[s], h), Score(stats[r], h))
  BY <1>5, <1>6, <1>7, <1>9 DEF Above
<1>11. QED
  BY <1>10 DEF Beats, h

\* Of two honest replicas the one that led longer ago beats the other.
LEMMA LongerAgoBeats ==
  ASSUME IInv, mode = "reputation", bench.left > 0, RatesKnown,
         NEW r \in Honest, NEW s \in Honest, stats[s].lastLed < stats[r].lastLed
  PROVE  Beats(stats, curView, s, r)
<1> DEFINE h == curView
<1>1. /\ h \in Nat \ {0} /\ h < Wide
      /\ r \in Replica /\ s \in Replica /\ r \notin faulty /\ s \notin faulty
      /\ stats[r] \in ReplicaStats /\ stats[s] \in ReplicaStats
      /\ stats[r].lastLed < h /\ stats[s].lastLed < h
  BY ChoiceFacts DEF Honest
<1>2. /\ stats[s].lastLed \in Nat /\ stats[s].lastLed <= h
      /\ stats[r].lastLed \in Nat /\ stats[r].lastLed <= h
  BY <1>1 DEF ReplicaStats
<1>3. stats[r].committed = stats[r].rounds /\ stats[s].committed = stats[s].rounds
  BY <1>1 DEF RatesKnown
<1> HIDE DEF h
<1>4. PICK x \in Nat, y \in Nat : x = h - stats[s].lastLed /\ y = h - stats[r].lastLed
  BY <1>1, <1>2
<1>5. PICK c \in Nat \ {0} : Score(stats[s], h) = <<c * (3 * h + 2 * x), c * h>>
  BY <1>1, <1>2, <1>3, <1>4, HonestScore
<1>6. PICK k \in Nat \ {0} : Score(stats[r], h) = <<k * (3 * h + 2 * y), k * h>>
  BY <1>1, <1>2, <1>3, <1>4, HonestScore
<1>7. PICK p \in Int, q \in Int : p = 3 * h + 2 * x /\ q = 3 * h + 2 * y
  BY <1>1
<1>8. p > q
  BY <1>1, <1>2, <1>4, <1>7
<1>9. (c * p) * (k * h) > (k * q) * (c * h)
  BY <1>1, <1>8, ScaledAbove
<1>10. Above(Score(stats[s], h), Score(stats[r], h))
  BY <1>5, <1>6, <1>7, <1>9 DEF Above
<1>11. QED
  BY <1>10 DEF Beats, h

-----------------------------------------------------------------------------
\* What a round that timed out leaves in the store.
LEMMA TimeoutRecords ==
  ASSUME mode = "reputation", stats \in [Replica -> ReplicaStats], NEW r \in Replica,
         NEW next, next = Recorded(RecordTimeout(Begun(r), r))
  PROVE  /\ next[r].rounds = stats[r].rounds + 1
         /\ next[r].committed = stats[r].committed /\ next[r].lastLed = stats[r].lastLed
         /\ \A s \in Replica \ {r} : next[s] = stats[s]
<1>1. stats[r] \in ReplicaStats
  OBVIOUS
<1>2. next = [[stats EXCEPT ![r] = LedRound(@)] EXCEPT ![r] = TimedOut(@)]
  BY DEF Recorded, Begun, RecordTimeout, RecordLeaderRound
<1>3. next[r] = TimedOut(LedRound(stats[r])) /\ \A s \in Replica \ {r} : next[s] = stats[s]
  BY <1>2
<1>4. /\ TimedOut(LedRound(stats[r])).rounds = stats[r].rounds + 1
      /\ TimedOut(LedRound(stats[r])).committed = stats[r].committed
      /\ TimedOut(LedRound(stats[r])).lastLed = stats[r].lastLed
  BY <1>1 DEF TimedOut, LedRound, ReplicaStats
<1>5. QED
  BY <1>3, <1>4

\* What a round that committed leaves in the store.
LEMMA CommitRecords ==
  ASSUME mode = "reputation", stats \in [Replica -> ReplicaStats], NEW r \in Replica,
         stats[r].lastLed < curHeight,
         NEW next, next = Recorded(RecordCommit(Begun(r), r, curHeight))
  PROVE  /\ next[r].rounds = stats[r].rounds + 1
         /\ next[r].committed = stats[r].committed + 1 /\ next[r].lastLed = curHeight
         /\ \A s \in Replica \ {r} : next[s] = stats[s]
<1>1. stats[r] \in ReplicaStats
  OBVIOUS
<1>2. next = [[stats EXCEPT ![r] = LedRound(@)] EXCEPT ![r] = Committed(@, curHeight)]
  BY DEF Recorded, Begun, RecordCommit, RecordLeaderRound
<1>3. /\ next[r] = Committed(LedRound(stats[r]), curHeight)
      /\ \A s \in Replica \ {r} : next[s] = stats[s]
  BY <1>2
<1>4. PICK led \in ReplicaStats :
        /\ led = LedRound(stats[r])
        /\ led.rounds = stats[r].rounds + 1
        /\ led.committed = stats[r].committed /\ led.lastLed = stats[r].lastLed
  <2>1. LedRound(stats[r]) \in ReplicaStats
    BY <1>1 DEF LedRound, ReplicaStats
  <2>2. /\ LedRound(stats[r]).rounds = stats[r].rounds + 1
        /\ LedRound(stats[r]).committed = stats[r].committed
        /\ LedRound(stats[r]).lastLed = stats[r].lastLed
    BY <1>1 DEF LedRound, ReplicaStats
  <2>3. QED
    BY <2>1, <2>2
<1>5. led.lastLed \in Nat /\ led.lastLed < curHeight
  BY <1>4 DEF ReplicaStats
<1>6. Committed(led, curHeight) = [led EXCEPT !.committed = @ + 1, !.lastLed = curHeight]
  BY <1>5 DEF Committed
<1>7. /\ Committed(led, curHeight).rounds = led.rounds
      /\ Committed(led, curHeight).committed = led.committed + 1
      /\ Committed(led, curHeight).lastLed = curHeight
  BY <1>6 DEF ReplicaStats
<1>8. QED
  BY <1>3, <1>4, <1>7

-----------------------------------------------------------------------------
\* The faulty replicas are fewer than the seats, unless all of them are.
LEMMA FaultyCount ==
  ASSUME IInv
  PROVE  /\ IsFiniteSet(faulty) /\ Cardinality(faulty) \in Nat
         /\ SomeHonest => Cardinality(faulty) < Len(configs[1].replicas)
<1>1. faulty \subseteq MemberIds(configs[1]) /\ Len(configs[1].replicas) \in Nat
  BY StoreFacts DEF IInv, TypeOK, Committee
<1>2. /\ IsFiniteSet(MemberIds(configs[1]))
      /\ Cardinality(MemberIds(configs[1])) \in Nat
      /\ Cardinality(MemberIds(configs[1])) <= Len(configs[1].replicas)
  <2>1. configs[1] \in Committee
    BY StoreFacts DEF IInv
  <2>2. /\ IsFiniteSet(MemberIds(configs[1]))
        /\ Cardinality(MemberIds(configs[1])) <= Len(configs[1].replicas)
    BY <2>1, MemberCount
  <2>3. QED
    BY <2>2, FS_CardinalityType
<1>3. /\ IsFiniteSet(faulty) /\ Cardinality(faulty) <= Cardinality(MemberIds(configs[1]))
      /\ Cardinality(faulty) = Cardinality(MemberIds(configs[1])) => ~SomeHonest
  BY <1>1, <1>2, FS_Subset DEF SomeHonest
<1>4. Cardinality(faulty) \in Nat
  BY <1>3, FS_CardinalityType
<1>5. QED
  BY <1>1, <1>2, <1>3, <1>4

\* The replicas that have failed are among the faulty ones.
LEMMA FailedCount ==
  ASSUME IInv
  PROVE  IsFiniteSet(HasFailed) /\ Cardinality(HasFailed) <= Cardinality(faulty)
<1>1. HasFailed \in SUBSET faulty
  BY DEF HasFailed
<1>2. QED
  BY <1>1, FaultyCount, FS_Subset

\* A timeout by reputation is the first one of its leader.
LEMMA TimeoutByReputation ==
  ASSUME IInv, LeaderInv, mode = "reputation", TimeoutRound
  PROVE  RatesKnown' /\ FailedOnce' /\ LedInTurn'
<1>1. /\ RatesKnown /\ FailedOnce /\ LedInTurn
      /\ bench.left > 0 /\ viewChanges' = viewChanges + 1
      /\ UNCHANGED <<mode, faulty, curHeight, configs>>
  BY DEF LeaderInv, TimeoutRound
<1>2. PICK r \in Select(stats, configs[1], curView) \cap faulty :
        stats' = Recorded(RecordTimeout(Begun(r), r))
  BY DEF TimeoutRound, Leaders
<1>3. /\ stats \in [Replica -> ReplicaStats]
      /\ MemberIds(configs[1]) \subseteq Replica /\ faulty \subseteq MemberIds(configs[1])
  BY <1>1, ChoiceFacts
<1>4. r \in Replica /\ r \in faulty /\ \A s \in Honest : ~Beats(stats, curView, s, r)
  BY <1>2, <1>3 DEF Select, Honest
<1>5. /\ stats'[r].rounds = stats[r].rounds + 1
      /\ stats'[r].committed = stats[r].committed /\ stats'[r].lastLed = stats[r].lastLed
      /\ \A s \in Replica \ {r} : stats'[s] = stats[s]
  BY <1>2, <1>3, <1>4, TimeoutRecords
<1>6. RatesKnown'
  <2>1. ASSUME NEW s \in Replica \ faulty PROVE stats'[s].committed = stats'[s].rounds
    BY <1>1, <1>4, <1>5, <2>1 DEF RatesKnown
  <2>2. ASSUME NEW s \in faulty PROVE stats'[s].committed = 0 /\ stats'[s].lastLed = 0
    BY <1>1, <1>3, <1>5, <2>2 DEF RatesKnown
  <2>3. ASSUME NEW s \in Replica PROVE stats'[s].lastLed < curHeight
    BY <1>1, <1>5, <2>3 DEF RatesKnown
  <2>4. QED
    BY <1>1, <2>1, <2>2, <2>3 DEF RatesKnown
<1>7. LedInTurn'
  <2>1. Honest' = Honest /\ \A s \in Honest : stats'[s] = stats[s]
    BY <1>1, <1>3, <1>4, <1>5 DEF Honest
  <2>2. QED
    BY <1>1, <2>1 DEF LedInTurn
<1>8. FailedOnce'
  <2>1. SUFFICES ASSUME SomeHonest PROVE viewChanges' = Cardinality(HasFailed')
    BY <1>1 DEF FailedOnce, SomeHonest
  <2>2. PICK s : s \in Honest
    BY <1>3, <2>1 DEF SomeHonest, Honest
  <2>3. stats[r].rounds = 0
    BY <1>1, <1>4, <2>2, FailedBeaten
  <2>4. r \notin HasFailed /\ stats'[r].rounds # 0
    BY <1>5, <2>3 DEF HasFailed
  <2>5. ASSUME NEW q \in faulty \ {r} PROVE stats'[q] = stats[q]
    BY <1>3, <1>5
  <2>6. HasFailed' = HasFailed \cup {r}
    BY <1>1, <1>4, <2>4, <2>5 DEF HasFailed
  <2>7. Cardinality(HasFailed') = Cardinality(HasFailed) + 1
    BY <2>4, <2>6, FailedCount, FS_AddElement
  <2>8. QED
    BY <1>1, <2>1, <2>7 DEF FailedOnce
<1>9. QED
  BY <1>6, <1>7, <1>8

\* A round that commits is led by the honest replica that led longest ago.
LEMMA HonestByReputation ==
  ASSUME IInv, LeaderInv, mode = "reputation", HonestRound
  PROVE  RatesKnown' /\ FailedOnce' /\ LedInTurn'
<1>1. /\ RatesKnown /\ FailedOnce /\ LedInTurn
      /\ bench.left > 0 /\ curHeight' = curHeight + 1
      /\ UNCHANGED <<mode, faulty, configs, viewChanges>>
  BY DEF LeaderInv, HonestRound, Certified
<1>2. PICK r \in Select(stats, configs[1], curView) \ faulty :
        stats' = Recorded(RecordCommit(Begun(r), r, curHeight))
  BY DEF HonestRound, Leaders
<1>3. /\ stats \in [Replica -> ReplicaStats] /\ curHeight \in Nat
      /\ MemberIds(configs[1]) \subseteq Replica /\ faulty \subseteq MemberIds(configs[1])
      /\ Honest \subseteq Replica
  BY <1>1, ChoiceFacts DEF IInv, TypeOK, Honest
<1>4. /\ r \in Replica /\ r \in Honest /\ r \notin faulty
      /\ \A s \in Honest : ~Beats(stats, curView, s, r)
  BY <1>2, <1>3 DEF Select, Honest
<1>5. ASSUME NEW s \in Replica
      PROVE  /\ stats[s].committed \in Nat /\ stats[s].rounds \in Nat
             /\ stats[s].lastLed \in Nat /\ stats[s].lastLed < curHeight
  <2>1. stats[s] \in ReplicaStats
    BY <1>3
  <2>2. QED
    BY <1>1, <2>1 DEF ReplicaStats, RatesKnown
<1>6. /\ stats'[r].rounds = stats[r].rounds + 1
      /\ stats'[r].committed = stats[r].committed + 1 /\ stats'[r].lastLed = curHeight
      /\ \A s \in Replica \ {r} : stats'[s] = stats[s]
  BY <1>2, <1>3, <1>4, <1>5, CommitRecords
<1>7. ASSUME NEW s \in faulty PROVE stats'[s] = stats[s]
  BY <1>3, <1>4, <1>6
<1>8. RatesKnown'
  <2>1. ASSUME NEW s \in Replica \ faulty PROVE stats'[s].committed = stats'[s].rounds
    BY <1>1, <1>4, <1>6, <2>1 DEF RatesKnown
  <2>2. ASSUME NEW s \in faulty PROVE stats'[s].committed = 0 /\ stats'[s].lastLed = 0
    BY <1>1, <1>7, <2>2 DEF RatesKnown
  <2>3. ASSUME NEW s \in Replica PROVE stats'[s].lastLed < curHeight + 1
    BY <1>3, <1>5, <1>6, <2>3
  <2>4. QED
    BY <1>1, <2>1, <2>2, <2>3 DEF RatesKnown
<1>9. FailedOnce'
  <2>1. HasFailed' = HasFailed
    BY <1>1, <1>7 DEF HasFailed
  <2>2. QED
    BY <1>1, <2>1 DEF FailedOnce, SomeHonest
<1>10. ASSUME NEW s \in Honest, s # r
       PROVE  /\ stats'[s] = stats[s] /\ stats[r].committed <= stats[s].committed
              /\ stats[s].committed <= stats[r].committed + 1
  <2>1. ~(stats[s].lastLed < stats[r].lastLed)
    BY <1>1, <1>4, LongerAgoBeats
  <2>2. /\ stats[r].committed <= stats[s].committed + 1
        /\ stats[r].committed = stats[s].committed + 1 => stats[r].lastLed > stats[s].lastLed
        /\ stats[s].committed <= stats[r].committed + 1
    BY <1>1, <1>4 DEF LedInTurn
  <2>3. QED
    BY <1>3, <1>4, <1>5, <1>6, <1>10, <2>1, <2>2
<1>11. ASSUME NEW a \in Honest, NEW b \in Honest
       PROVE  /\ stats'[a].committed <= stats'[b].committed + 1
              /\ stats'[a].committed = stats'[b].committed + 1
                   => stats'[a].lastLed > stats'[b].lastLed
  <2>1. CASE a # r /\ b # r
    BY <1>1, <1>10, <2>1 DEF LedInTurn
  <2>2. CASE a = r /\ b # r
    BY <1>3, <1>4, <1>5, <1>6, <1>10, <2>2
  <2>3. CASE a # r /\ b = r
    BY <1>3, <1>4, <1>5, <1>6, <1>10, <2>3
  <2>4. CASE a = r /\ b = r
    BY <1>4, <1>5, <1>6, <2>4
  <2>5. QED
    BY <2>1, <2>2, <2>3, <2>4
<1>12. LedInTurn'
  <2>1. Honest' = Honest
    BY <1>1 DEF Honest
  <2>2. QED
    BY <1>11, <2>1 DEF LedInTurn
<1>13. QED
  BY <1>8, <1>9, <1>12

-----------------------------------------------------------------------------
\* In turn, faulty replicas lead no more views in a row than there are of them.
LEMMA TurnsBounded ==
  ASSUME IInv, SomeHonest, NEW first \in Nat, NEW k \in Nat,
         \A v \in first .. first + k - 1 : Leader(configs[1], v).id \in faulty
  PROVE  k <= Cardinality(faulty)
<1> DEFINE rs == configs[1].replicas
<1>1. PICK n \in Nat \ {0} : n = Len(rs)
  BY StoreFacts DEF IInv, Committee
<1>2. PICK m \in Nat : m = Cardinality(faulty) + 1 /\ m <= n
  BY <1>1, FaultyCount
<1>3. Distinct(rs) /\ DOMAIN rs = 1 .. n
  BY <1>1, StoreFacts DEF IInv, Committee
<1> DEFINE f == [v \in first .. first + m - 1 |-> Leader(configs[1], v).id]
<1>4. ASSUME k > Cardinality(faulty) PROVE FALSE
  <2>1. ASSUME NEW v \in first .. first + m - 1
        PROVE  v \in Nat /\ f[v] = rs[1 + (v % n)].id /\ f[v] \in faulty
    <3>1. m <= k
      BY <1>2, <1>4, FaultyCount
    <3>2. v \in Nat /\ v \in first .. first + k - 1
      BY <2>1, <3>1
    <3>3. QED
      BY <1>1, <3>2 DEF Leader
  <2>2. ASSUME NEW v \in first .. first + m - 1, NEW w \in first .. first + m - 1, v < w
        PROVE  f[v] # f[w]
    <3>1. v \in Nat /\ w \in Nat /\ w - v < n
      BY <1>2, <2>2
    <3>2. v % n \in 0 .. n - 1 /\ w % n \in 0 .. n - 1
      BY <3>1, Division
    <3>3. v % n # w % n
      BY <2>2, <3>1, ModInjective
    <3>4. PICK i \in DOMAIN rs, j \in DOMAIN rs : i = 1 + (v % n) /\ j = 1 + (w % n) /\ i # j
      BY <1>3, <3>2, <3>3
    <3>5. rs[i].id # rs[j].id
      BY <1>3, <3>4 DEF Distinct
    <3>6. QED
      BY <2>1, <3>4, <3>5
  <2>3. \A v, w \in first .. first + m - 1 : f[v] = f[w] => v = w
    <3>1. SUFFICES ASSUME NEW v \in first .. first + m - 1, NEW w \in first .. first + m - 1,
                          f[v] = f[w], v # w
                   PROVE  FALSE
      OBVIOUS
    <3>2. v \in Nat /\ w \in Nat
      BY <2>1
    <3>3. v < w \/ w < v
      BY <3>1, <3>2
    <3>4. QED
      BY <2>2, <3>1, <3>3
  <2>4. f \in Injection(first .. first + m - 1, faulty)
    BY <2>1, <2>3 DEF Injection, IsInjective
  <2>5. Cardinality(first .. first + m - 1) = m
    <3>1. first \in Int /\ first + m - 1 \in Int
      OBVIOUS
    <3>2. Cardinality(first .. first + m - 1)
            = IF first > first + m - 1 THEN 0 ELSE (first + m - 1) - first + 1
      BY <3>1, FS_Interval
    <3>3. QED
      BY <3>2
  <2>6. Cardinality(first .. first + m - 1) <= Cardinality(faulty)
    BY <2>4, FaultyCount, FS_Injection
  <2>7. QED
    BY <1>2, <2>5, <2>6, FaultyCount
<1>5. QED
  BY <1>4, FaultyCount

\* A failure prolongs the run by one, and the run stays within the bound.
LEMMA TimeoutRuns ==
  ASSUME IInv, LeaderInv, TimeoutRound
  PROVE  RunOfFailures' /\ FailuresBounded'
<1>1. /\ RunOfFailures /\ FailuresBounded /\ bench.left > 0 /\ mode # "plain"
      /\ mode \in {"plain", "round-robin", "reputation"}
      /\ viewChanges \in Nat /\ curView \in Nat /\ bench.consec \in Nat /\ bench.worst \in Nat
  BY BenchType DEF LeaderInv, TimeoutRound, IInv, ViewsLeft, TypeOK
<1>2. /\ viewChanges' = viewChanges + 1 /\ curView' = curView + 1
      /\ UNCHANGED <<mode, faulty, configs>>
  BY DEF TimeoutRound
<1>3. /\ bench'.consec = bench.consec + 1
      /\ bench'.worst = bench.worst \/ bench'.worst = bench.consec + 1
  <2>1. PICK worst \in Nat :
          /\ worst = bench.worst \/ worst = bench.consec + 1
          /\ worst = IF bench.consec + 1 > bench.worst THEN bench.consec + 1 ELSE bench.worst
    BY <1>1
  <2>2. bench' = [bench EXCEPT !.left = @ - 1, !.consec = @ + 1, !.worst = worst]
    BY <2>1 DEF TimeoutRound
  <2>3. bench'.consec = bench.consec + 1 /\ bench'.worst = worst
    BY <2>2, BenchType DEF IInv
  <2>4. QED
    BY <2>1, <2>3
<1>4. ASSUME SomeHonest, mode = "reputation"
      PROVE  bench.consec + 1 <= viewChanges + 1 /\ bench.consec + 1 <= Cardinality(faulty)
  <2>1. bench.consec <= viewChanges
    BY <1>1, <1>4 DEF RunOfFailures
  <2>2. viewChanges' = Cardinality(HasFailed')
    BY <1>2, <1>4, TimeoutByReputation DEF FailedOnce, SomeHonest
  <2>3. HasFailed' \in SUBSET faulty
    BY <1>2 DEF HasFailed
  <2>4. Cardinality(HasFailed') <= Cardinality(faulty)
    BY <2>3, FaultyCount, FS_Subset
  <2>5. QED
    BY <1>1, <1>2, <2>1, <2>2, <2>4, FaultyCount
<1>5. ASSUME SomeHonest, mode = "round-robin"
      PROVE  /\ bench.consec < curView /\ bench.consec + 1 <= Cardinality(faulty)
             /\ \A v \in curView - bench.consec .. curView : Leader(configs[1], v).id \in faulty
  <2>1. /\ bench.consec < curView
        /\ \A v \in curView - bench.consec .. curView - 1 : Leader(configs[1], v).id \in faulty
    BY <1>1, <1>5 DEF RunOfFailures
  <2>2. Leader(configs[1], curView).id \in faulty
    BY <1>5 DEF TimeoutRound, Leaders
  <2>3. PICK first \in Nat : first = curView - bench.consec
    BY <1>1, <2>1
  <2>4. \A v \in first .. curView : Leader(configs[1], v).id \in faulty
    <3>1. SUFFICES ASSUME NEW v \in first .. curView PROVE Leader(configs[1], v).id \in faulty
      OBVIOUS
    <3>2. v = curView \/ v \in first .. curView - 1
      BY <1>1
    <3>3. QED
      BY <2>1, <2>2, <2>3, <3>2
  <2>5. bench.consec + 1 \in Nat /\ first + (bench.consec + 1) - 1 = curView
    BY <1>1, <2>3
  <2>6. bench.consec + 1 <= Cardinality(faulty)
    BY <1>5, <2>3, <2>4, <2>5, TurnsBounded
  <2>7. QED
    BY <2>1, <2>3, <2>4, <2>6
<1>6. FailuresBounded'
  <2>1. SUFFICES ASSUME SomeHonest PROVE bench'.worst <= Cardinality(faulty)
    BY <1>2 DEF FailuresBounded, SomeHonest
  <2>2. bench.worst <= Cardinality(faulty)
    BY <1>1, <2>1 DEF FailuresBounded, SomeHonest
  <2>3. bench.consec + 1 <= Cardinality(faulty)
    BY <1>1, <1>4, <1>5, <2>1
  <2>4. QED
    BY <1>3, <2>2, <2>3
<1>7. RunOfFailures'
  <2>1. SUFFICES ASSUME SomeHonest
                 PROVE  /\ mode = "reputation" => bench'.consec <= viewChanges'
                        /\ mode = "round-robin" =>
                             /\ bench'.consec < curView'
                             /\ bench'.consec <= Cardinality(faulty)
                             /\ \A v \in curView' - bench'.consec .. curView' - 1 :
                                  Leader(configs[1], v).id \in faulty
    BY <1>2 DEF RunOfFailures, SomeHonest
  <2>2. CASE mode = "reputation"
    BY <1>2, <1>3, <1>4, <2>1, <2>2
  <2>3. CASE mode = "round-robin"
    <3>1. /\ bench.consec < curView /\ bench.consec + 1 <= Cardinality(faulty)
          /\ \A v \in curView - bench.consec .. curView : Leader(configs[1], v).id \in faulty
      BY <1>5, <2>1, <2>3
    <3>2. /\ curView' - bench'.consec = curView - bench.consec /\ curView' - 1 = curView
          /\ bench'.consec < curView'
      BY <1>1, <1>2, <1>3, <3>1
    <3>3. QED
      BY <1>3, <2>3, <3>1, <3>2
  <2>4. QED
    BY <1>1, <2>2, <2>3
<1>8. QED
  BY <1>6, <1>7

-----------------------------------------------------------------------------
\* The state the counting starts in.
CountsBegin ==
  /\ stats = NewStore /\ curHeight = 1 /\ viewChanges = 0
  /\ faulty \subseteq Replica /\ Honest \subseteq Replica

LEMMA FreshCounts == CountsBegin => RatesKnown /\ FailedOnce /\ LedInTurn
<1> SUFFICES ASSUME CountsBegin PROVE RatesKnown /\ FailedOnce /\ LedInTurn
  OBVIOUS
<1>1. ASSUME NEW r \in Replica
      PROVE  stats[r].rounds = 0 /\ stats[r].committed = 0 /\ stats[r].lastLed = 0
  BY DEF CountsBegin, NewStore, Fresh
<1>2. RatesKnown
  BY <1>1 DEF CountsBegin, RatesKnown
<1>3. FailedOnce
  <2>1. HasFailed = {}
    BY <1>1 DEF HasFailed, CountsBegin
  <2>2. QED
    BY <2>1, FS_EmptySet DEF FailedOnce, CountsBegin
<1>4. LedInTurn
  <2>1. ASSUME NEW r \in Honest PROVE stats[r].committed = 0
    BY <1>1 DEF CountsBegin
  <2>2. QED
    BY <2>1 DEF LedInTurn
<1>5. QED
  BY <1>2, <1>3, <1>4

LEMMA InitLeaderInv == Init => LeaderInv
<1> SUFFICES ASSUME Init PROVE LeaderInv
  OBVIOUS
<1>1. IInv
  BY InitIInv
<1>2. /\ stats = NewStore /\ curHeight = 1 /\ viewChanges = 0
      /\ bench.left = 0 /\ bench.worst = 0
  BY DEF Init, FreshCluster, Idle
<1>3. faulty \subseteq MemberIds(configs[1]) /\ MemberIds(configs[1]) \subseteq Replica
  BY <1>1, MembersKnown DEF IInv, TypeOK
<1>4. CountsBegin
  BY <1>2, <1>3 DEF CountsBegin, Honest
<1>5. RunOfFailures
  BY <1>2 DEF RunOfFailures
<1>6. FailuresBounded
  BY <1>1, <1>2, FaultyCount DEF FailuresBounded
<1>7. QED
  BY <1>4, <1>5, <1>6, FreshCounts DEF LeaderInv

\* Every step keeps what is known of the leaders.
LEMMA NextLeaderInv == IInv /\ LeaderInv /\ [Next]_vars => LeaderInv'
<1> SUFFICES ASSUME IInv, LeaderInv, [Next]_vars PROVE LeaderInv'
  OBVIOUS
<1> USE DEF SomeHonest
<1>1. /\ mode = "reputation" => RatesKnown /\ FailedOnce /\ LedInTurn
      /\ RunOfFailures /\ FailuresBounded
      /\ mode = "plain" => bench.left = 0
      /\ viewChanges \in Nat /\ curView \in Nat /\ curView >= 1
  BY BenchAssumption DEF LeaderInv, IInv, TypeOK, ViewsLeft
<1>2. ASSUME mode = "plain", UNCHANGED <<mode, bench>> PROVE LeaderInv'
  BY <1>1, <1>2 DEF LeaderInv, RunOfFailures, FailuresBounded
<1>3. ASSUME NEW batch \in Batches, RunRound(batch) PROVE LeaderInv'
  BY <1>2, <1>3 DEF RunRound
<1>4. ASSUME NEW batch \in Batches, FailRound(batch) PROVE LeaderInv'
  BY <1>2, <1>4 DEF FailRound
<1>5. ASSUME NEW rounds \in 1 .. MaxView, NEW batch \in Batches, RunBenchmark(rounds, batch)
      PROVE  LeaderInv'
  <2>1. /\ bench'.consec = 0 /\ bench'.worst = 0
        /\ UNCHANGED <<mode, faulty, curView, curHeight, configs, viewChanges, stats>>
    BY <1>5 DEF RunBenchmark, roundVars
  <2>2. mode = "reputation" => RatesKnown' /\ FailedOnce' /\ LedInTurn'
    BY <1>1, <2>1 DEF RatesKnown, FailedOnce, HasFailed, LedInTurn, Honest
  <2>3. RunOfFailures'
    BY <1>1, <2>1, FaultyCount DEF RunOfFailures
  <2>4. FailuresBounded'
    BY <2>1, FaultyCount DEF FailuresBounded
  <2>5. QED
    BY <2>1, <2>2, <2>3, <2>4 DEF LeaderInv
<1>6. CASE TimeoutRound
  BY <1>6, TimeoutByReputation, TimeoutRuns DEF TimeoutRound, LeaderInv
<1>7. CASE HonestRound
  <2>1. /\ bench'.consec = 0 /\ bench'.worst = bench.worst /\ curView' = curView + 1
        /\ UNCHANGED <<mode, faulty, configs, viewChanges>>
    BY <1>7, BenchType DEF HonestRound, Certified, IInv
  <2>2. RunOfFailures'
    BY <1>1, <2>1, FaultyCount DEF RunOfFailures
  <2>3. FailuresBounded'
    BY <1>1, <2>1 DEF FailuresBounded
  <2>4. QED
    BY <1>7, <2>1, <2>2, <2>3, HonestByReputation DEF LeaderInv
<1>8. CASE Reset
  BY <1>2, <1>8 DEF Reset, FreshRun
<1>9. CASE ResetBenchmark
  <2>1. /\ bench.left = 0 /\ curHeight' = 1 /\ viewChanges' = 0
        /\ mode = "reputation" => stats' = NewStore
        /\ UNCHANGED <<mode, faulty, configs, bench>>
    BY <1>9 DEF ResetBenchmark, FreshRun, Recorded
  <2>2. faulty \subseteq MemberIds(configs[1]) /\ MemberIds(configs[1]) \subseteq Replica
    BY MembersKnown DEF IInv, TypeOK
  <2>3. mode = "reputation" => CountsBegin'
    BY <2>1, <2>2 DEF CountsBegin, Honest
  <2>4. (CountsBegin => RatesKnown /\ FailedOnce /\ LedInTurn)'
    BY FreshCounts, PTL
  <2>5. RunOfFailures' /\ FailuresBounded'
    BY <1>1, <2>1 DEF RunOfFailures, FailuresBounded
  <2>6. QED
    BY <2>1, <2>3, <2>4, <2>5 DEF LeaderInv
<1>10. CASE UNCHANGED vars
  BY <1>1, <1>10
     DEF vars, roundVars, LeaderInv, RatesKnown, FailedOnce, HasFailed, LedInTurn, Honest,
         RunOfFailures, FailuresBounded
<1>11. QED
  BY <1>3, <1>4, <1>5, <1>6, <1>7, <1>8, <1>9, <1>10 DEF Next

LEMMA LeaderInvariant == Spec => [](IInv /\ LeaderInv)
<1>1. Init => IInv /\ LeaderInv
  BY InitIInv, InitLeaderInv
<1>2. IInv /\ LeaderInv /\ [Next]_vars => (IInv /\ LeaderInv)'
  BY NextIInv, NextLeaderInv
<1>3. QED
  BY <1>1, <1>2, PTL DEF Spec

(***************************************************************************)
(* Under reputation a replica that fails leads once, however the rounds    *)
(* are divided into benchmarks: the view changes are as many as the        *)
(* replicas that have failed (reputation/store.go:95-104,                  *)
(* repbench/cluster.go:249-287).                                           *)
(***************************************************************************)
THEOREM BenchFaultyLeadOnce == Spec => []FaultyLeadOnce
<1>1. IInv /\ LeaderInv => FaultyLeadOnce
  BY FailedCount DEF LeaderInv, FailedOnce, SomeHonest, FaultyLeadOnce
<1>2. QED
  BY <1>1, LeaderInvariant, PTL

(***************************************************************************)
(* In turn or by reputation, the rounds that fail in a row are never more  *)
(* than the replicas that fail (repbench/cluster.go:383-411).              *)
(***************************************************************************)
THEOREM BenchFailuresBounded == Spec => []FailuresBounded
<1>1. LeaderInv => FailuresBounded
  BY DEF LeaderInv
<1>2. QED
  BY <1>1, LeaderInvariant, PTL

(***************************************************************************)
(* Reputation makes honest replicas lead in turn: none is ever two rounds  *)
(* ahead of another (reputation/store.go:27-36, 123-146).                  *)
(***************************************************************************)
THEOREM BenchLeadersBalanced == Spec => []LeadersBalanced
<1>1. LeaderInv => LeadersBalanced
  BY DEF LeaderInv, LedInTurn, Honest, LeadersBalanced
<1>2. QED
  BY <1>1, LeaderInvariant, PTL

-----------------------------------------------------------------------------
(***************************************************************************)
(* The transactions of a set of blocks.  The sum takes the blocks in some  *)
(* order, and is the same in any other.                                    *)
(***************************************************************************)
Transactions(S) == MapThenSumSet(LAMBDA b : Len(b.batch), S)

\* Sums over the subsets of a set, each from that of a smaller one.
Taken(s) == CHOOSE x \in s : TRUE

PartialSum(g, s) == IF s = {} THEN 0 ELSE Len(Taken(s).batch) + g[s \ {Taken(s)}]

SumsOver(S, g) == g = [s \in SUBSET S |-> PartialSum(g, s)]

\* A smaller set and a block that is not in it.
LEMMA TakenFacts ==
  ASSUME NEW s, IsFiniteSet(s), s # {}
  PROVE  /\ Taken(s) \in s
         /\ \A x \in s : IsFiniteSet(s \ {x}) /\ Cardinality(s \ {x}) = Cardinality(s) - 1
         /\ Cardinality(s) \in Nat /\ Cardinality(s) > 0
<1>1. Taken(s) \in s
  BY DEF Taken
<1>2. Cardinality(s) \in Nat /\ Cardinality(s) # 0
  BY FS_CardinalityType, FS_EmptySet
<1>3. \A x \in s : IsFiniteSet(s \ {x}) /\ Cardinality(s \ {x}) = Cardinality(s) - 1
  BY FS_RemoveElement
<1>4. QED
  BY <1>1, <1>2, <1>3

\* The definition of the sum has a solution, so the sum is one.
LEMMA SumUnfolds ==
  ASSUME NEW S, IsFiniteSet(S)
  PROVE  \E g : SumsOver(S, g) /\ Transactions(S) = g[S]
<1> DEFINE Upto(n, g) == /\ g = [s \in SUBSET S |-> g[s]]
                         /\ \A s \in SUBSET S : Cardinality(s) <= n => g[s] = PartialSum(g, s)
           Solved == {n \in Nat : \E g : Upto(n, g)}
<1>1. \A s \in SUBSET S : IsFiniteSet(s) /\ Cardinality(s) \in Nat
                            /\ Cardinality(s) <= Cardinality(S)
  BY FS_Subset, FS_CardinalityType
<1>2. 0 \in Solved
  <2> DEFINE g == [s \in SUBSET S |-> 0]
  <2>1. \A s \in SUBSET S : Cardinality(s) <= 0 => s = {}
    BY <1>1, FS_EmptySet
  <2>2. Upto(0, g)
    BY <2>1 DEF PartialSum
  <2> HIDE DEF g, Upto
  <2>3. QED
    BY <2>2
<1>3. ASSUME NEW n \in Nat, n \in Solved PROVE n + 1 \in Solved
  <2>1. PICK g : Upto(n, g)
    BY <1>3
  <2> DEFINE h == [s \in SUBSET S |-> IF Cardinality(s) <= n THEN g[s] ELSE PartialSum(g, s)]
  <2>2. ASSUME NEW s \in SUBSET S, Cardinality(s) <= n + 1 PROVE h[s] = PartialSum(h, s)
    <3>1. h[s] = PartialSum(g, s)
      BY <2>1
    <3>2. CASE s = {}
      BY <3>1, <3>2 DEF PartialSum
    <3>3. CASE s # {}
      <4> DEFINE rest == s \ {Taken(s)}
      <4>1. rest \in SUBSET S /\ Cardinality(rest) <= n
        BY <1>1, <2>2, <3>3, TakenFacts
      <4>2. h[rest] = g[rest]
        BY <4>1
      <4> HIDE DEF h
      <4>3. QED
        BY <3>1, <3>3, <4>2 DEF PartialSum
    <3>4. QED
      BY <3>2, <3>3
  <2>3. Upto(n + 1, h)
    BY <2>2
  <2> HIDE DEF h, Upto
  <2>4. QED
    BY <2>3
<1>4. PICK g : Upto(Cardinality(S), g)
  <2> HIDE DEF Solved
  <2>1. Cardinality(S) \in Solved
    BY <1>1, <1>2, <1>3, InductionOnSet
  <2>2. QED
    BY <2>1 DEF Solved
<1>5. SumsOver(S, g)
  <2>1. \A s \in SUBSET S : g[s] = PartialSum(g, s)
    BY <1>1, <1>4
  <2>2. g = [s \in SUBSET S |-> g[s]]
    BY <1>4
  <2>3. [s \in SUBSET S |-> g[s]] = [s \in SUBSET S |-> PartialSum(g, s)]
    BY <2>1
  <2>4. QED
    BY <2>2, <2>3, Zenon DEF SumsOver
<1> DEFINE sum == CHOOSE h : h = [s \in SUBSET S |-> PartialSum(h, s)]
<1>6. sum = [s \in SUBSET S |-> PartialSum(sum, s)]
  BY <1>5, Zenon DEF SumsOver
<1>7. Transactions(S) = sum[S]
  BY Zenon DEF Transactions, PartialSum, Taken, MapThenSumSet, MapThenFoldSet
<1>8. QED
  BY <1>6, <1>7, Zenon DEF SumsOver

\* Whichever block is taken first, the sum is a number and the same.
LEMMA AnyTaken ==
  ASSUME NEW S, IsFiniteSet(S), S \subseteq Block, NEW g, SumsOver(S, g)
  PROVE  \A s \in SUBSET S :
           g[s] \in Nat /\ \A x \in s : g[s] = Len(x.batch) + g[s \ {x}]
<1> DEFINE Good(s) == g[s] \in Nat /\ \A x \in s : g[s] = Len(x.batch) + g[s \ {x}]
           Ns == {n \in Nat : \A s \in SUBSET S : Cardinality(s) <= n => Good(s)}
<1>1. \A s \in SUBSET S : IsFiniteSet(s) /\ Cardinality(s) \in Nat
  BY FS_Subset, FS_CardinalityType
<1>2. \A s \in SUBSET S : g[s] = PartialSum(g, s)
  BY DEF SumsOver
<1>3. \A x \in S : Len(x.batch) \in Nat
  BY DEF Block
<1>4. 0 \in Ns
  <2>1. ASSUME NEW s \in SUBSET S, Cardinality(s) <= 0 PROVE Good(s)
    <3>1. s = {}
      BY <1>1, <2>1, FS_EmptySet
    <3>2. g[s] = 0
      BY <1>2, <3>1 DEF PartialSum
    <3>3. QED
      BY <3>1, <3>2
  <2> HIDE DEF Good
  <2>2. QED
    BY <2>1
<1>5. ASSUME NEW n \in Nat, n \in Ns PROVE n + 1 \in Ns
  <2>1. SUFFICES ASSUME NEW s \in SUBSET S, Cardinality(s) <= n + 1, s # {} PROVE Good(s)
    <3>1. Cardinality({}) <= n
      BY FS_EmptySet
    <3>2. Good({})
      BY <1>5, <3>1
    <3> HIDE DEF Good
    <3>3. QED
      BY <3>2
  <2> DEFINE c == Taken(s)
             w(x) == Len(x.batch)
  <2>2. IsFiniteSet(s)
    BY <1>1
  <2>3. c \in s /\ \A x \in s : Cardinality(s \ {x}) <= n /\ s \ {x} \in SUBSET S
    BY <2>1, <2>2, TakenFacts
  <2>4. \A x \in s : Good(s \ {x})
    BY <1>5, <2>3
  <2>5. g[s] = w(c) + g[s \ {c}]
    BY <1>2, <2>1, <2>2 DEF PartialSum
  <2>6. w(c) \in Nat /\ g[s] \in Nat
    <3>1. w(c) \in Nat
      BY <1>3, <2>1, <2>3
    <3>2. g[s \ {c}] \in Nat
      BY <2>3, <2>4
    <3> HIDE DEF w, c
    <3>3. QED
      BY <2>5, <3>1, <3>2
  <2> HIDE DEF c
  <2>7. ASSUME NEW x \in s, x # c PROVE g[s] = w(x) + g[s \ {x}]
    <3> DEFINE both == (s \ {c}) \ {x}
    <3>1. g[s \ {c}] = w(x) + g[both]
      BY <2>3, <2>4, <2>7
    <3>2. g[s \ {x}] = w(c) + g[both]
      <4>1. (s \ {x}) \ {c} = both
        OBVIOUS
      <4>2. g[s \ {x}] = w(c) + g[(s \ {x}) \ {c}]
        BY <2>3, <2>4, <2>7
      <4>3. QED
        BY <4>1, <4>2
    <3>3. g[both] \in Nat
      <4>1. s \ {c} \in SUBSET S /\ Cardinality(s \ {c}) <= n /\ x \in s \ {c}
        BY <2>3, <2>7
      <4>2. IsFiniteSet(s \ {c})
        BY <1>1, <4>1
      <4>3. Cardinality(both) <= n /\ both \in SUBSET S
        BY <1>1, <4>1, <4>2, FS_RemoveElement
      <4>4. Good(both)
        BY <1>5, <4>3
      <4>5. QED
        BY <4>4
    <3>4. w(x) \in Nat
      BY <1>3, <2>1, <2>7
    <3> HIDE DEF both, w
    <3>5. QED
      BY <2>5, <2>6, <3>1, <3>2, <3>3, <3>4
  <2>8. QED
    BY <2>5, <2>6, <2>7
<1>6. Nat \subseteq Ns
  <2> HIDE DEF Ns
  <2>1. QED
    BY <1>4, <1>5, InductionOnSet
<1>7. QED
  BY <1>1, <1>6

\* Two sums agree on the sets both are defined on.
LEMMA SumsAgree ==
  ASSUME NEW S, IsFiniteSet(S), NEW T \in SUBSET S,
         NEW g, SumsOver(S, g), NEW h, SumsOver(T, h)
  PROVE  g[T] = h[T]
<1> DEFINE Ns == {n \in Nat : \A s \in SUBSET T : Cardinality(s) <= n => g[s] = h[s]}
<1>1. IsFiniteSet(T) /\ \A s \in SUBSET T : IsFiniteSet(s) /\ Cardinality(s) \in Nat
  BY FS_Subset, FS_CardinalityType
<1>2. \A s \in SUBSET T : g[s] = PartialSum(g, s) /\ h[s] = PartialSum(h, s)
  BY DEF SumsOver
<1>3. 0 \in Ns
  <2>1. \A s \in SUBSET T : Cardinality(s) <= 0 => s = {}
    BY <1>1, FS_EmptySet
  <2>2. QED
    BY <1>2, <2>1 DEF PartialSum
<1>4. ASSUME NEW n \in Nat, n \in Ns PROVE n + 1 \in Ns
  <2>1. SUFFICES ASSUME NEW s \in SUBSET T, Cardinality(s) <= n + 1 PROVE g[s] = h[s]
    OBVIOUS
  <2>2. CASE s = {}
    BY <1>2, <2>2 DEF PartialSum
  <2>3. CASE s # {}
    <3> DEFINE rest == s \ {Taken(s)}
    <3>1. rest \in SUBSET T /\ Cardinality(rest) <= n
      BY <1>1, <2>1, <2>3, TakenFacts
    <3>2. g[rest] = h[rest]
      BY <1>4, <3>1
    <3>3. QED
      BY <1>2, <2>3, <3>2 DEF PartialSum
  <2>4. QED
    BY <2>2, <2>3
<1>5. Nat \subseteq Ns
  <2> HIDE DEF Ns
  <2>1. QED
    BY <1>3, <1>4, InductionOnSet
<1>6. QED
  BY <1>1, <1>5

\* No block has no transactions; one more block has its own as well.
LEMMA TransactionsNone == Transactions({}) = 0
<1>1. IsFiniteSet({})
  BY FS_EmptySet
<1>2. PICK g : SumsOver({}, g) /\ Transactions({}) = g[{}]
  BY <1>1, SumUnfolds
<1>3. g[{}] = PartialSum(g, {})
  BY <1>2 DEF SumsOver
<1>4. QED
  BY <1>2, <1>3 DEF PartialSum

LEMMA TransactionsAdd ==
  ASSUME NEW S, IsFiniteSet(S), S \subseteq Block, NEW x \in Block, x \notin S
  PROVE  /\ Transactions(S) \in Nat
         /\ Transactions(S \cup {x}) = Len(x.batch) + Transactions(S)
<1> DEFINE T == S \cup {x}
<1>1. IsFiniteSet(T) /\ T \subseteq Block /\ S \in SUBSET T /\ T \ {x} = S
  BY FS_AddElement
<1>2. PICK g : SumsOver(T, g) /\ Transactions(T) = g[T]
  BY <1>1, SumUnfolds
<1>3. PICK h : SumsOver(S, h) /\ Transactions(S) = h[S]
  BY SumUnfolds
<1>4. g[S] = h[S]
  BY <1>1, <1>2, <1>3, SumsAgree
<1>5. g[T] = Len(x.batch) + g[T \ {x}] /\ g[S] \in Nat
  <2>1. x \in T
    OBVIOUS
  <2> HIDE DEF T
  <2>2. \A s \in SUBSET T :
          g[s] \in Nat /\ \A y \in s : g[s] = Len(y.batch) + g[s \ {y}]
    BY <1>1, <1>2, AnyTaken
  <2>3. QED
    BY <1>1, <2>1, <2>2
<1>6. QED
  BY <1>1, <1>2, <1>3, <1>4, <1>5

-----------------------------------------------------------------------------
(***************************************************************************)
(* A height has one block in the store: a round that failed left one at    *)
(* the height the next round is for, and that one proposes it again or     *)
(* another with the same hash.                                             *)
(***************************************************************************)
OnePerHeight ==
  /\ IsFiniteSet(chain) /\ Genesis \in chain
  /\ \A x, y \in chain : x.height = y.height => x = y
  /\ \A x \in chain :
       x.height <= curHeight /\ (x.height = curHeight => x.parent = lastHash)

\* The window holds the last four certified blocks, each the parent of the next.
LastFour ==
  /\ Len(window) = IF curHeight > 4 THEN 4 ELSE curHeight - 1
  /\ \A i \in DOMAIN window :
       window[i].height = (curHeight + i) - (Len(window) + 1)
  /\ \A i \in DOMAIN window \ {1} : window[i].parent = HashBlock(window[i - 1])
  /\ window # << >> => lastHash = HashBlock(window[Len(window)])

\* The blocks of a store that are delivered before height h is proposed.
Behind(store, h) == {x \in store : x.height + 5 <= h}

DeliveredInv ==
  /\ OnePerHeight /\ LastFour
  /\ delivered = Transactions(Behind(chain, curHeight))

-----------------------------------------------------------------------------
\* Storing the next block keeps one per height, whatever was left at its own.
LEMMA PutOverwrites ==
  ASSUME TypeOK, OnePerHeight, NEW b \in Block,
         HashBlock(b) # lastHash, b.parent = lastHash, b.height = curHeight
  PROVE  /\ IsFiniteSet(Put(chain, b)) /\ Genesis \in Put(chain, b) /\ b \in Put(chain, b)
         /\ \A x \in Put(chain, b) : x = b \/ (x \in chain /\ x.height < curHeight)
         /\ \A x \in chain : x.height < curHeight => x \in Put(chain, b)
         /\ \A x, y \in Put(chain, b) : x.height = y.height => x = y
<1>1. chain \subseteq Block /\ curHeight \in Nat /\ curHeight >= 1
  BY BenchAssumption DEF TypeOK
<1>2. /\ \A x \in Put(chain, b) : x \in chain \/ x = b
      /\ \A x \in chain : x.height < curHeight => x \in Put(chain, b)
      /\ b \in Put(chain, b) /\ Get(Put(chain, b), HashBlock(b)) = {b}
  BY PutNext
<1>3. ASSUME NEW x \in Put(chain, b), x # b PROVE x \in chain /\ x.height < curHeight
  <2>1. x \in chain /\ x.height \in Nat /\ x.height <= curHeight
    BY <1>1, <1>2, <1>3 DEF OnePerHeight, Block
  <2>2. ASSUME x.height = curHeight PROVE FALSE
    <3>1. HashBlock(x) = HashBlock(b)
      BY <2>1, <2>2 DEF OnePerHeight, HashBlock
    <3>2. x \in Get(Put(chain, b), HashBlock(b))
      BY <3>1 DEF Get
    <3>3. QED
      BY <1>2, <1>3, <3>2
  <2>3. QED
    BY <1>1, <2>1, <2>2
<1>4. IsFiniteSet(Put(chain, b))
  <2>1. IsFiniteSet(chain \cup {b})
    BY FS_AddElement DEF OnePerHeight
  <2>2. Put(chain, b) \subseteq chain \cup {b}
    BY <1>2
  <2>3. QED
    BY <2>1, <2>2, FS_Subset
<1>5. Genesis \in Put(chain, b)
  <2>1. Genesis \in chain /\ Genesis.height = 0
    BY DEF OnePerHeight, Genesis
  <2>2. QED
    BY <1>1, <1>2, <2>1
<1>6. ASSUME NEW x \in Put(chain, b), NEW y \in Put(chain, b), x.height = y.height
      PROVE  x = y
  <2>1. CASE x = b \/ y = b
    BY <1>1, <1>3, <1>6, <2>1
  <2>2. CASE x # b /\ y # b
    BY <1>3, <1>6, <2>2 DEF OnePerHeight
  <2>3. QED
    BY <2>1, <2>2
<1>7. QED
  BY <1>2, <1>3, <1>4, <1>5, <1>6

\* The slots after a slide: the old ones, one up if the window was full, and the new.
LEMMA SlideSlots ==
  ASSUME NEW S, NEW w \in Seq(S), Len(w) <= 4, NEW b, NEW v, v = Slide(w, b),
         NEW d, d = IF Len(w) = 4 THEN 1 ELSE 0
  PROVE  /\ Len(v) = (Len(w) - d) + 1
         /\ \A i \in 1 .. Len(w) - d : v[i] = w[i + d]
         /\ v[(Len(w) - d) + 1] = b
<1> DEFINE U == S \cup {b}
<1>1. Len(w) \in Nat /\ w \in Seq(U) /\ b \in U
  BY SeqEqual
<1>2. CASE Len(w) = 4
  <2>1. w \in Seq(S) /\ w # << >>
    BY <1>2, w = << >> => Len(w) = 0
  <2>2. PICK t \in Seq(S) : t = Tail(w) /\ Len(t) = Len(w) - 1
    BY <2>1, HeadTailProperties
  <2>3. \A i \in 1 .. Len(Tail(w)) : Tail(w)[i] = w[i + 1]
    BY <2>1
  <2>4. Len(t) = 3 /\ \A i \in 1 .. 3 : t[i] = w[i + 1]
    <3>1. Len(t) = 3
      BY <1>2, <2>2
    <3>2. \A i \in 1 .. Len(t) : t[i] = w[i + 1]
      BY <2>2, <2>3, Zenon
    <3>3. QED
      BY <3>1, <3>2
  <2>5. v = Append(t, b)
    BY <1>2, <2>2 DEF Slide
  <2>6. /\ Len(v) = Len(t) + 1 /\ v[Len(t) + 1] = b
        /\ \A i \in 1 .. Len(t) : v[i] = t[i]
    <3>1. t \in Seq(U)
      BY SeqEqual
    <3>2. QED
      BY <1>1, <2>5, <3>1, AppendProperties
  <2>7. d = 1
    BY <1>2
  <2>8. Len(v) = 4 /\ v[4] = b /\ \A i \in 1 .. 3 : v[i] = w[i + 1]
    BY <2>4, <2>6
  <2>9. QED
    BY <1>2, <2>7, <2>8
<1>3. CASE Len(w) # 4
  <2>1. v = Append(w, b) /\ d = 0
    BY <1>3 DEF Slide
  <2>2. /\ Len(v) = Len(w) + 1 /\ v[Len(w) + 1] = b
        /\ \A i \in 1 .. Len(w) : v[i] = w[i]
    BY <1>1, <2>1, AppendProperties
  <2>3. QED
    BY <1>1, <2>1, <2>2
<1>4. QED
  BY <1>2, <1>3

\* The window after a round: the block of the round and the three before it.
LEMMA SlideLastFour ==
  ASSUME TypeOK, LastFour, NEW b, b.height = curHeight, b.parent = lastHash,
         window' = Slide(window, b), lastHash' = HashBlock(b), curHeight' = curHeight + 1
  PROVE  LastFour'
<1> PICK h \in Nat : h = curHeight
  BY BenchAssumption DEF TypeOK
<1> PICK n \in Nat : n = Len(window)
  BY DEF TypeOK
<1> PICK d \in {0, 1} : d = IF n = 4 THEN 1 ELSE 0
  OBVIOUS
<1>1. /\ h >= 1 /\ n = IF h > 4 THEN 4 ELSE h - 1
      /\ window \in Seq(chain) /\ DOMAIN window = 1 .. n
  <2>1. curHeight >= 1 /\ window \in Seq(chain)
    BY BenchAssumption DEF TypeOK
  <2>2. Len(window) = IF curHeight > 4 THEN 4 ELSE curHeight - 1
    BY DEF LastFour
  <2>3. DOMAIN window = 1 .. Len(window)
    BY <2>1
  <2>4. QED
    BY <2>1, <2>2, <2>3
<1>2. /\ \A i \in 1 .. n : window[i].height = (h + i) - (n + 1)
      /\ \A i \in 2 .. n : window[i].parent = HashBlock(window[i - 1])
      /\ n >= 1 => lastHash = HashBlock(window[n])
  <2>1. \A i \in 2 .. n : i \in DOMAIN window \ {1}
    BY <1>1
  <2>2. n >= 1 => window # << >>
    BY window = << >> => Len(window) = 0
  <2>3. QED
    BY <1>1, <2>1, <2>2 DEF LastFour
<1>3. /\ Len(window') = (n - d) + 1
      /\ \A i \in 1 .. n - d : window'[i] = window[i + d]
      /\ window'[(n - d) + 1] = b
  <2>1. Len(window) <= 4
    BY <1>1
  <2>2. d = IF Len(window) = 4 THEN 1 ELSE 0
    OBVIOUS
  <2>3. window \in Seq(chain)
    BY <1>1
  <2>4. PICK v, w : v = window' /\ w = window
    OBVIOUS
  <2>5. w \in Seq(chain) /\ Len(w) <= 4 /\ v = Slide(w, b) /\ d = IF Len(w) = 4 THEN 1 ELSE 0
    BY <2>1, <2>2, <2>3, <2>4, Zenon
  <2>6. /\ Len(v) = (Len(w) - d) + 1
        /\ \A i \in 1 .. Len(w) - d : v[i] = w[i + d]
        /\ v[(Len(w) - d) + 1] = b
    BY ONLY <2>5, SlideSlots
  <2>7. QED
    BY <2>4, <2>6
<1> PICK m \in Nat : m = (n - d) + 1
  <2>1. (n - d) + 1 \in Nat
    OBVIOUS
  <2>2. QED
    BY <2>1
<1>4. DOMAIN window' = 1 .. m
  <2>1. Slide(window, b) \in Seq(chain \cup {b})
    <3>1. window \in Seq(chain) /\ Len(window) <= 4
      BY DEF TypeOK
    <3>2. b \in chain \cup {b} /\ \A i \in DOMAIN window : window[i] \in chain \cup {b}
      BY <3>1
    <3>3. QED
      BY <3>1, <3>2, SlideType
  <2>2. QED
    BY <1>3, <2>1
<1>5. Len(window') = IF h + 1 > 4 THEN 4 ELSE (h + 1) - 1
  <2>1. Len(window') = m
    BY <1>3, Zenon
  <2>2. /\ h \in Nat /\ h >= 1 /\ n = IF h > 4 THEN 4 ELSE h - 1
        /\ d = (IF n = 4 THEN 1 ELSE 0) /\ m = (n - d) + 1
    BY <1>1, Zenon
  <2>3. m = IF h + 1 > 4 THEN 4 ELSE (h + 1) - 1
    BY ONLY <2>2
  <2>4. QED
    BY <2>1, <2>3, Zenon
<1>6. ASSUME NEW i \in 1 .. m PROVE window'[i].height = ((h + 1) + i) - (m + 1)
  <2>1. CASE i = m
    BY <1>3, <2>1
  <2>2. CASE i # m
    <3>1. i \in 1 .. n - d /\ i + d \in 1 .. n
      BY <1>1, <2>2
    <3>2. window'[i].height = (h + (i + d)) - (n + 1)
      BY <1>2, <1>3, <3>1
    <3>3. (h + (i + d)) - (n + 1) = ((h + 1) + i) - (m + 1)
      OBVIOUS
    <3>4. QED
      BY <3>2, <3>3
  <2>3. QED
    BY <2>1, <2>2
<1>7. ASSUME NEW i \in 2 .. m PROVE window'[i].parent = HashBlock(window'[i - 1])
  <2>1. i - 1 \in 1 .. n - d /\ (i - 1) + d \in 1 .. n
    BY <1>1
  <2>2. window'[i - 1] = window[(i - 1) + d]
    BY <1>3, <2>1
  <2>3. CASE i = m
    <3>1. n >= 1
      BY <2>3
    <3>2. (i - 1) + d = n
      BY <2>3
    <3>3. window'[i - 1] = window[n] /\ window'[i] = b
      BY <1>3, <2>2, <2>3, <3>2
    <3>4. QED
      BY <1>2, <3>1, <3>3
  <2>4. CASE i # m
    <3>1. i \in 1 .. n - d /\ i + d \in 2 .. n
      BY <1>1, <2>4
    <3>2. window'[i] = window[i + d]
      BY <1>3, <3>1
    <3>3. window[i + d].parent = HashBlock(window[(i + d) - 1])
      BY <1>2, <3>1
    <3>4. (i + d) - 1 = (i - 1) + d
      OBVIOUS
    <3>5. QED
      BY <2>2, <3>2, <3>3, <3>4
  <2>5. QED
    BY <2>3, <2>4
<1>8. Len(window') = m /\ lastHash' = HashBlock(window'[m]) /\ curHeight' = h + 1
  BY <1>3
<1>9. \A i \in DOMAIN window' \ {1} : i \in 2 .. m
  BY <1>4
<1>10. QED
  BY <1>4, <1>5, <1>6, <1>7, <1>8, <1>9 DEF LastFour

\* What a round delivers: the block that is now four behind the last one.
LEMMA LeavingFourth ==
  ASSUME TypeOK, LastFour
  PROVE  /\ curHeight <= 4 => Leaving(window) = {}
         /\ curHeight > 4 => \E x \in chain : /\ Leaving(window) = {x}
                                              /\ x.height = curHeight - 4
<1>1. curHeight \in Nat /\ curHeight >= 1 /\ window \in Seq(chain)
  BY BenchAssumption DEF TypeOK
<1>2. CASE curHeight <= 4
  <2>1. Len(window) # 4
    BY <1>1, <1>2 DEF LastFour
  <2>2. QED
    BY <1>1, <1>2, <2>1 DEF Leaving
<1>3. CASE curHeight > 4
  <2>1. Len(window) = 4 /\ DOMAIN window = 1 .. 4
    BY <1>1, <1>3 DEF LastFour
  <2>2. window[1] \in chain /\ window[1].height = curHeight - 4
    <3>1. 1 \in DOMAIN window
      BY <2>1
    <3>2. window[1].height = (curHeight + 1) - (4 + 1)
      BY <2>1, <3>1 DEF LastFour
    <3>3. (curHeight + 1) - (4 + 1) = curHeight - 4
      BY <1>1
    <3>4. QED
      BY <1>1, <3>1, <3>2, <3>3
  <2>3. \A i \in 1 .. 3 : window[i + 1].parent = HashBlock(window[i])
    <3>1. TAKE i \in 1 .. 3
    <3>2. i + 1 \in DOMAIN window \ {1} /\ (i + 1) - 1 = i
      BY <2>1
    <3>3. window[i + 1].parent = HashBlock(window[(i + 1) - 1])
      BY <3>2 DEF LastFour
    <3>4. QED
      BY <3>2, <3>3
  <2>4. Leaving(window) = {window[1]}
    BY <2>1, <2>3 DEF Leaving
  <2>5. QED
    BY <1>1, <1>3, <2>2, <2>4
<1>4. QED
  BY <1>1, <1>2, <1>3

LEMMA CertifiedDelivers ==
  ASSUME TypeOK, DeliveredInv, NEW batch \in Seq(MembershipRequest), NEW conf \in Nat,
         NEW qc, Certified(NextBlock(batch, conf), qc)
  PROVE  DeliveredInv'
<1> PICK b \in Block : b = NextBlock(batch, conf)
  BY NextBlockType
<1> PICK h \in Nat : h = curHeight
  BY BenchAssumption DEF TypeOK
<1>1. /\ HashBlock(b) # lastHash /\ b.parent = lastHash /\ b.height = h
      /\ chain \subseteq Block /\ h >= 1
  BY BenchAssumption, NextBlockType DEF TypeOK
<1>2. /\ chain' = Put(chain, b) /\ window' = Slide(window, b)
      /\ lastHash' = HashBlock(b) /\ curHeight' = h + 1
      /\ delivered' = delivered + (IF Leaving(window) = {} THEN 0
                                   ELSE Len((CHOOSE x \in Leaving(window) : TRUE).batch))
  BY DEF Certified
<1>3. /\ IsFiniteSet(chain') /\ Genesis \in chain'
      /\ \A x \in chain' : x = b \/ (x \in chain /\ x.height < h)
      /\ \A x \in chain : x.height < h => x \in chain'
      /\ \A x, y \in chain' : x.height = y.height => x = y
  BY <1>1, <1>2, PutOverwrites DEF DeliveredInv
<1>4. OnePerHeight'
  <2>1. \A x \in chain' : x.height <= h /\ x.height \in Nat
    BY <1>1, <1>3 DEF Block
  <2>2. QED
    BY <1>2, <1>3, <2>1 DEF OnePerHeight
<1>5. LastFour'
  BY <1>1, <1>2, SlideLastFour DEF DeliveredInv
<1>6. delivered = Transactions(Behind(chain, h)) /\ delivered \in Nat
  BY DEF DeliveredInv, TypeOK
<1>7. delivered' = Transactions(Behind(chain', h + 1))
  <2>1. \A x \in chain : x.height \in Nat
    BY <1>1 DEF Block
  <2>2. IsFiniteSet(Behind(chain, h)) /\ Behind(chain, h) \subseteq Block
    BY <1>1, FS_Subset DEF Behind, DeliveredInv, OnePerHeight
  <2>3. \A x : x \in Behind(chain', h + 1) <=> x \in chain /\ x.height + 4 <= h
    BY <1>1, <1>3, <2>1 DEF Behind
  <2>4. \A x : x \in Behind(chain, h) <=> x \in chain /\ x.height + 5 <= h
    BY DEF Behind
  <2>5. ASSUME NEW x \in chain, x.height + 4 = h
        PROVE  Transactions(Behind(chain', h + 1)) = Len(x.batch) + delivered
    <3>1. x \in Block /\ x \notin Behind(chain, h)
      BY <1>1, <2>1, <2>4, <2>5
    <3>2. ASSUME NEW y \in chain, y.height + 4 <= h, y # x PROVE y.height + 5 <= h
      <4>1. y.height # x.height
        BY <3>2 DEF DeliveredInv, OnePerHeight
      <4>2. QED
        BY <2>1, <2>5, <3>2, <4>1
    <3>3. Behind(chain', h + 1) = Behind(chain, h) \cup {x}
      BY <2>1, <2>3, <2>4, <2>5, <3>2
    <3>4. QED
      BY <1>6, <2>2, <3>1, <3>3, TransactionsAdd
  <2>6. CASE h < 4
    <3>1. Behind(chain', h + 1) = {}
      BY <2>1, <2>3, <2>6
    <3>2. Behind(chain, h) = {}
      BY <2>1, <2>4, <2>6
    <3>3. Leaving(window) = {}
      BY <2>6, LeavingFourth DEF DeliveredInv
    <3>4. delivered = 0 /\ delivered' = delivered
      BY <1>2, <1>6, <3>2, <3>3, TransactionsNone
    <3>5. QED
      BY <3>1, <3>4, TransactionsNone
\* The genesis block falls behind without having been in the window: it is empty.
  <2>7. CASE h = 4
    <3>1. Genesis \in chain /\ Genesis.height + 4 = h /\ Len(Genesis.batch) = 0
      BY <2>7 DEF DeliveredInv, OnePerHeight, Genesis
    <3>2. Leaving(window) = {}
      BY <2>7, LeavingFourth DEF DeliveredInv
    <3>3. QED
      BY <1>2, <1>6, <2>5, <3>1, <3>2
  <2>8. CASE h > 4
    <3>1. PICK x \in chain : Leaving(window) = {x} /\ x.height = h - 4
      BY <2>8, LeavingFourth DEF DeliveredInv
    <3>2. x.height + 4 = h /\ Len(x.batch) \in Nat
      BY <1>1, <3>1 DEF Block
    <3>3. (CHOOSE y \in Leaving(window) : TRUE) = x
      BY <3>1
    <3>4. delivered' = delivered + Len(x.batch)
      BY <1>2, <3>1, <3>3
    <3>5. QED
      BY <1>6, <2>5, <3>2, <3>4
  <2>9. QED
    BY <2>6, <2>7, <2>8
<1>8. QED
  BY <1>2, <1>4, <1>5, <1>7 DEF DeliveredInv

\* A round that fails leaves a block at the height of the next one, and delivers none.
LEMMA FailRoundDelivers ==
  ASSUME TypeOK, DeliveredInv, NEW batch \in Batches, FailRound(batch)
  PROVE  DeliveredInv'
<1> DEFINE conf == Latest(configs).number
<1>1. batch \in Seq(MembershipRequest)
  BY BenchAssumption
<1>2. conf \in Nat
  BY DEF Latest, TypeOK, IsStore
<1> HIDE DEF conf
<1> PICK b \in Block : b = NextBlock(batch, conf)
  BY <1>1, <1>2, NextBlockType
<1> PICK h \in Nat : h = curHeight
  BY BenchAssumption DEF TypeOK
<1>3. HashBlock(b) # lastHash /\ b.parent = lastHash /\ b.height = h
  BY <1>1, <1>2, NextBlockType
<1>4. chain' = Put(chain, b) /\ UNCHANGED <<window, lastHash, curHeight, delivered>>
  BY DEF FailRound, conf
<1>5. /\ IsFiniteSet(chain') /\ Genesis \in chain'
      /\ \A x \in chain' : x = b \/ (x \in chain /\ x.height < h)
      /\ \A x \in chain : x.height < h => x \in chain'
      /\ \A x, y \in chain' : x.height = y.height => x = y
  BY <1>3, <1>4, PutOverwrites DEF DeliveredInv
<1>6. \A x \in chain : x.height \in Nat
  BY DEF TypeOK, Block
<1>7. OnePerHeight'
  BY <1>3, <1>4, <1>5, <1>6 DEF OnePerHeight
<1>8. LastFour'
  BY <1>4 DEF DeliveredInv, LastFour
<1>9. Behind(chain', h) = Behind(chain, h)
  <2>1. \A x \in chain : x.height + 5 <= h => x.height < h
    BY <1>6
  <2>2. ~(h + 5 <= h)
    OBVIOUS
  <2>3. QED
    BY <1>3, <1>5, <2>1, <2>2 DEF Behind
<1>10. QED
  BY <1>4, <1>7, <1>8, <1>9 DEF DeliveredInv

\* A cluster before its first round has delivered nothing.
LEMMA FreshDelivers ==
  ASSUME curHeight = 1, lastHash = HashBlock(Genesis), chain = {Genesis},
         window = << >>, delivered = 0
  PROVE  DeliveredInv
<1>1. OnePerHeight
  <2>1. Genesis.height = 0
    BY DEF Genesis
  <2>2. IsFiniteSet({Genesis})
    BY FS_Singleton
  <2>3. QED
    BY <2>1, <2>2 DEF OnePerHeight
<1>2. LastFour
  BY DEF LastFour
<1>3. Behind(chain, curHeight) = {}
  BY DEF Behind, Genesis
<1>4. QED
  BY <1>1, <1>2, <1>3, TransactionsNone DEF DeliveredInv

LEMMA InitDeliveredInv == Init => DeliveredInv
BY FreshDelivers DEF Init, FreshCluster

LEMMA NextDeliveredInv == IInv /\ DeliveredInv /\ [Next]_vars => DeliveredInv'
<1> SUFFICES ASSUME IInv, DeliveredInv, [Next]_vars PROVE DeliveredInv'
  OBVIOUS
<1>1. TypeOK
  BY DEF IInv
<1>2. ASSUME NEW batch \in Batches, RunRound(batch) PROVE DeliveredInv'
  <2>1. batch \in Seq(MembershipRequest)
    BY BenchAssumption
  <2>2. PICK conf, qc : conf \in Nat /\ Certified(NextBlock(batch, conf), qc)
    <3>1. Latest(configs).number \in Nat
      BY <1>1 DEF Latest, TypeOK, IsStore
    <3>2. QED
      BY <1>2, <3>1 DEF RunRound
  <2>3. QED
    BY <1>1, <2>1, <2>2, CertifiedDelivers
<1>3. ASSUME NEW batch \in Batches, FailRound(batch) PROVE DeliveredInv'
  BY <1>1, <1>3, FailRoundDelivers
<1>4. CASE HonestRound
  <2>1. bench.batch \in Seq(MembershipRequest)
    BY <1>1, BenchType
  <2>2. PICK qc : Certified(NextBlock(bench.batch, 0), qc)
    BY <1>4 DEF HonestRound
  <2>3. QED
    BY <1>1, <2>1, <2>2, CertifiedDelivers
<1>5. CASE FreshRun
  <2>1. /\ curHeight' = 1 /\ lastHash' = HashBlock(Genesis) /\ chain' = {Genesis}
        /\ window' = << >> /\ delivered' = 0
    BY <1>5 DEF FreshRun, ResetWindow
  <2>2. /\ OnePerHeight' /\ LastFour'
    <3>1. Genesis.height = 0 /\ IsFiniteSet({Genesis})
      BY FS_Singleton DEF Genesis
    <3>2. QED
      BY <2>1, <3>1 DEF OnePerHeight, LastFour
  <2>3. Behind(chain', curHeight') = {}
    BY <2>1 DEF Behind, Genesis
  <2>4. QED
    BY <2>1, <2>2, <2>3, TransactionsNone DEF DeliveredInv
<1>6. CASE UNCHANGED <<curHeight, lastHash, chain, window, delivered>>
  BY <1>6 DEF DeliveredInv, OnePerHeight, LastFour
<1>7. CASE UNCHANGED vars
  BY <1>6, <1>7 DEF vars, roundVars
<1>8. ASSUME NEW rounds \in 1 .. MaxView, NEW batch \in Batches, RunBenchmark(rounds, batch)
      PROVE  DeliveredInv'
  BY <1>6, <1>8 DEF RunBenchmark, roundVars
<1>9. CASE TimeoutRound
  BY <1>6, <1>9 DEF TimeoutRound
<1>10. CASE Reset \/ ResetBenchmark
  BY <1>5, <1>10 DEF Reset, ResetBenchmark
<1>11. QED
  BY <1>2, <1>3, <1>4, <1>7, <1>8, <1>9, <1>10 DEF Next

(***************************************************************************)
(* A block is delivered once, four certified blocks later, whatever        *)
(* timeouts, failed rounds and resets lie in between: what either harness  *)
(* counts as delivered since its last Reset are the transactions of the    *)
(* blocks four or more behind the last one (benchutil/cluster.go:99-120,   *)
(* 318-322).                                                               *)
(***************************************************************************)
THEOREM BenchDeliveredBehind == Spec => []DeliveredBehind
<1>1. DeliveredInv => DeliveredBehind
  BY Zenon DEF DeliveredInv, DeliveredBehind, Transactions, Behind
<1>2. QED
  BY Invariant, InitDeliveredInv, NextDeliveredInv, <1>1, PTL DEF Spec
=============================================================================
