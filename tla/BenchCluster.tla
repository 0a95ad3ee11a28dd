---------------------------- MODULE BenchCluster ----------------------------
(***************************************************************************)
(* The two in-process benchmark harnesses, one caller at a time:           *)
(* internal/benchutil (mode "plain": no faults, the committee follows the  *)
(* membership requests delivered) and internal/repbench (a fixed committee *)
(* with replicas that never propose, led in turn or by reputation).        *)
(*                                                                         *)
(* A round of either proposes a block, signs it with the first keys of the *)
(* cluster, builds a certificate, updates the safety state of every        *)
(* replica and moves the pipeline window, with code of its own for safety  *)
(* rule, window and block store.                                           *)
(***************************************************************************)
EXTENDS QuorumRules, Reputation

CONSTANTS
  Clusters,    \* the genesis committees a cluster is created with
  Batches,     \* the batches a caller passes
  MaxView,     \* bound: the views a cluster reaches
  MaxResets    \* bound: calls of Reset

ASSUME BenchAssumption ==
  /\ Clusters \subseteq
       {c \in Committee :
          /\ c = NewCommittee(0, c.replicas) /\ Len(c.replicas) >= 4
          /\ \A i, j \in DOMAIN c.replicas : c.replicas[i].id = c.replicas[j].id => i = j}
  /\ Batches \subseteq Seq(MembershipRequest)
  /\ MaxView \in Nat /\ MaxView < Wide /\ MaxResets \in Nat

VARIABLES
  mode,          \* "plain", "round-robin" or "reputation"
  faulty,        \* byzantineIDs
  curView,       \* view of the next round
  curHeight,     \* height of the next block
  genericQC,     \* the last certificate
  lastHash,      \* hash of the last certified block
  chain,         \* the block store
  safety,        \* lockedQC and genericQC of every replica
  window,        \* the pipeline's slots without nils, oldest first
  configs,       \* ConfigStore.configs; the keys are the genesis committee's
  delivered,     \* transactions delivered
  viewChanges,   \* rounds whose leader was faulty
  stats,         \* the reputation store
  bench,         \* the RunBenchmark in progress: its locals
  resets         \* history: calls of Reset so far

roundVars == <<curView, curHeight, genericQC, lastHash, chain, safety, window, delivered>>
vars == <<mode, faulty, roundVars, configs, viewChanges, stats, bench, resets>>

-----------------------------------------------------------------------------
Genesis ==
  [parent |-> << >>, height |-> 0, batch |-> << >>, justify |-> NoQC, conf |-> 0]

GenesisQC == [view |-> 0, conf |-> 0, hash |-> HashBlock(Genesis), sigs |-> {}]

\* NewBenchCluster keeps a key per replica of the genesis committee.
Keys == configs[1].replicas

NewSafety == [locked |-> NoQC, generic |-> GenesisQC]

-----------------------------------------------------------------------------
\* Mutated form of VoteOf: the parent is signed again.
VoteOfParent(i, c, hash) ==
  [view |-> curView, conf |-> c.number, hash |-> hash, signer |-> c.replicas[i].id,
   sig |-> Sign(Keys[i].id, curView, c.number, lastHash)]

\* A vote of the i-th member of c, made with the i-th key of the cluster.
VoteOf(i, c, hash) ==
  [view |-> curView, conf |-> c.number, hash |-> hash, signer |-> c.replicas[i].id,
   sig |-> Sign(Keys[i].id, curView, c.number, hash)]

\* The votes of a round, aggregated; fewer than a quorum if keys run out.
Votes(c, hash) ==
  LET n == IF QuorumSize(c) < Len(Keys) THEN QuorumSize(c) ELSE Len(Keys)
  IN  DistinctVotes([i \in 1 .. n |-> VoteOf(i, c, hash)])

SafeNode(s, b, store) ==
  \/ s.locked = NoQC
  \/ b.justify.view > s.locked.view
  \/ Extends(store, b.parent, s.locked.hash)

\* What one replica does with a block and its certificate.
Vouch(s, b, qc, store) ==
  IF ~SafeNode(s, b, store) THEN s
  ELSE [generic |-> qc,
        locked |-> IF Get(store, b.parent) # {} THEN b.justify ELSE s.locked]

\* Mutated form of Slide: no slot is given up.
Grow(w, b) == Append(w, b)

Slide(w, b) == Append(IF Len(w) = 4 THEN Tail(w) ELSE w, b)

\* The block that leaves the window, if the three behind it are its descendants.
Leaving(w) ==
  IF Len(w) = 4 /\ \A i \in 1 .. 3 : w[i + 1].parent = HashBlock(w[i]) THEN {w[1]} ELSE {}

\* deliverCounter.deliver on the configuration store; errors are dropped.
Reconfigured(cs, b) ==
  LET reqs == MembershipRequests(b.batch)
      next == Apply(AtNumber(cs, b.conf), reqs)
  IN  IF reqs # << >> /\ next.ok /\ Installable(cs, next.committee)
      THEN Append(cs, next.committee)
      ELSE cs

NextBlock(batch, conf) ==
  [parent |-> lastHash, height |-> curHeight, batch |-> batch, justify |-> genericQC,
   conf |-> conf]

\* The state of the cluster after a round that certified b.
Certified(b, qc) ==
  LET store == Put(chain, b)
      out   == Leaving(window)
  IN  /\ chain' = store
      /\ safety' = [i \in DOMAIN safety |-> Vouch(safety[i], b, qc, store)]
      /\ window' = Slide(window, b)
      /\ delivered' = delivered + (IF out = {} THEN 0 ELSE Len((CHOOSE x \in out : TRUE).batch))
      /\ genericQC' = qc
      /\ lastHash' = HashBlock(b)
      /\ curView' = curView + 1
      /\ curHeight' = curHeight + 1

-----------------------------------------------------------------------------
Idle == [left |-> 0, batch |-> << >>, consec |-> 0, worst |-> 0]

\* A cluster as NewBenchCluster leaves it.
FreshCluster(c) ==
  /\ configs = <<c>>
  /\ safety = [i \in DOMAIN c.replicas |-> NewSafety]
  /\ curView = 1 /\ curHeight = 1
  /\ genericQC = GenesisQC /\ lastHash = HashBlock(Genesis) /\ chain = {Genesis}
  /\ window = << >>
  /\ delivered = 0

\* NewRepBenchCluster adds the mode, the replicas that fail and the statistics.
Init ==
  /\ mode \in {"plain", "round-robin", "reputation"}
  /\ \E c \in Clusters :
       /\ FreshCluster(c)
       /\ faulty \in IF mode = "plain" THEN {{}} ELSE SUBSET MemberIds(c)
  /\ viewChanges = 0
  /\ stats = NewStore
  /\ bench = Idle
  /\ resets = 0

-----------------------------------------------------------------------------
(***************************************************************************)
(* benchutil.  A round signs as the first members of the latest committee; *)
(* CreateQC errs when there are fewer signers than its quorum, after the   *)
(* block has been stored.  There is no call on an empty committee, which   *)
(* has no first member: the code panics.                                   *)
(***************************************************************************)
RunRound(batch) ==
  /\ mode = "plain" /\ curView <= MaxView
  /\ LET mc    == Latest(configs)
         b     == NextBlock(batch, mc.number)
         votes == Votes(mc, HashBlock(b))
     IN  /\ mc.replicas # << >>
         /\ \E qc \in CreateQC(votes, mc) : Certified(b, qc)
         /\ configs' = IF Leaving(window) = {} THEN configs
                       ELSE Reconfigured(configs, CHOOSE x \in Leaving(window) : TRUE)
  /\ UNCHANGED <<mode, faulty, viewChanges, stats, bench, resets>>

FailRound(batch) ==
  /\ mode = "plain" /\ curView <= MaxView
  /\ LET mc == Latest(configs)
         b  == NextBlock(batch, mc.number)
     IN  /\ mc.replicas # << >> /\ CreateQC(Votes(mc, HashBlock(b)), mc) = {}
         /\ chain' = Put(chain, b)
  /\ UNCHANGED <<mode, faulty, curView, curHeight, genericQC, lastHash, safety, window,
                 delivered, configs, viewChanges, stats, bench, resets>>

-----------------------------------------------------------------------------
(***************************************************************************)
(* repbench.  The leader of the round is recorded before it is known       *)
(* whether it answers; the store is written in reputation mode only.       *)
(***************************************************************************)

\* Mutated form of Leaders: a timeout does not move the rotation.
LeadersByHeight ==
  IF mode = "reputation" THEN Select(stats, configs[1], curHeight)
  ELSE {Leader(configs[1], curHeight).id}

Leaders ==
  IF mode = "reputation" THEN Select(stats, configs[1], curView)
  ELSE {Leader(configs[1], curView).id}

\* Mutated form of Begun: a leader is recorded only if it answers.
BegunIfHonest(leader) ==
  IF mode = "reputation" /\ leader \notin faulty THEN RecordLeaderRound(stats, leader) ELSE stats

Begun(leader) ==
  IF mode = "reputation" THEN RecordLeaderRound(stats, leader) ELSE stats

\* The statistics are kept in reputation mode only.
Recorded(store) == IF mode = "reputation" THEN store ELSE stats

RunBenchmark(rounds, batch) ==
  /\ mode # "plain" /\ bench.left = 0 /\ rounds > 0
  /\ curView + rounds <= MaxView + 1
  /\ bench' = [left |-> rounds, batch |-> batch, consec |-> 0, worst |-> 0]
  /\ UNCHANGED <<mode, faulty, roundVars, configs, viewChanges, stats, resets>>

TimeoutRound ==
  /\ bench.left > 0
  /\ \E leader \in Leaders \cap faulty :
       stats' = Recorded(RecordTimeout(Begun(leader), leader))
  /\ viewChanges' = viewChanges + 1
  /\ curView' = curView + 1
  /\ bench' = [bench EXCEPT !.left = @ - 1, !.consec = @ + 1,
                            !.worst = IF bench.consec + 1 > @ THEN bench.consec + 1 ELSE @]
  /\ UNCHANGED <<mode, faulty, curHeight, genericQC, lastHash, chain, safety, window,
                 delivered, configs, resets>>

HonestRound ==
  /\ bench.left > 0
  /\ \E leader \in Leaders \ faulty :
       stats' = Recorded(RecordCommit(Begun(leader), leader, curHeight))
  /\ LET b == NextBlock(bench.batch, 0)
     IN  \E qc \in CreateQC(Votes(configs[1], HashBlock(b)), configs[1]) : Certified(b, qc)
  /\ bench' = [bench EXCEPT !.left = @ - 1, !.consec = 0]
  /\ UNCHANGED <<mode, faulty, configs, viewChanges, resets>>

-----------------------------------------------------------------------------
\* Mutated form of ResetSafety: the replicas keep their locks.
KeptSafety == safety

ResetSafety == [i \in DOMAIN safety |-> NewSafety]

\* Mutated form of ResetWindow: the blocks of the last run stay in it.
KeptWindow == window

ResetWindow == << >>

\* Neither Reset touches the keys or the configuration store.
FreshRun ==
  /\ curView' = 1 /\ curHeight' = 1
  /\ genericQC' = GenesisQC /\ lastHash' = HashBlock(Genesis) /\ chain' = {Genesis}
  /\ safety' = ResetSafety
  /\ window' = ResetWindow
  /\ delivered' = 0
  /\ UNCHANGED <<mode, faulty, configs, bench>>

Reset ==
  /\ mode = "plain" /\ resets < MaxResets
  /\ resets' = resets + 1
  /\ FreshRun
  /\ UNCHANGED <<viewChanges, stats>>

ResetBenchmark ==
  /\ mode # "plain" /\ bench.left = 0 /\ resets < MaxResets
  /\ resets' = resets + 1
  /\ FreshRun
  /\ viewChanges' = 0
  /\ stats' = Recorded(NewStore)

Next ==
  \/ \E batch \in Batches : RunRound(batch) \/ FailRound(batch)
  \/ \E rounds \in 1 .. MaxView, batch \in Batches : RunBenchmark(rounds, batch)
  \/ TimeoutRound
  \/ HonestRound
  \/ Reset
  \/ ResetBenchmark

Spec == Init /\ [][Next]_vars

-----------------------------------------------------------------------------
TypeOK ==
  /\ mode \in {"plain", "round-robin", "reputation"}
  /\ IsStore(configs)
  /\ faulty \subseteq MemberIds(configs[1])
  /\ curView \in 1 .. MaxView + 1 /\ curHeight \in 1 .. curView
  /\ genericQC \in QuorumCert /\ lastHash \in Hash
  /\ chain \subseteq Block
  /\ safety \in [DOMAIN configs[1].replicas -> [locked : QuorumCert, generic : QuorumCert]]
  /\ window \in Seq(chain) /\ Len(window) <= 4
  /\ delivered \in Nat /\ viewChanges \in Nat
  /\ stats \in [Replica -> ReplicaStats]
  /\ bench \in [left : Nat, batch : Seq(MembershipRequest), consec : Nat, worst : Nat]
  /\ resets \in 0 .. MaxResets

(***************************************************************************)
(* A block is delivered once, four certified blocks later, whatever        *)
(* timeouts, failed rounds and resets lie in between: the transactions     *)
(* counted since the last Reset are those of the blocks that are four or   *)
(* more behind the last one (benchutil/cluster.go:99-120, 318-322).        *)
(***************************************************************************)
DeliveredBehind ==
  delivered = MapThenSumSet(LAMBDA b : Len(b.batch), {b \in chain : b.height + 5 <= curHeight})

(***************************************************************************)
(* No replica ever refuses a block: all hold the last certificate and are  *)
(* locked on the one before it, so a round measures the work of every      *)
(* replica (benchutil/cluster.go:87-95, 305-315).                          *)
(***************************************************************************)
EveryoneVouches ==
  \A tip \in Get(chain, lastHash) : \A i \in DOMAIN safety :
    safety[i] = [generic |-> genericQC, locked |-> tip.justify]

(***************************************************************************)
(* The certificates of the first configuration would pass the validation   *)
(* the program does not run (quorum.go:69-107); those of later ones may    *)
(* not, as the keys stay those of the first.                               *)
(***************************************************************************)
CertificatesValidate ==
  \A b \in chain : b.height > 1 /\ b.justify.conf = 0 => ValidateQC(b.justify, configs[1])

(***************************************************************************)
(* Under reputation, a replica that fails leads once: its commit rate      *)
(* drops to nothing, and novelty alone does not outweigh it                *)
(* (reputation/store.go:95-104, repbench/cluster.go:249-287).              *)
(***************************************************************************)
FaultyLeadOnce ==
  mode = "reputation" /\ faulty # MemberIds(configs[1]) => viewChanges <= Cardinality(faulty)

(***************************************************************************)
(* In both modes, the rounds that fail in a row are at most as many as the *)
(* replicas that fail (repbench/cluster.go:383-411).                       *)
(***************************************************************************)
FailuresBounded ==
  mode # "plain" /\ faulty # MemberIds(configs[1]) => bench.worst <= Cardinality(faulty)

(***************************************************************************)
(* Reputation starves no honest replica and prefers none: novelty makes    *)
(* them lead in turn, however often others failed in between               *)
(* (reputation/store.go:27-36, 123-146).                                   *)
(***************************************************************************)
LeadersBalanced ==
  mode = "reputation" =>
    \A r, s \in MemberIds(configs[1]) \ faulty :
      stats[r].committed <= stats[s].committed + 1
=============================================================================
