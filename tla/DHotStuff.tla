----------------------------- MODULE DHotStuff ------------------------------
(***************************************************************************)
(* The D-HotStuff consensus engine: one DHotStuff object per replica, with *)
(* its SafetyState, PipelineState, ViewChanger, Deliverer and ConfigStore, *)
(* and the network between them.                                           *)
(*                                                                         *)
(* HandlePropose, HandleVote and HandleNewView hold the engine's mutex     *)
(* from their first statement to their last, so each call is one step.     *)
(* HandleTimeout releases it around the view changer's work and is three   *)
(* steps, between which the other handlers run.                            *)
(*                                                                         *)
(* The network delivers a message at most once, in any order, or never:    *)
(* a message that stays in net forever is a lost one.  A signing error,    *)
(* after which HandlePropose returns with nothing changed, looks the same  *)
(* as a loss of the proposal, and so does a replica that has stopped.      *)
(* Reputation is off: the engine was built with repStore = nil.            *)
(*                                                                         *)
(* Outside the repository: the embedding that stores a received block      *)
(* before it calls HandlePropose and a proposed block when it broadcasts   *)
(* it, and that starts the chain with a genesis block and a round of       *)
(* new-view messages for view 0 (internal/benchutil does the same with its *)
(* in-process chain).                                                      *)
(***************************************************************************)
EXTENDS Delivery

CONSTANTS
  InitialConfigs, \* the ConfigStores the engines may be built with
  Request,        \* the client requests, each submitted at most once
  Bootstrap,      \* senders of the new-view messages that start the chain
  SelfPropose,    \* does the embedding hand a leader its own proposal?
  Unicasts,       \* the types of message the NetworkSender's Send carries
  BatchSize,      \* requests drained into one block (100 in the code)
  QueueSize,      \* capacity of the request queue
  MaxProposals,   \* bound: blocks proposed, by all replicas together
  MaxTimeouts,    \* bound: timeouts of one replica
  Timers          \* bound: how often the timer of each replica may expire

ASSUME DHotStuffAssumption ==
  /\ InitialConfigs \subseteq [Replica -> Seq(Committee)]
  /\ \A cs \in InitialConfigs : \A r \in Replica :
       /\ IsStore(cs[r])
       /\ \A i \in DOMAIN cs[r] : cs[r][i].replicas # << >>
  /\ Request \subseteq MembershipRequest
  /\ Bootstrap \subseteq Replica
  /\ SelfPropose \in BOOLEAN /\ Unicasts \subseteq {"vote", "newview"}
  /\ BatchSize \in Nat /\ QueueSize \in Nat
  /\ MaxProposals \in Nat /\ MaxTimeouts \in Nat
  /\ Timers \in [Replica -> 0 .. MaxTimeouts]

VARIABLES
  curView,       \* DHotStuff.curView
  genericQC,     \* SafetyState.GenericQC
  lockedQC,      \* SafetyState.LockedQC
  window,        \* PipelineState.Window without its nil slots, oldest first
  votesBuf,      \* votes collected, by view
  newViewBuf,    \* new-view messages collected, by view
  requestQ,      \* requests waiting to be proposed
  vcView,        \* ViewChanger.curView
  timeout,       \* where the replica's HandleTimeout is
  configs,       \* ConfigStore.configs
  delivered,     \* Deliverer.delivered
  executed,      \* history: blocks whose regular requests were executed
  chain,         \* the replica's block store
  net,           \* messages in flight, lost ones included
  proposed,      \* history: every block proposed, in order
  submitted      \* history: the requests submitted so far

engineVars  == <<genericQC, lockedQC, window>>
bufferVars  == <<votesBuf, newViewBuf>>
viewVars    == <<curView, vcView, timeout>>
deliverVars == <<configs, delivered, executed>>
vars == <<engineVars, bufferVars, viewVars, deliverVars,
          requestQ, chain, net, proposed, submitted>>

-----------------------------------------------------------------------------
View == 0 .. MaxTimeouts + MaxProposals

\* A proposal carries the place of its block in proposed.
ProposeMsg ==
  [type : {"propose"}, dst : Replica, round : 1 .. MaxProposals, stored : BOOLEAN]

\* answers is the proposal voted for; it tells two equal votes apart.
VoteMsg ==
  [type : {"vote"}, dst : Replica, vote : {v \in Vote : v.view \in View},
   answers : 1 .. MaxProposals]

\* src is a history field: a NewViewMsg does not name its sender.
NewViewMsg ==
  [type : {"newview"}, dst : Replica, view : View, conf : Nat, qc : QuorumCert,
   src : Replica]

GenesisBlock ==
  [parent |-> <<-1>>, height |-> 0, batch |-> << >>, justify |-> NoQC, conf |-> 0]

GenesisQC == [view |-> 0, conf |-> 0, hash |-> HashBlock(GenesisBlock), sigs |-> {}]

(***************************************************************************)
(* Send fails, and the caller goes on, for a member whose address is not   *)
(* known and for a type of message it has no case for.                     *)
(***************************************************************************)
UnicastTo(member, msg) ==
  IF member.addr /\ msg.type \in Unicasts THEN {msg} ELSE {}

\* What the view changer of r sends, for the view and certificate given.
NewViewFrom(r, c, view, qc) ==
  UnicastTo(Leader(c, view),
    [type |-> "newview", dst |-> Leader(c, view).id, view |-> view,
     conf |-> c.number, qc |-> qc, src |-> r])

Bootstrapping ==
  UNION {NewViewFrom(r, Latest(configs[r]), 0, GenesisQC) : r \in Bootstrap}

Init ==
  /\ curView = [r \in Replica |-> 0]
  /\ genericQC = [r \in Replica |-> NoQC]
  /\ lockedQC = [r \in Replica |-> NoQC]
  /\ window = [r \in Replica |-> << >>]
  /\ votesBuf = [r \in Replica |-> [v \in View |-> << >>]]
  /\ newViewBuf = [r \in Replica |-> [v \in View |-> << >>]]
  /\ requestQ = [r \in Replica |-> << >>]
  /\ vcView = [r \in Replica |-> 0]
  /\ timeout = [r \in Replica |-> [phase |-> "idle", view |-> 0]]
  /\ configs \in InitialConfigs
  /\ delivered = [r \in Replica |-> {}]
  /\ executed = [r \in Replica |-> << >>]
  /\ chain = [r \in Replica |-> {GenesisBlock}]
  /\ net = Bootstrapping
  /\ proposed = << >>
  /\ submitted = {}

-----------------------------------------------------------------------------
(***************************************************************************)
(* SafetyState and PipelineState.  bDouble, bPrime and b are the results   *)
(* of Get: empty, or the one block found.                                  *)
(***************************************************************************)
The(S) == CHOOSE x \in S : TRUE

\* Mutated form of SafeNode: without the clause for the locked chain.
SafeNodeByViewOnly(locked, node, store) ==
  \/ locked = NoQC
  \/ node.justify.view > locked.view

SafeNode(locked, node, store) ==
  \/ locked = NoQC
  \/ node.justify.view > locked.view
  \/ Extends(store, node.parent, locked.hash)

UpdateOnOneChain(qc, bStar, bDouble) ==
  IF \E x \in bDouble : bStar.parent = HashBlock(x) THEN bStar.justify ELSE qc

\* Mutated form of UpdateOnTwoChain: locks on the certificate of the new block.
LockOnOneChain(qc, bStar, bDouble, bPrime) ==
  IF \E x \in bDouble : bStar.parent = HashBlock(x) THEN bStar.justify ELSE qc

UpdateOnTwoChain(qc, bStar, bDouble, bPrime) ==
  IF \E x \in bDouble, y \in bPrime :
       bStar.parent = HashBlock(x) /\ x.parent = HashBlock(y)
  THEN The(bDouble).justify ELSE qc

\* The block that leaves a full window, if the four others are a chain.
Advanced(w) ==
  IF Len(w) = 4 /\ CheckThreeChain(w[4], w[3], w[2], w[1]) THEN {w[1]} ELSE {}

Advance(w, b) == Append(IF Len(w) = 4 THEN Tail(w) ELSE w, b)

\* The newer of two certificates; a nil one is older than any other.
AdoptQC(qc, current) ==
  IF qc # NoQC /\ (current = NoQC \/ qc.view > current.view) THEN qc ELSE current

-----------------------------------------------------------------------------
Mc(r) == Latest(configs[r])

\* Leader panics on an empty committee: the replica stops at that statement.
HasLeader(c) == c.replicas # << >>

\* Members whose address is unknown are not reached.
Reachable(c) == {m.id : m \in {x \in ToSet(c.replicas) : x.addr}}

BroadcastTargets(r) ==
  IF SelfPropose THEN Reachable(Mc(r)) ELSE Reachable(Mc(r)) \ {r}

BatchLen(r) == IF Len(requestQ[r]) < BatchSize THEN Len(requestQ[r]) ELSE BatchSize

\* Requests that clients send while the queue is drained: those the drain
\* still takes, once it has emptied the queue.  Others wait, as if sent later.
Refills(r) ==
  {s \in SeqOf(Request \ submitted, BatchSize - BatchLen(r)) : IsInjective(s)}

\* Mutated form of Batch: the limit holds for what is drained, not for the block.
WholeQueue(r, arriving) == requestQ[r] \o arriving

Batch(r, arriving) == SubSeq(requestQ[r], 1, BatchLen(r)) \o arriving

NewBlock(r, justify, arriving) ==
  LET parent == Get(chain[r], justify.hash)
  IN  [parent  |-> justify.hash,
       height  |-> IF parent = {} THEN 0 ELSE The(parent).height + 1,
       batch   |-> Batch(r, arriving),
       justify |-> justify,
       conf    |-> Mc(r).number]

(***************************************************************************)
(* propose: drain the queue, which clients may go on filling, into a block *)
(* and broadcast it.  Whoever calls it proposes, leader or not; the        *)
(* proposer does not handle its own block.  The message that triggered the *)
(* proposal leaves the network.                                            *)
(***************************************************************************)
Propose(r, justify, arriving, trigger) ==
  LET b == NewBlock(r, justify, arriving)
  IN
  /\ HasLeader(Mc(r))
  /\ Len(proposed) < MaxProposals
  /\ proposed' = Append(proposed, b)
  /\ chain' = [chain EXCEPT ![r] = Put(@, b)]
  /\ requestQ' = [requestQ EXCEPT ![r] = SubSeq(@, BatchLen(r) + 1, Len(@))]
  /\ submitted' = submitted \cup ToSet(arriving)
  /\ net' = (net \ {trigger})
              \cup {[type |-> "propose", dst |-> q, round |-> Len(proposed) + 1,
                     stored |-> FALSE] : q \in BroadcastTargets(r)}

-----------------------------------------------------------------------------
\* A client hands a request to a replica; the call blocks on a full queue.
SubmitRequest(r, req) ==
  /\ req \notin submitted
  /\ Len(requestQ[r]) < QueueSize
  /\ requestQ' = [requestQ EXCEPT ![r] = Append(@, req)]
  /\ submitted' = submitted \cup {req}
  /\ UNCHANGED <<engineVars, bufferVars, viewVars, deliverVars, chain, net, proposed>>

\* The embedding stores a block it received, before HandlePropose sees it.
StoreBlock(r, m) ==
  /\ m.type = "propose" /\ m.dst = r /\ ~m.stored
  /\ chain' = [chain EXCEPT ![r] = Put(@, proposed[m.round])]
  /\ net' = (net \ {m}) \cup {[m EXCEPT !.stored = TRUE]}
  /\ UNCHANGED <<engineVars, bufferVars, viewVars, deliverVars, requestQ,
                 proposed, submitted>>

-----------------------------------------------------------------------------
\* Mutated form of AheadOf: off by one, the next configuration is accepted.
AheadByTwo(r, b) == b.conf > Mc(r).number + 1

\* HandlePropose, first return: the block is of a configuration not installed.
AheadOf(r, b) == b.conf > Mc(r).number

IgnorePropose(r, m) ==
  /\ m.type = "propose" /\ m.dst = r /\ m.stored
  /\ AheadOf(r, proposed[m.round])
  /\ net' = net \ {m}
  /\ UNCHANGED <<engineVars, bufferVars, viewVars, deliverVars, requestQ, chain,
                 proposed, submitted>>

\* The vote, signed over the block's configuration where the view belongs.
VoteFor(r, bStar) ==
  [view   |-> curView[r],
   conf   |-> Mc(r).number,
   hash   |-> HashBlock(bStar),
   sig    |-> Sign(r, bStar.conf, Mc(r).number, HashBlock(bStar)),
   signer |-> r]

SendVote(r, m) ==
  LET bStar  == proposed[m.round]
      leader == Leader(Mc(r), curView[r])
  IN  IF SafeNode(lockedQC[r], bStar, chain[r])
      THEN UnicastTo(leader, [type |-> "vote", dst |-> leader.id,
                              vote |-> VoteFor(r, bStar), answers |-> m.round])
      ELSE {}

DelivererOf(r) ==
  [configs |-> configs[r], delivered |-> delivered[r], executed |-> executed[r]]

DeliverAny(d, blocks) == IF blocks = {} THEN d ELSE Deliver(d, The(blocks))

Parents(store, blocks) == UNION {Get(store, x.justify.hash) : x \in blocks}

\* Mutated form of Committable: commits on a two-chain, one block too early.
CommittableOnTwoChain(store, bStar) ==
  {b \in Parents(store, Parents(store, {bStar})) :
     \E x \in Parents(store, {bStar}) : x.parent = HashBlock(b)}

\* The three-chain rule: b is committed when b*, b'', b' and b are a chain.
Committable(store, bStar) ==
  LET bDouble == Parents(store, {bStar})
      bPrime  == Parents(store, bDouble)
  IN  {b \in Parents(store, bPrime) :
         \E x \in bDouble, y \in bPrime : CheckThreeChain(bStar, x, y, b)}

(***************************************************************************)
(* HandlePropose: vote if SafeNode allows it; then, whether or not it did, *)
(* update the certificates, commit b when the four blocks are a chain, and *)
(* commit what leaves the pipeline window.                                 *)
(***************************************************************************)
HandlePropose(r, m) ==
  LET bStar   == proposed[m.round]
      bDouble == Parents(chain[r], {bStar})
      bPrime  == Parents(chain[r], bDouble)
      d       == DeliverAny(DeliverAny(DelivererOf(r), Committable(chain[r], bStar)),
                            Advanced(window[r]))
  IN
  /\ m.type = "propose" /\ m.dst = r /\ m.stored
  /\ ~AheadOf(r, bStar)
  /\ SafeNode(lockedQC[r], bStar, chain[r]) => HasLeader(Mc(r))
  /\ net' = (net \ {m}) \cup SendVote(r, m)
  /\ genericQC' = [genericQC EXCEPT ![r] = UpdateOnOneChain(@, bStar, bDouble)]
  /\ lockedQC' = [lockedQC EXCEPT ![r] = UpdateOnTwoChain(@, bStar, bDouble, bPrime)]
  /\ window' = [window EXCEPT ![r] = Advance(@, bStar)]
  /\ configs' = [configs EXCEPT ![r] = d.configs]
  /\ delivered' = [delivered EXCEPT ![r] = d.delivered]
  /\ executed' = [executed EXCEPT ![r] = d.executed]
  /\ UNCHANGED <<bufferVars, viewVars, requestQ, chain, proposed, submitted>>

-----------------------------------------------------------------------------
VoteAccepted(r, vote) ==
  /\ vote.signer \in MemberIds(Mc(r))
  /\ ReplicaByID(Mc(r), vote.signer).key
  /\ Verify(vote)

\* HandleVote, returns for an unknown signer, a missing key or a bad signature.
DropVote(r, m) ==
  /\ m.type = "vote" /\ m.dst = r
  /\ ~VoteAccepted(r, m.vote)
  /\ net' = net \ {m}
  /\ UNCHANGED <<engineVars, bufferVars, viewVars, deliverVars, requestQ, chain,
                 proposed, submitted>>

VotesWith(r, vote) == AggregateVotes(votesBuf[r][vote.view], vote)

\* What HandleVote goes on with; empty where it returns, for want of a quorum.
Certificates(r, vote) ==
  LET votes == VotesWith(r, vote)
  IN  IF HasQuorum(votes, Mc(r)) THEN CreateQC(votes, Mc(r)) ELSE {}

\* HandleVote, no certificate yet.
CollectVote(r, m) ==
  /\ m.type = "vote" /\ m.dst = r
  /\ VoteAccepted(r, m.vote)
  /\ Certificates(r, m.vote) = {}
  /\ votesBuf' = [votesBuf EXCEPT ![r][m.vote.view] = VotesWith(r, m.vote)]
  /\ net' = net \ {m}
  /\ UNCHANGED <<engineVars, newViewBuf, viewVars, deliverVars, requestQ, chain,
                 proposed, submitted>>

(***************************************************************************)
(* HandleVote with a quorum: certify, enter the next view, propose.  Only  *)
(* the engine's own view moves: the view changer does not hear of it.      *)
(***************************************************************************)
FormQC(r, m) ==
  /\ m.type = "vote" /\ m.dst = r
  /\ VoteAccepted(r, m.vote)
  /\ \E qc \in Certificates(r, m.vote) :
       /\ genericQC' = [genericQC EXCEPT ![r] = AdoptQC(qc, @)]
       /\ \E arriving \in Refills(r) : Propose(r, qc, arriving, m)
  /\ curView' = [curView EXCEPT ![r] = @ + 1]
  /\ votesBuf' = [votesBuf EXCEPT ![r][m.vote.view] = << >>]
  /\ UNCHANGED <<lockedQC, window, newViewBuf, vcView, timeout, deliverVars>>

-----------------------------------------------------------------------------
\* The certificate of the largest view, the first received among equals.
HighestViewQC(msgs) ==
  LET Better(i, j) == msgs[j].qc = NoQC \/ msgs[i].qc.view > msgs[j].qc.view
                        \/ (msgs[i].qc.view = msgs[j].qc.view /\ i <= j)
      best == {i \in DOMAIN msgs : msgs[i].qc # NoQC /\ \A j \in DOMAIN msgs : Better(i, j)}
  IN  IF best = {} THEN NoQC ELSE msgs[The(best)].qc

NewViewsWith(r, m) == Append(newViewBuf[r][m.view], m)

\* HandleNewView, not enough messages yet.
CollectNewView(r, m) ==
  /\ m.type = "newview" /\ m.dst = r
  /\ Len(NewViewsWith(r, m)) < QuorumSize(Mc(r))
  /\ newViewBuf' = [newViewBuf EXCEPT ![r][m.view] = NewViewsWith(r, m)]
  /\ net' = net \ {m}
  /\ UNCHANGED <<engineVars, votesBuf, viewVars, deliverVars, requestQ, chain,
                 proposed, submitted>>

\* HandleNewView with a quorum: adopt the highest certificate and propose.
ProposeOnNewViews(r, m) ==
  LET qc == AdoptQC(HighestViewQC(NewViewsWith(r, m)), genericQC[r])
  IN
  /\ m.type = "newview" /\ m.dst = r
  /\ Len(NewViewsWith(r, m)) >= QuorumSize(Mc(r))
  /\ newViewBuf' = [newViewBuf EXCEPT ![r][m.view] = << >>]
  /\ genericQC' = [genericQC EXCEPT ![r] = qc]
  /\ \E arriving \in Refills(r) : Propose(r, qc, arriving, m)
  /\ UNCHANGED <<lockedQC, window, votesBuf, viewVars, deliverVars>>

-----------------------------------------------------------------------------
\* HandleTimeout, first critical section: remember the view that timed out.
TimeoutBegin(r) ==
  /\ timeout[r].phase = "idle"
  /\ vcView[r] < Timers[r]
  /\ timeout' = [timeout EXCEPT ![r] = [phase |-> "changing", view |-> curView[r]]]
  /\ UNCHANGED <<engineVars, bufferVars, curView, vcView, deliverVars, requestQ, chain,
                 net, proposed, submitted>>

\* Mutated form of NextView: the view after that of the highest certificate.
ViewAfterQC(r) == genericQC[r].view + 1

\* The view changer counts timeouts only.
NextView(r) == vcView[r] + 1

\* ViewChanger.OnTimeout: next view, and a new-view message to its leader.
OnTimeout(r) ==
  /\ timeout[r].phase = "changing"
  /\ HasLeader(Mc(r))
  /\ vcView' = [vcView EXCEPT ![r] = @ + 1]
  /\ net' = net \cup NewViewFrom(r, Mc(r), NextView(r), genericQC[r])
  /\ timeout' = [timeout EXCEPT ![r].phase = "ending"]
  /\ UNCHANGED <<engineVars, bufferVars, curView, deliverVars, requestQ, chain,
                 proposed, submitted>>

\* HandleTimeout, last critical section: the engine takes the changer's view.
TimeoutEnd(r) ==
  /\ timeout[r].phase = "ending"
  /\ votesBuf' = [votesBuf EXCEPT ![r][timeout[r].view] = << >>]
  /\ window' = [window EXCEPT ![r] = << >>]
  /\ curView' = [curView EXCEPT ![r] = vcView[r]]
  /\ timeout' = [timeout EXCEPT ![r] = [phase |-> "idle", view |-> 0]]
  /\ UNCHANGED <<genericQC, lockedQC, newViewBuf, vcView, deliverVars, requestQ, chain,
                 net, proposed, submitted>>

-----------------------------------------------------------------------------
Receive(r, m) ==
  \/ StoreBlock(r, m) \/ IgnorePropose(r, m) \/ HandlePropose(r, m)
  \/ DropVote(r, m) \/ CollectVote(r, m) \/ FormQC(r, m)
  \/ CollectNewView(r, m) \/ ProposeOnNewViews(r, m)

Next ==
  \E r \in Replica :
    \/ \E m \in net : Receive(r, m)
    \/ \E req \in Request : SubmitRequest(r, req)
    \/ TimeoutBegin(r) \/ OnTimeout(r) \/ TimeoutEnd(r)

Spec == Init /\ [][Next]_vars

(***************************************************************************)
(* Every message is eventually received and handled, and a timer that can  *)
(* expire does; the rest of HandleTimeout then runs to its end.            *)
(***************************************************************************)
FairSpec ==
  /\ Spec
  /\ \A r \in Replica :
       /\ WF_vars(\E m \in net : Receive(r, m))
       /\ WF_vars(TimeoutBegin(r) \/ OnTimeout(r) \/ TimeoutEnd(r))

-----------------------------------------------------------------------------
(***************************************************************************)
(* Each variable has its type, and the engine's view stays within the      *)
(* views of the buffers: it is at most the number of timeouts plus the     *)
(* number of certificates formed.                                          *)
(***************************************************************************)
Message == ProposeMsg \cup VoteMsg \cup NewViewMsg

TypeOK ==
  /\ curView \in [Replica -> View]
  /\ genericQC \in [Replica -> QuorumCert]
  /\ lockedQC \in [Replica -> QuorumCert]
  /\ window \in [Replica -> Seq(Block)]
  /\ votesBuf \in [Replica -> [View -> Seq(Vote)]]
  /\ newViewBuf \in [Replica -> [View -> Seq(NewViewMsg)]]
  /\ requestQ \in [Replica -> Seq(Request)]
  /\ vcView \in [Replica -> 0 .. MaxTimeouts]
  /\ timeout \in [Replica -> [phase : {"idle", "changing", "ending"}, view : View]]
  /\ configs \in [Replica -> Seq(Committee)] /\ \A r \in Replica : IsStore(configs[r])
  /\ delivered \in [Replica -> SUBSET Hash]
  /\ executed \in [Replica -> Seq(Block)]
  /\ chain \in [Replica -> SUBSET Block]
  /\ net \subseteq Message
  /\ proposed \in Seq(Block) /\ Len(proposed) <= MaxProposals
  /\ submitted \subseteq Request

-----------------------------------------------------------------------------
(***************************************************************************)
(* A block is executed only at the end of a chain of three descendants,    *)
(* each of which certifies the one before, whichever of the two commit     *)
(* paths executed it (dhotstuff.go:171-188, pipeline.go:18-40).            *)
(***************************************************************************)
CommitOnChain ==
  \A r \in Replica : \A i \in DOMAIN executed[r] :
    \E x, y, z \in ToSet(proposed) :
      /\ x.justify.hash = HashBlock(executed[r][i])
      /\ y.justify.hash = HashBlock(x)
      /\ z.justify.hash = HashBlock(y)

(***************************************************************************)
(* A certificate that justifies a proposal holds the signatures of a       *)
(* quorum of distinct replicas, for some installed committee; the          *)
(* exceptions are the genesis certificate and none at all                  *)
(* (dhotstuff.go:220-240, ecdsa_qc.go:17-80).                              *)
(***************************************************************************)
CertificatesBacked ==
  \A k \in DOMAIN proposed :
    LET qc == proposed[k].justify
    IN  \/ qc \in {NoQC, GenesisQC}
        \/ \E r \in Replica : \E i \in DOMAIN configs[r] :
             Cardinality({s.by : s \in qc.sigs}) >= QuorumSize(configs[r][i])

(***************************************************************************)
(* A replica locks only on a certificate that two proposed blocks build    *)
(* on: the one it justifies and a child of that one, which certifies it    *)
(* (safety.go:44-51, dhotstuff.go:118-136, 167-169).                       *)
(***************************************************************************)
LocksOnChain ==
  \A r \in Replica :
    lockedQC[r] # NoQC =>
      \E x, y \in ToSet(proposed) :
        /\ x.justify = lockedQC[r]
        /\ y.justify.hash = HashBlock(x)

(***************************************************************************)
(* The two commit paths between them run a block once, unless its          *)
(* membership change failed the first time: its requests could not be      *)
(* applied, or the replica's store held the next configuration already     *)
(* (dhotstuff.go:174,185, deliver.go:24, 54-56, 69-83).                    *)
(***************************************************************************)
RerunOnlyIfFailed ==
  \A r \in Replica : \A i, j \in DOMAIN executed[r] :
    i < j /\ HashBlock(executed[r][i]) = HashBlock(executed[r][j])
      => \E cs \in InitialConfigs :
           IsPrefix(cs[r], configs[r]) /\ ChangeFailed(DelivererOf(r), i, Len(cs[r]))

(***************************************************************************)
(* HandleNewView counts messages, and a message does not name its sender;  *)
(* still, the messages counted for a view come from distinct replicas,     *)
(* because a view changer never sends twice for a view (dhotstuff.go:      *)
(* 248-252, viewchange.go:57-95).                                          *)
(***************************************************************************)
NewViewsDistinct ==
  \A r \in Replica, v \in View : \A i, j \in DOMAIN newViewBuf[r][v] :
    newViewBuf[r][v][i].src = newViewBuf[r][v][j].src => i = j

(***************************************************************************)
(* A replica neither votes for nor executes a block of a configuration it  *)
(* has not installed, however far the others are (dhotstuff.go:110-114,    *)
(* deliver.go:58-62).                                                      *)
(***************************************************************************)
WithinConfiguration ==
  /\ \A m \in net : m.type = "vote" =>
       Installed(configs[m.vote.signer], proposed[m.answers].conf)
  /\ \A r \in Replica : \A i \in DOMAIN executed[r] :
       Installed(configs[r], executed[r][i].conf)

(***************************************************************************)
(* A request that was submitted is in exactly one place: waiting in one    *)
(* queue, or in one proposed block; draining a queue at the batch limit    *)
(* neither drops nor repeats one (dhotstuff.go:306-315).                   *)
(***************************************************************************)
Occurrences(req) ==
  LET In(s) == {i \in DOMAIN s : s[i] = req}
  IN  (UNION {{<<"queue", r, i>> : i \in In(requestQ[r])} : r \in Replica})
        \cup (UNION {{<<"block", k, i>> : i \in In(proposed[k].batch)} : k \in DOMAIN proposed})

RequestsConserved == \A req \in submitted : Cardinality(Occurrences(req)) = 1

-----------------------------------------------------------------------------
(***************************************************************************)
(* Statements of the documentation the code does not keep.                 *)
(***************************************************************************)

(***************************************************************************)
(* quorum.go:64-65, of a certificate: "Every signature verifies under the  *)
(* corresponding replica's public key over qc.BlockHash".                  *)
(***************************************************************************)
SignaturesMatch ==
  \A k \in DOMAIN proposed : \A s \in proposed[k].justify.sigs :
    s.hash = proposed[k].justify.hash

(***************************************************************************)
(* security_proof.md:55-56, total order: "If honest replica P_i delivers v *)
(* before v', then no honest replica P_j delivers v' before v."            *)
(***************************************************************************)
OrderAgreed ==
  \A r, q \in Replica :
    \A i, j \in DOMAIN executed[r], k, l \in DOMAIN executed[q] :
      i < j /\ k < l /\ executed[r][i] = executed[q][l]
        => executed[r][j] # executed[q][k]

-----------------------------------------------------------------------------
(***************************************************************************)
(* What the replicas executed implements an atomic broadcast: the logs of  *)
(* any two replicas are equal as far as both go, batches included, and no  *)
(* block is executed twice (security_proof.md, theorems 7, 10 and 11).     *)
(***************************************************************************)
Broadcast == INSTANCE AtomicBroadcast WITH log <- executed

TotalOrder == Broadcast!Spec

(***************************************************************************)
(* While no message is lost and no timer expires, the replicas that        *)
(* started the chain execute block after block, in whatever order messages *)
(* arrive: every certificate reaches the leader's quorum, the lock never   *)
(* keeps a replica from voting for the chain it is on, and the chain walk  *)
(* finds the ancestors (dhotstuff.go:118-189, 192-241, safety.go:26-34).   *)
(***************************************************************************)
FollowersExecute == \A r \in Bootstrap : <>(Len(executed[r]) >= 2)
=============================================================================
