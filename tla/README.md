# D-HotStuff: a verification development

This directory holds TLA+ models of the D-HotStuff replica in `../src` (a Byzantine fault
tolerant replication protocol with dynamic membership, written in Go), the TLC configurations
that check them on small instances, and proofs, checked by TLAPS, that hold for every instance.
The code is the reference: every definition is translated from the lines `PROJECT.json` maps it
to. Where the documentation or a comment says something else, a run shows the difference, or
section 3 names it.

## 1. Inventory of the system

| part | source | state | operations | interacts with |
|---|---|---|---|---|
| consensus engine | `internal/consensus/dhotstuff.go` | `curView`, `votesBuf`, `newViewBuf`, `requestQ`, one mutex | `SubmitRequest`, `HandlePropose`, `HandleVote`, `HandleNewView`, `HandleTimeout`, `propose` | owns the four parts below; sends through `NetworkSender`, reads `BlockchainReader` |
| safety state | `internal/consensus/safety.go` | `LockedQC`, `GenericQC` | `SafeNode`, `UpdateOnOneChain`, `UpdateOnTwoChain` | written by the engine, read by the view changer without the engine's mutex |
| pipeline window | `internal/consensus/pipeline.go` | the last four blocks | `Advance`, `Reset` | second commit path of the engine |
| deliverer | `internal/consensus/deliver.go` | `delivered`, own mutex | `Deliver`, `CheckThreeChain` | runs requests on the `Executor`, installs committees in the store |
| view changer | `internal/consensus/viewchange.go` | its own `curView`, own mutex | `OnTimeout`, `OnNewViewMessages` | sends a new-view message to the next leader |
| committee | `internal/membership/committee.go` | immutable value | `QuorumSize`, `Leader`, `ReplicaByID`, `Apply` | read by all of the above |
| configuration store | `internal/membership/config_store.go` | list of committees | `Latest`, `AtNumber`, `Install`, `Subscribe` | shared by engine, view changer and deliverer |
| requests, quorum rules | `internal/membership/request.go`, `quorum.go` | none | `ClassifyBatch`; `ValidateMembershipRequest`, `ReplicaFromRequest`, `ValidateQC`, `QuorumOf` (called by no program) | deliverer |
| votes and certificates | `internal/crypto` | none | `Sign`, `Verify`, `AggregateVotes`, `HasQuorum`, `CreateQC` | engine |
| transport, pool, router | `internal/network` | connection cache, its lock, deadlines | `Send`, `BroadcastToCommittee`, RPC dispatch | implements `NetworkSender`; the router expects an engine interface the engine does not implement |
| state transfer, discovery | `internal/statetransfer`, `internal/discovery` | one call's answers | `RequestHistory`, `RequestUpdate`, `SyncIfBehind` | peers' `RequestHistory` and `RequestUpdate` RPCs; not called by the engine |
| reputation | `internal/reputation` | per-replica counters | `Record*`, `Score`, `Select` | optional replacement of the leader rotation |
| in-process benchmark cluster | `internal/benchutil` | block store, safety states, window, configurations, keys | `RunRound`, `Reset` | has safety rule, window and delivery of its own; uses committees, store and certificates |
| reputation benchmark | `internal/repbench` | the same, replicas that fail, reputation store | `RunBenchmark`, `Reset` | selects leaders by rotation or by `reputation` |
| metrics, programs | `internal/metrics`, `cmd`, `main.go`, `tests` | | | around the engine |

What is hard here:

* **Interleaving.** Three handlers hold the engine's mutex from end to end; `HandleTimeout`
  releases it around the view changer, so every other handler can run in the middle of it.
* **Ordering and loss.** Proposals, votes and new-view messages arrive in any order or not at all.
  The handlers do not compare heights or views of what they receive, so the order in which
  proposals are handled decides what is locked and executed.
* **Two commit paths.** The three-chain walk through the store and the block that leaves the
  window both call `Deliver`, which must run a block once.
* **Partial failure.** `Deliver` runs regular requests before it tries the membership requests
  of the same block.
* **Two view counters.** Certificates move the engine's, timeouts the view changer's.
* **Reconfiguration.** Blocks of an older configuration commit after a newer one is installed,
  votes outlive the membership of who cast them, and the benchmark's keys those of the genesis.
* **Waiting under locks.** `propose` waits for every answer of its broadcast with the engine's
  mutex held, and the answer of a replica waits for that replica's mutex: two broadcasters wait
  for each other until a deadline passes. The pool dials with its write lock held.
* **Unlocked reads.** `Score` reads counters through a pointer after it has released the lock.

For each part, what makes it correct:

* *committee*: quorums overlap in more than `FaultCap` replicas; `Apply` numbers its result next.
* *configuration store and deliverer*: the store is a chain, each committee being the result of one
  block of the configuration before it; a block runs once, unless its membership change failed.
* *safety state*: a lock is on a certificate two blocks build on; nothing is executed that is not
  the end of a chain of certified descendants.
* *votes, certificates, view changer*: a certificate has a quorum of distinct signers; the new-view
  messages that are counted come from distinct replicas.
* *state transfer*: a history that is returned is held by an honest member, and is not older than
  what a quorum had when it was asked for.
* *transport and pool*: no connection leaks; a mutex held across a broadcast is released; the
  proposals of one replica do not overtake each other but through a deadline or a closed pool.
* *benchmarks*: a block is delivered once, four blocks later; every replica accepts every block;
  certificates are valid.
* *reputation*: no count is lost; a score that races with the writers divides by no zero and takes
  no wrapped distance; who fails stops leading, and who does not leads in turn.
* *engine*: requests are neither lost nor repeated; replicas execute the same blocks in the same
  order; without loss, execution goes on.

The hazards, each at its line and with the properties aimed at it, are in `PROJECT.json`.

## 2. The modules

`Committees` <- `Blocks` <- `Delivery` <- `Deliverer` and `DHotStuff` (each extends the one before);
`StateTransfer` and `QuorumRules` extend `Blocks`, `Reputation` extends `Committees`; `EngineRules`
joins `DHotStuff` and `QuorumRules`, `BenchCluster` joins `QuorumRules` and `Reputation`,
`ReputationStore` extends `Reputation`. `Transport` stands alone.

* **Committees**: `Committee`, `ConfigStore` and `ClassifyBatch` as operators. A replica keeps its
  identity, whether an address is known (a replica admitted by an ADD has none) and whether it has
  a key. Loops over requests are recursive functions.
* **Blocks**: blocks, certificates, votes, and the block store as a set of blocks. `hashBlock`
  covers the parent hash and the height only; so does `HashBlock`, which is the sequence of
  heights from the root: two blocks with other batches can have one hash, as in the code. A
  signature is the tuple that was signed, and `Verify` compares it with the vote.
* **Delivery**: one call of `Deliver` as a function on (`configs`, `delivered`, `executed`).
* **Deliverer**: a deliverer and its store under any sequence of calls.
* **DHotStuff**: all engines and the network.
* **AtomicBroadcast**: what the engine promises: one log per replica, which only grows, without
  repetition, and of two logs one is a prefix of the other.
* **StateTransfer**: one replica's calls of `RequestHistory`, `RequestUpdate` and `SyncIfBehind`.
* **QuorumRules**: the checks of `quorum.go` and `request.go` that no program makes, as operators.
* **EngineRules**: the engine's certificates held against `ValidateQC`.
* **Transport**: several replicas' mutexes, RPCs, deadlines and connection pools.
* **Reputation**: counters, score and selection as functions. A score is a fraction; where the
  code compares floating-point numbers whose operands differ, either order is allowed.
* **ReputationStore**: one store shared by goroutines, down to the single load.
* **BenchCluster**: the two in-process harnesses.
* **MCDeliverer**, **MCDHotStuff**, **MCStateTransfer**, **MCTransport**, **MCReputationStore**,
  **MCBenchCluster**: the instances for TLC.
* **MembershipProofs** (lemmas and theorems about `Committees`, `QuorumRules` and `Delivery`, which
  the others extend), **DelivererProofs**, **DHotStuffProofs**, **LockstepProofs**
  (total order), **BenchClusterProofs**, **TransportProofs**, **ReputationStoreProofs**, **StateTransferProofs**:
  theorems and proofs.

### State and actions of DHotStuff

| variable | code |
|---|---|
| `curView`, `votesBuf`, `newViewBuf`, `requestQ` | the fields of `DHotStuff` |
| `genericQC`, `lockedQC` | `SafetyState` (`NoQC` for nil) |
| `window` | `PipelineState.Window`, without its nil slots, oldest first |
| `vcView` | `ViewChanger.curView` |
| `timeout` | where the replica's `HandleTimeout` stands, and its local `timedOutView` |
| `configs`, `delivered` | `ConfigStore.configs`, `Deliverer.delivered` |
| `chain` | what `BlockchainReader` finds |
| `net` | messages in flight; one that stays for ever is lost |
| `executed`, `proposed`, `submitted` | history: what the executor ran, what was proposed and submitted |

| action | code |
|---|---|
| `SubmitRequest` | `SubmitRequest`; disabled while the queue is full, as the caller then blocks. Requests that arrive while `propose` drains the queue are the `Refills` of that step |
| `StoreBlock` | the embedding stores a received block (external) |
| `IgnorePropose`, `HandlePropose` | `HandlePropose`: first return; everything else, both commit paths included |
| `DropVote`, `CollectVote`, `FormQC` | `HandleVote`: the three rejections; no certificate yet (`Certificates` is empty, for want of a quorum or because `CreateQC` errs); a certificate, with `propose` |
| `CollectNewView`, `ProposeOnNewViews` | `HandleNewView`: too few messages; quorum, with `propose` |
| `TimeoutBegin`, `OnTimeout`, `TimeoutEnd` | the two critical sections of `HandleTimeout` and the view changer's work between them |

Whoever reaches a quorum proposes, leader or not, as in the code. `propose` receives from a channel
that clients fill without the mutex. When the queue holds the limit or more, what arrives meanwhile is
as good as submitted afterwards; when it holds less, the block also takes any of the requests that
arrive before the drain gives up (`Refills`), each as if it had been there. `Leader` panics on an empty
committee: the actions that would call it are disabled then, which is what a crash looks like to
the others. A replica that stops, a signing error and a lost message all look alike: messages to
it stay in `net`. A timer runs one `HandleTimeout` at a time. The unsynchronised read of
`GenericQC` in `OnTimeout` is a read of a pointer: it happens in one step, before or after any
handler.

Parameters of the model describe the embedding the repository leaves open. `SelfPropose` says
whether somebody hands a leader its own proposal (`propose` does not, and the transport skips the
sender; the in-process harness does). `Unicasts` says for which messages `NetworkSender.Send`
has a case: an in-process sender carries votes and new-view messages, the gRPC `Transport` the
latter only (section 3). All runs use a sender that carries both.

Only replicas that follow the code are modelled: no replica sends what the code would not send.

### State and actions of StateTransfer

`height` is how many blocks of its chain each member has executed; `call`, `reply`, `heard` and
`result` are the local state of the call in progress: which it is, what became of each RPC, whose
answers were taken from the channel in which order, what was returned. `covered` and `disturbed`
are history variables for the properties.

| action | code |
|---|---|
| `Execute` | a member's block store grows (external) |
| `RequestHistory`, `RequestUpdate`, `SyncIfBehind` | the start of each call: one RPC per member |
| `Answer`, `Fail` | one goroutine of the fan-out, with the router's answer, `HistoryFromProto` and errors |
| `Collect`, `GiveUp` | the tally goes on; all answers taken and no success |
| `ReturnHistory`, `ReturnUpdate` | the answer that completes the call |
| `AcceptUpdate`, `RejectUpdate` | `SyncIfBehind` between its two rounds, around `SafeNode` |
| `Expire` | `ctx.Done()`, which `Discovery`'s own tally does not watch |

A member may hold other blocks than the rest (`Chain`), at most `FaultCap` of them do. This is the
one place where a faulty replica is modelled, because it is what the `2f + 1` and `n - f` of the
code are for. `SyncIfBehind` asks the members of the asker's own committee, since it does not have
the one it is told of, and what it gets is logged and dropped: nothing is installed or executed.

### State and actions of Transport

A *task* is one call of `Transport.Send` in a goroutine, a *job* a call of an engine that waits for
or has its mutex. What the handlers decide (to vote, to propose, who leads) is left open: the
module says how long they hold what. A job outlives its caller, as an RPC handler does.

| variable | code |
|---|---|
| `engine`, `waiting` | the holder of each `DHotStuff.mu`, and who waits for one |
| `at` | the tasks in progress: looking a connection up, waiting for the pool's lock, dialling, calling |
| `wire` | requests sent and not yet served |
| `pool`, `conns` | `ConnPool.mu` while it is held across a dial, `ConnPool.conns` |
| `open`, `expired`, `proposals`, `timeouts`, `closes` | history |

| action | code |
|---|---|
| `OnTimeout` | `ViewChanger.OnTimeout` sends, without the mutex |
| `HandlePropose`, `HandleNewView` | the handler gets the mutex and starts its sends: a vote, a broadcast, or none |
| `Return` | `wg.Wait` is over, the handler unlocks, the answer goes back |
| `Lookup`, `Recheck`, `Dial`, `Dialled` | `GetConn`: look under the read lock, look under the write lock, `grpc.DialContext` with the lock held |
| `DialExpires`, `CallExpires` | the deadline of the task; the wait for the pool's lock does not watch it |
| `Serve`, `Lose` | the server starts the handler; a request nobody waits for may be lost |
| `Close` | `ConnPool.Close` |

The router wants handlers with other signatures than the engine's, so the connection between the
two is what this module assumes: one call of the engine's handler per RPC.

### State and actions of BenchCluster

The variables are the fields of the two cluster types, and `mode` tells them apart: `plain` is
`benchutil`, the other two are the modes of `repbench`; `bench` holds the locals of `RunBenchmark`.

| action | code |
|---|---|
| `RunRound`, `FailRound` | `BenchCluster.RunRound`, and its return when `CreateQC` errs, with the block already stored |
| `RunBenchmark`, `TimeoutRound`, `HonestRound` | `RepBenchCluster.RunBenchmark` and one turn of its loop, whose leader fails or does not |
| `Reset`, `ResetBenchmark` | `Reset` of each |

### State and actions of ReputationStore

`stats` and `entries` are the map, `mutex` who holds its write lock, `call` and `loads` the state of
each goroutine's call; `score`, `records` and `calls` are history.

| action | code |
|---|---|
| `Call` | a goroutine calls `Record*` or `Score` |
| `Acquire`, `Increment`, `Release` | `Lock` and the load of the counter; its store; the rest and `Unlock` |
| `LookUp`, `Read`, `ReturnScore` | `Score`: the lookup under the read lock; each load through the pointer, after it; the result |

The loads race with the writers' stores. Loads of different fields happen in any order, two loads of
one field in program order, each between any two steps of a writer; a 64-bit load is not torn itself.

## 3. What the runs check

Runs that must pass:

| run | instance | properties |
|---|---|---|
| `deliverer` | committee of 4 and a fifth identity, 7 blocks in 3 configurations, a fork, up to 6 executions | `TypeOK`, `ConfigsChained`, `RerunOnlyIfFailed`, `QuorumsOverlap`, `InstalledOncePerBlock` |
| `stable` | 4 replicas, 6 blocks, a request, no timeouts, with fairness | `TotalOrder`, `FollowersExecute` |
| `view_change` | configuration 1, with all 4 in it or one behind in configuration 0; 3 replicas time out, one of them twice, 5 blocks, 2 requests | `NewViewsDistinct`, `WithinConfiguration`, `RequestsConserved`, `CertificatesValid`, `TotalOrder` |
| `timeouts` | 4 replicas, 2 time out at any moment, 5 blocks | `CommitOnChain`, `LocksOnChain` |
| `reconfiguration` | 4 replicas, two removals that may be proposed in the same configuration and a command, 6 blocks | `TypeOK`, `RerunOnlyIfFailed` |
| `stragglers` | 4 replicas, the leader votes too, so a vote can come late, 3 blocks | `CertificatesBacked` |
| `state_transfer` | 4 members, 3 on a chain of two blocks and one that forks after the first | `TypeOK`, `HistoryHeld`, `QuorumCovered`, `SettledSucceeds` |
| `broadcast` | 3 members, two of them lead and time out, one cannot be reached; 2 proposals, 1 `Close`, with fairness | `TypeOK`, `NoLeak`, `OneOutstanding`, `MutexReleased` |
| `benchmarks` | clusters of 4 and of 5, any of them faulty; 7 views, 1 `Reset` | `TypeOK`, `DeliveredBehind`, `EveryoneVouches`, `CertificatesValidate`, `FaultyLeadOnce`, `FailuresBounded`, `LeadersBalanced` |
| `reputation` | two goroutines on one replica's counters, 4 calls, with fairness | `TypeOK`, `TornScoreDefined`, `NothingLost`, `CallsReturn` |

Runs that must find a violation. Each states what a comment or document says, and the code does
not do; the quotation is in `PROJECT.json` under `findings`:

| run | statement | what happens |
|---|---|---|
| `mixed_certificate` | `SignaturesMatch` | votes for two blocks of one view become one certificate |
| `reordered_delivery` | `OrderAgreed` | proposals handled in another order are executed in another order |

Further differences between the text and the code, which the models reproduce and no run is
spent on:

* `consensus/dhotstuff.go:286` sets the engine's view to the view changer's count, so a timeout
  after certificates formed may lower it; `proto/dhotstuff.proto:10-11` calls it the "monotone
  leader-rotation counter".
* `consensus/dhotstuff.go:141` signs a vote over the configuration number of the block where
  `proto/dhotstuff.proto:146` has the view: "ECDSA signature over (view_number || conf_number ||
  block_hash)".
* Only the replica that forms a certificate increments its view (`dhotstuff.go:233`), so the
  others vote for several blocks in one view; `docs/security_proof.md:109`: "ensuring that a QC
  can only form for one block per view".
* `safety.go:39` overwrites `GenericQC` with the justification of any block handled; `safety.go:21`
  calls it the "highest QC seen so far".
* A proposer never handles its own block (`dhotstuff.go:334`); `network/transport.go:74` says the
  "leader calls HandlePropose directly instead of looping back".
* `committee.go:183` removes the fourth member of four; `committee.go:101`: "a well-formed
  committee always has >= 4 members". `committee.go:162` admits a member twice;
  `request.go:99-100` rules it out, in a function nobody calls.
* `transport.go:67` has no case for a vote, so none crosses the gRPC transport. `transport.go:54`
  says the "vote is returned as the RPC response value, not a separate call"; the response is
  dropped, and `HandlePropose` returns none.
* `deliver.go:72` runs the regular requests of a block again when its membership change failed
  before; `deliver.go:24`: "commits blocks exactly once and executes their batches".
  `RerunOnlyIfFailed` says that nothing else runs again, a block that installed its committee included.
* `syncer.go:72-75` gives the matching answers as the reason why a history is authentic; the hash
  that is compared covers heights and parents (`syncer.go:131`), so a history with another batch
  has the hash of the agreed one, and is returned if it comes first.
* A certificate takes its configuration number and hash from the first vote (`dhotstuff.go:148`,
  `ecdsa_qc.go:47`), so one formed across a removal may name a configuration in which a signer is
  not a member; `quorum.go:63`: "Every signer ID belongs to a known replica in c".
  `CertificatesValid`, which asks for the committee the certificate names, is therefore checked and
  proved only where the membership does not change. In general `EngineCertificatesBacked` is what
  holds: distinct signers, as many as a quorum of some installed committee. No run goes through the
  removal itself: a replica that collects votes and executes takes more blocks than can be explored.
* `benchutil` keeps the keys of the genesis committee (`cluster.go:279-302`) and its `Reset` the
  configurations (`cluster.go:375-392`): a committee whose quorum exceeds the keys fails every
  round from then on. Of two membership blocks of one configuration the second is dropped
  silently (`cluster.go:157`).
* In the engine only the proposer records a led round (`dhotstuff.go:302`), and `Score` does not
  read `Timeouts` (`store.go:95-104`), so followers would keep a silent leader at full rate, and
  replicas with different statistics would choose different leaders. In `repbench` one store
  serves all, and `FaultyLeadOnce` holds.
* The pool dials an unreachable peer with its write lock held (`pool.go:77-95`): the other sends of
  the same broadcast wait for it, and may expire.
* `docs/security_proof.md:101-103` says `SyncIfBehind` makes replicas "catch up before
  participating"; it drops what it receives.

### Bounds

Four replicas are the smallest committee that tolerates a fault (`f = 1`, quorum 3); three
replicas (`f = 0`, quorum 2) are used in `reordered_delivery`, where a straggler alone matters.
Committing one block takes four proposals on a chain, so five or six proposals (`MaxProposals`)
give two or three executions and bring both commit paths to the same block; the window holds four
blocks, so five let one leave it. `Timers` says how often the timer of each replica may expire, at most
`MaxTimeouts` times. One timeout leads every view counter past the other. In `view_change` the timer
of p1 may expire twice, while its first new-view message is in flight or counted, and the quorum for
view 1 is those of p1, p3 and p4, each once. `BatchSize` is 1 or 2 and `QueueSize` 2, so that a queue is drained exactly at the
limit and in parts. `MaxExecuted = 6` in `deliverer` lets a failing block run several times
between others.
`View` is the range of views reachable under these bounds; it bounds the domain of the buffers,
and the type theorem shows no view leaves it. The bounds stand in the guards of `Propose`,
`TimeoutBegin` and `DeliverBlock`. In `state_transfer` the members' chains bound everything: two
blocks are enough for members to be at different heights, for an empty answer and for one that is
out of date; the member that forks agrees on the first block, differs in the second and has a gap
before the third, so it can match, not match and be refused. The run has four members; section 4
proves `QuorumCovered` for all committees but those of three.

In `broadcast` two members lead, so each can broadcast while the other does, and each pool finds the
third unreachable; two proposals let one overtake the other, two timeouts start them. In `benchmarks`
a block is delivered by the fourth block after it and its change of committee is then in force, which
leaves two of the seven views to the new committee; the batches are empty, a command with a removal, and three joins at once, after
which four keys are too few. In `reputation` one replica is enough, as the statistics of two do not
touch; heights 1 and 3 can be recorded in either order and scored from either side, four calls let
one goroutine's call span three of the other's, and `Wide = 16` stands for 2^64, which matters only
where a difference of heights would wrap.

A vote verifies only while its view equals the configuration number of the block it is for (see
above), so chains grow in view 0 of configuration 0, and in view 1 of configuration 1. The engines
of a run start in one or the other: the second is an embedding that has installed a later
configuration in the store before it builds the engine, as one that restarts or joins must.

Deadlock is not checked: the bounds stop the system, and so do lost messages and quiescence.

In `stable` and `view_change` a proposal must collect the votes of all followers
before the next one is made, since the proposer does not vote; so proposals are handled in chain
order and total order holds; section 4 proves it for the conditions of `stable`. With a straggler, or with proposals in another order, it does not:
that is `reordered_delivery`. `TotalOrder` is the refinement of `AtomicBroadcast` with
`log <- executed`, where blocks are compared with their batches.

### Fairness

`FairSpec` assumes, for every replica, weak fairness of handling some message that is in the
network and of the steps of its `HandleTimeout`. The first is the network delivering what it was
given and Go scheduling the handler that waits for the mutex; the second is the scheduler running
a goroutine that is not blocked. It says nothing about which message comes first. It is used by
`stable`, for `FollowersExecute`.

`Transport` assumes weak fairness of `Running`, per process: some goroutine that is not blocked takes
a step, or a deadline passes. Under it `MutexReleased` holds because of the deadlines, not because
peers answer. `ReputationStore` assumes strong fairness of each goroutine's `Proceed`: a goroutine
that waits for the mutex is not enabled while another has it, and Go's mutex hands itself over to a
waiter that has starved for a millisecond. Nobody has to start a proposal, a timeout or a call.
`StateTransfer` has no fairness: that a call does not wait for answers that
cannot come is in its `TypeOK` (a call whose answers are all taken is over).

## 4. What is proved

All theorems hold for every value of the constants that satisfies the assumption named in the
component's module (`DHotStuffAssumption`, `DelivererAssumption`, `TransportAssumption` and so on):
any set of replicas, any committees, requests, timers and bounds. Where a theorem needs more, it
says so in an `ASSUME` of its own, explained below.

*Committees* (`MembershipProofs`). `ApplyType`: `Apply` yields a committee with the next number
and the fault capacity of its size. `QuorumIntersection`: two quorums share more than `FaultCap`
replicas, from the cardinality of a union and the rounding of the quorum, also when identities are
listed twice. `QuorumAvailable`: a quorum survives `FaultCap` failures. Loops are recursive
functions, and their lemmas go by induction on a set of indices (`InductionOnSet`), which needs no
operator parameter.

*Deliverer* (`DelivererProofs`). Five invariants from the inductive `IInv`:
types, `ConfigsChained` and the fact that a block that ran is marked unless its change failed
(`ChangeFailed`: `Apply` refused its requests, or the store had the configuration they lead to, from
the start or from an earlier run); `DelivererReruns` is the latter. `InstalledOncePerBlock` assumes a finite pool whose blocks have distinct hashes.

*Engine types* (`DHotStuffProofs`). `EngineTypeOK`, from `TypeInv`: `TypeOK` alone is not
inductive, because a certificate increments the view and the buffers are indexed by it. The
strengthening `ViewBound` bounds a view by the timeouts and proposals so far, `ChangerBound`
does so for the view a timeout in progress will end with, and `RoundsProposed` says that a message
names a block that was proposed.

*Engine safety* (`DHotStuffProofs`), each with an inductive invariant over `TypeInv`:

* `EngineCommitOnChain`, `EngineLocksOnChain` from `ChainInv`: stores and windows hold proposed
  blocks only (`StoresProposed`), and the parent of a proposed block is what its certificate
  certifies (`ParentsCertified`). The window path needs the second: it compares parent hashes,
  the chain walk follows certificates.
* `EngineReruns`, `EngineWithinConfiguration` from `ConfigInv`: what each deliverer ran is marked
  or its membership change failed, and its configuration is installed (`DeliverersSound`); votes in
  flight answer blocks of configurations their signer has (`VotesInstalled`).
* `EngineNewViewsDistinct` from `NewViewInv`: a view changer sends for each view at most once
  (`SentOnce`), and what is buffered is not in flight any more (`CountedOnce`).
* `EngineCertificatesBacked` from `CertInv`: buffers hold verified votes of distinct signers
  (`VotesVerified`), and every certificate that is held, buffered, in flight or proposed has a
  quorum of some installed committee (`AllBacked`).
* `EngineRequestsConserved` from `RequestInv`: conservation as a count is not inductive, so it is
  split: what is queued or proposed was submitted, is there once in each place, in one place only,
  and nothing submitted is in neither. `propose` moves a prefix of one queue, and what arrives during
  the drain, into one block.

*Total order* (`LockstepProofs`). `LockstepTotalOrder`: the engine implements `AtomicBroadcast`, and
`LockstepCertificatesValid`: its certificates pass `ValidateQC`, which it never calls. Both assume
`Lockstep(c)`: every replica starts in the one committee `c`, no timer expires, a leader is not
handed its own proposals, the new-view messages that start the chain come from members, no request
changes the membership, and the members are one more than a quorum at most, which for what
`NewCommittee` makes means five or fewer. Members may be listed twice, be unreachable or have no
key; replicas, requests, blocks, losses and reorderings are not bounded. `stable` is an instance.

The inductive invariant `LockInv` ties the messages in flight to what each follower has done. A
follower with a proposal to come is one block behind, all others have handled the last block, and
window, store, `delivered` and log of each hold what that height says (`OnlyTopInFlight`,
`Stored`, `WindowsFollow`, `ExecutedInOrder`). A vote, in flight or counted, is of a follower that is
not behind, one for each (`VotesForTop`), so when votes make a quorum no proposal and no vote of the
round is left (`QuorumIsAudience`): the next block starts from a clean slate. New-view messages
start the chain once, because what a quorum leaves is less than another (`StartersLeft`). Then the
first commit path runs exactly the next block and the window path finds it marked (`CommitsNext`), so
every log is a prefix of the chain, and blocks of different heights differ. Lossy links stop the
chain but do not fork it. When a leader is handed its own proposals and votes for them, or when there
are more members, a follower need not be heard: it can fall behind and handle proposals in another
order, and the statement fails (`reordered_delivery` shows the first).

*Benchmarks* (`BenchClusterProofs`), for both harnesses, with any genesis committee of four or more
that lists nobody twice, which is all their constructors make, and any mix of rounds, failures and
resets.

* `BenchTypeOK`, `BenchEveryoneVouches`, `BenchCertificatesValidate` from `IInv`. That every replica
  is locked on the certificate in the tip is inductive only together with the fact that the tip is
  stored and its certificate older than the last one (`TipCertified`), which in turn needs that no
  block can be replaced in the store (`WindowBehind`); that a round's certificate is valid needs the
  committees' fault capacities (`CommitteesMade`).
* `BenchFaultyLeadOnce`, `BenchFailuresBounded`, `BenchLeadersBalanced` from `LeaderInv`. Honest
  replicas commit what they lead, so their rate is one, and that of a replica that has failed is zero
  (`RatesKnown`): its novelty, at most 0.4 of the score, never outweighs 0.6, so the timeouts are as
  many as the replicas that have failed (`FailedOnce`). Among honest replicas novelty decides: who is
  one round ahead has led more recently (`LedInTurn`). In turn, leaders of fewer views than seats
  are distinct (`ModInjective`), so the faulty ones run out (`RunOfFailures`). The proofs multiply
  fractions out (`ScaledAbove`); no counter wraps, as `BenchAssumption` keeps views below `Wide`.
* `BenchDeliveredBehind` from `DeliveredInv`. What is counted is a sum over the store, and what a
  round adds is one slot of the window, so the invariant says which blocks these are: the store has
  one block for each height, since what a failed round leaves is overwritten by the next one
  (`OnePerHeight`), and the window is the last four certified blocks, each the parent of the next
  (`LastFour`). The block that leaves it is then the only one that falls four behind
  (`LeavingFourth`); the genesis block falls behind uncounted, and is empty. That the sum does not
  depend on the order in which it takes the blocks is an induction on their number (`AnyTaken`,
  `SumsAgree`, `TransactionsAdd`).

*Transport* (`TransportProofs`). `TransportTypeOK`, `TransportNoLeak` and `TransportOneOutstanding`
from one `IInv`. That no connection leaks needs who holds a pool's lock and what for (`PoolHeld`).
That proposals do not overtake each other needs that a request is in one place (`OnePlace`), that
somebody waits for it or has given up (`AnsweredFor`), and that a broadcast begins only when the tasks
of the last one are over (`HeldUnderMutex`, `LatestBroadcast`).

*Reputation store* (`ReputationStoreProofs`). `StoreTypeOK`, `StoreTornScoreDefined`, `StoreNothingLost`:
the write lock has one holder (`MutexHeld`), what it has read is still what the counter holds
(`SeenCurrent`), so a counter is the number of calls that wrote it (`Counted`). Counters only grow, so
two reads of a field are ordered like their values (`LoadsBehind`): the divisor of a `Score` without the
lock is not zero, and its novelty lies between zero and one. Its commit rate may exceed one, when the
rounds are read before, and the commits after, another round is recorded and committed.

*State transfer* (`StateTransferProofs`). `StateTransferTypeOK` from `TypeInv`, and three theorems
with hypotheses about the world around the calls:

* `StateTransferHistoryHeld` assumes `ListedOnce`: `Apply` can list a member twice (an `ADD` of a
  member), and its answer would then count twice.
* `StateTransferQuorumCovered` assumes also that heights ascend along the common chain (`Ascending`;
  the engine may execute a child before its parent, see `reordered_delivery`) and that the committee
  has not three members. Of three members none may be faulty, so one matching answer makes a history,
  while a quorum is two: the one that answers need not be in it. TLC finds that case at once.
* `StateTransferSettledSucceeds` assumes `ListedOnce` and that the common chain has no gaps
  (`Contiguous`), without which the histories the members send are refused.

`QuorumCovered` counts on `CoveredInv`: until a member of the quorum is heard, the answers so far are
too few. `SettledSucceeds` counts on `SettledInv`: all members on the common chain answer with the
same height.

*Quorum rules* (`MembershipProofs`), for any votes and committees. `QuorumOfAgrees`: `QuorumOf`,
which nobody calls, and `HasQuorum`, which the engine calls, agree. `QuorumCertifies`: `CreateQC`
makes of votes for one block, signed by the members they name, a certificate that `ValidateQC`
accepts, as soon as a quorum of distinct signers is among them, whatever duplicates the list has; its
premises say what the engine must check of a vote, and one of them, that the votes are for one block,
it does not check (`mixed_certificate`). `ValidRequestApplies` and `ParsedReplicaAdmitted`: a request
that passes `ValidateMembershipRequest` applies, adds the replica that `ReplicaFromRequest` reads off
it, and creates no duplicates. All four rest on `DistinctEach`, whose lemmas go by induction on the
number of votes.

Only model-checked:

* the liveness properties `FollowersExecute`, `MutexReleased` and `CallsReturn`: liveness is out of
  the provers' reach;
* `TotalOrder` and `CertificatesValid` beyond `Lockstep`: with timeouts and a configuration installed
  late (`view_change`). They do not hold in general: `reordered_delivery` and `mixed_certificate` show
  where they end;
* the statements that fail.

Every property of a passing run has a mutant in `PROJECT.json`, a plausible slip in the code under
which TLC refutes it. For the certificates it is the weak quorum, `f + 1` signatures (`WeakCertificate`):
duplicates among the votes are skipped twice in the code, so forgetting it once changes nothing.
Hazards that no property catches are listed in `PROJECT.json` with the reason.

## 5. What is not modelled

* Byzantine replicas in the engine, keys and encodings: signatures are compared as what they bind.
* Time as a quantity: timers and deadlines expire at any moment, and the benchmarks' measured times,
  throughput and latency are left out.
* `ConfigStore.Subscribe` (its fan-out is part of the plan), `Committee.Validate`,
  `Syncer.BroadcastHistory`, `ExecutionHistory.Append`: without caller in the running program.
* The engine with a reputation store: `repStore` is nil in `DHotStuff`. The store and the selection
  are modelled where a program uses them, in `repbench`.
* The benchmarks' signing and batch helpers, and the 1024 steps after which their walk along parents
  gives up.
* Metrics, key generation, `main.go`, the TOML files, the simulated network of the tests: I/O,
  unused, or around the code rather than in it.

## 6. Plan

Done: all modules of section 2 and the proofs of section 4. Next, in this order:

1. Proofs: total order with timeouts, under the conditions of `view_change`.
2. An engine that selects leaders by reputation: whether replicas whose statistics differ agree on a
   leader, and what that costs.
3. `ConfigSubscribers`: `Install` with its fan-out to bounded channels.
4. Two blocks with one hash executed differently (three replicas).

The runs are few and long: a new question joins the run whose instance already reaches it.
