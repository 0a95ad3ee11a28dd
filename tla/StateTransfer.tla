--------------------------- MODULE StateTransfer ----------------------------
(***************************************************************************)
(* A replica that joins or lags asks the members of a committee for what   *)
(* they executed: Syncer.RequestHistory, Syncer.RequestUpdate and          *)
(* Discovery.SyncIfBehind, one call at a time.                             *)
(*                                                                         *)
(* A call sends one RPC to each member and takes the answers from a        *)
(* channel as they come.  The members keep executing blocks meanwhile; an  *)
(* RPC answers with what the member has executed at that moment, or fails. *)
(* Members are named by their places in the committee, and an answer by    *)
(* how many blocks of the member's chain it holds.                         *)
(*                                                                         *)
(* Outside the repository: the block store from which the members answer,  *)
(* and the safety check SyncIfBehind is given, which may say yes or no.    *)
(***************************************************************************)
EXTENDS Blocks

CONSTANTS
  Asked,         \* the committee that is asked
  Common,        \* the blocks the replicas agree to execute, in order
  Chain,         \* for each member, the blocks it executes
  Start,         \* for each member, how many of them it has executed at first
  OwnConf,       \* the number of the asker's latest configuration
  MaxConf        \* bound on the configuration number it is told of

Members == MemberIds(Asked)

\* The members that executed something else.
Diverged == {r \in Members : Chain[r] # Common}

ASSUME StateTransferAssumption ==
  /\ Asked \in Committee /\ Asked.replicas # << >>
  /\ Asked.faultCap = FaultCap(Len(Asked.replicas))
  /\ Common \in Seq(Block) /\ Chain \in [Members -> Seq(Block)]
  /\ Start \in [Members -> Nat] /\ \A r \in Members : Start[r] <= Len(Chain[r])
  /\ Cardinality(Diverged) <= Asked.faultCap
  /\ OwnConf \in Nat /\ MaxConf \in Nat

VARIABLES
  height,        \* how many blocks each member has executed
  call,          \* the fan-out in progress, or "idle"
  reply,         \* the state of each RPC and the height it answered with
  heard,         \* the members whose answer was taken from the channel, in order
  result,        \* what the last call returned
  covered,       \* history: what a quorum had executed when the call began
  disturbed      \* history: a member executed or failed, or the deadline came

askVars     == <<call, reply, heard, result>>
historyVars == <<covered, disturbed>>
vars == <<height, askVars, historyVars>>

Place == DOMAIN Asked.replicas

IdAt(i) == Asked.replicas[i].id

Call == {"history", "update", "sync update", "sync history"}

Reply == [state : {"waiting", "ok", "error"}, height : Nat]

Result == [of : Call \cup {"none", "sync"}, ok : BOOLEAN, blocks : Seq(Block)]

NoResult == [of |-> "none", ok |-> FALSE, blocks |-> << >>]

NoReplies == [i \in Place |-> [state |-> "waiting", height |-> 0]]

Init ==
  /\ height = Start
  /\ call = "idle"
  /\ reply = NoReplies /\ heard = << >>
  /\ result = NoResult
  /\ covered = 0 /\ disturbed = FALSE

-----------------------------------------------------------------------------
\* A member executes its next block.
Execute(r) ==
  /\ height[r] < Len(Chain[r])
  /\ height' = [height EXCEPT ![r] = @ + 1]
  /\ disturbed' = TRUE
  /\ UNCHANGED <<askVars, covered>>

-----------------------------------------------------------------------------
\* The greatest height that a quorum has executed up to.
CoveredNow ==
  LET Done(h) == {r \in Members : height[r] >= h}
  IN  CHOOSE h \in 0 .. Len(Common) :
        /\ h = 0 \/ Cardinality(Done(h)) >= QuorumSize(Asked)
        /\ h = Len(Common) \/ Cardinality(Done(h + 1)) < QuorumSize(Asked)

\* The members that agree are equally far, and have something to show.
Level == \E h \in 1 .. Len(Common) : \A r \in Members \ Diverged : height[r] = h

FanOut(c) == call' = c /\ reply' = NoReplies /\ heard' = << >>

Begin ==
  /\ call = "idle"
  /\ covered' = CoveredNow /\ disturbed' = ~Level
  /\ UNCHANGED height

RequestHistory == Begin /\ FanOut("history") /\ result' = NoResult

RequestUpdate == Begin /\ FanOut("update") /\ result' = NoResult

\* The committee asked is the asker's own: it has not installed the one it is told of.
SyncIfBehind(c) ==
  /\ Begin
  /\ \/ OwnConf < c /\ FanOut("sync update") /\ result' = NoResult
     \/ OwnConf >= c /\ result' = [of |-> "sync", ok |-> TRUE, blocks |-> << >>]
          /\ UNCHANGED <<call, reply, heard>>

-----------------------------------------------------------------------------
\* One RPC.  HistoryFromProto makes an error of a history with a gap.
Contiguous(blocks) == \A k \in DOMAIN blocks : blocks[k].height = k - 1

Sent(i) == SubSeq(Chain[IdAt(i)], 1, height[IdAt(i)])

AsksHistory == call \in {"history", "sync history"}

Answer(i) ==
  /\ call # "idle" /\ reply[i].state = "waiting"
  /\ reply' = [reply EXCEPT ![i] =
       IF AsksHistory /\ ~Contiguous(Sent(i))
       THEN [state |-> "error", height |-> 0]
       ELSE [state |-> "ok", height |-> Len(Sent(i))]]
  /\ UNCHANGED <<height, call, heard, result, historyVars>>

\* No connection, an error of the member, or the deadline of the call.
Fail(i) ==
  /\ call # "idle" /\ reply[i].state = "waiting"
  /\ reply' = [reply EXCEPT ![i].state = "error"]
  /\ disturbed' = TRUE
  /\ UNCHANGED <<height, call, heard, result, covered>>

-----------------------------------------------------------------------------
(***************************************************************************)
(* The tally, of the members heard so far, in the order they were heard.   *)
(***************************************************************************)
Blocks(i) == SubSeq(Chain[IdAt(i)], 1, reply[i].height)

Good(places) == {k \in DOMAIN places : reply[places[k]].state = "ok"}

\* Hash digests the parent hash and the height of each block.
HistoryHash(blocks) == [k \in DOMAIN blocks |-> HashBlock(blocks[k])]

\* Mutated forms of MatchingNeeded.
MatchingNeededLow == Asked.faultCap + 1

MatchingNeededAll == Len(Asked.replicas)

MatchingNeeded == 2 * Asked.faultCap + 1

Matching(places, k) ==
  {l \in Good(places) :
     HistoryHash(Blocks(places[l])) = HistoryHash(Blocks(places[k]))}

\* The answers whose hash has enough matches; the first of them is returned.
Agreed(places) ==
  {k \in Good(places) : Cardinality(Matching(places, k)) >= MatchingNeeded}

AgreedHistory(places) ==
  Blocks(places[CHOOSE k \in Agreed(places) : \A l \in Agreed(places) : k <= l])

UpdatesNeeded == Len(Asked.replicas) - Asked.faultCap

WithBlocks(places) == {k \in Good(places) : reply[places[k]].height > 0}

Enough(places) ==
  Cardinality(Good(places)) >= UpdatesNeeded /\ WithBlocks(places) # {}

Best(i) == Last(Blocks(i))

\* Mutated form of BestBlock: the first block heard.
FirstBlock(places) ==
  Best(places[CHOOSE k \in WithBlocks(places) : \A l \in WithBlocks(places) : k <= l])

\* The highest block, the first heard among equals.
BestBlock(places) ==
  LET Beats(k, l) == Best(places[k]).height > Best(places[l]).height
                       \/ (Best(places[k]).height = Best(places[l]).height /\ k <= l)
  IN  Best(places[CHOOSE k \in WithBlocks(places) :
                    \A l \in WithBlocks(places) : Beats(k, l)])

\* Mutated form of Received: answers that are errors do not count.
ReceivedGood(places) == Cardinality(Good(places))

Received(places) == Len(places)

AllReceived(places) == Received(places) = Len(Asked.replicas)

Successful(places) == IF AsksHistory THEN Agreed(places) # {} ELSE Enough(places)

-----------------------------------------------------------------------------
Heard(i) == Append(heard, i)

\* The answer of i is in the channel.
Available(i) == call # "idle" /\ reply[i].state # "waiting" /\ i \notin ToSet(heard)

Return(ok, blocks) ==
  /\ call' = "idle" /\ reply' = NoReplies /\ heard' = << >>
  /\ result' = [of |-> call, ok |-> ok, blocks |-> blocks]

Collect(i) ==
  /\ Available(i) /\ ~Successful(Heard(i)) /\ ~AllReceived(Heard(i))
  /\ heard' = Heard(i)
  /\ UNCHANGED <<height, call, reply, result, historyVars>>

GiveUp(i) ==
  /\ Available(i) /\ ~Successful(Heard(i)) /\ AllReceived(Heard(i))
  /\ Return(FALSE, << >>)
  /\ UNCHANGED <<height, historyVars>>

ReturnHistory(i) ==
  /\ AsksHistory /\ Available(i) /\ Successful(Heard(i))
  /\ Return(TRUE, AgreedHistory(Heard(i)))
  /\ UNCHANGED <<height, historyVars>>

ReturnUpdate(i) ==
  /\ call = "update" /\ Available(i) /\ Successful(Heard(i))
  /\ Return(TRUE, <<BestBlock(Heard(i))>>)
  /\ UNCHANGED <<height, historyVars>>

\* SyncIfBehind with a best block that passes SafeNode, and one that does not.
AcceptUpdate(i) ==
  /\ call = "sync update" /\ Available(i) /\ Successful(Heard(i))
  /\ FanOut("sync history")
  /\ UNCHANGED <<height, result, historyVars>>

RejectUpdate(i) ==
  /\ call = "sync update" /\ Available(i) /\ Successful(Heard(i))
  /\ Return(FALSE, << >>)
  /\ disturbed' = TRUE
  /\ UNCHANGED <<height, covered>>

\* The Syncer's calls have a deadline; Discovery's own tally has none.
Expire ==
  /\ call \in {"history", "update", "sync history"}
  /\ Return(FALSE, << >>)
  /\ disturbed' = TRUE
  /\ UNCHANGED <<height, covered>>

-----------------------------------------------------------------------------
Take(i) ==
  \/ Collect(i) \/ GiveUp(i) \/ ReturnHistory(i) \/ ReturnUpdate(i)
  \/ AcceptUpdate(i) \/ RejectUpdate(i)

Next ==
  \/ \E r \in Members : Execute(r)
  \/ RequestHistory \/ RequestUpdate
  \/ \E c \in 0 .. MaxConf : SyncIfBehind(c)
  \/ \E i \in Place : Answer(i) \/ Fail(i) \/ Take(i)
  \/ Expire

Spec == Init /\ [][Next]_vars

-----------------------------------------------------------------------------
(***************************************************************************)
(* Each variable has its type; an answer is taken at most once and a call  *)
(* that has taken all of them is over (syncer.go:116-135, 219-242).        *)
(***************************************************************************)
TypeOK ==
  /\ height \in [Members -> Nat]
  /\ call \in Call \cup {"idle"}
  /\ reply \in [Place -> Reply]
  /\ heard \in Seq(Place) /\ IsInjective(heard) /\ Len(heard) < Len(Asked.replicas)
  /\ result \in Result
  /\ covered \in 0 .. Len(Common) /\ disturbed \in BOOLEAN

HistoryReturned == result.ok /\ result.of \in {"history", "sync history"}

(***************************************************************************)
(* A returned history has the hash of one that at least f + 1 members on   *)
(* the common chain have executed, though the members are at different     *)
(* heights, move on while they are asked, and up to f of them hold         *)
(* something else (syncer.go:72-75, 122-132).                              *)
(***************************************************************************)
HistoryHeld ==
  HistoryReturned =>
    LET n == Len(result.blocks)
    IN  /\ n <= Len(Common)
        /\ HistoryHash(result.blocks) = HistoryHash(SubSeq(Common, 1, n))
        /\ Cardinality({r \in Members \ Diverged : height[r] >= n}) > Asked.faultCap

(***************************************************************************)
(* What a quorum had executed when the call began is in the history or not *)
(* above the block it returns: no answer older than that wins              *)
(* (syncer.go:80, 186, 233-240).                                           *)
(***************************************************************************)
QuorumCovered ==
  /\ HistoryReturned => Len(result.blocks) >= covered
  /\ result.ok /\ result.of = "update" /\ covered > 0
       => result.blocks[1].height >= Common[covered].height

(***************************************************************************)
(* When the members on the common chain are equally far and none moves on  *)
(* or fails, the call succeeds whatever the f others hold                  *)
(* (syncer.go:80, 186).                                                    *)
(***************************************************************************)
SettledSucceeds == call = "idle" /\ ~disturbed /\ result.of # "none" => result.ok
=============================================================================
