------------------------------ MODULE Delivery ------------------------------
(***************************************************************************)
(* Deliverer.Deliver as a function on the state it changes:                *)
(*   configs    the replica's ConfigStore                                  *)
(*   delivered  the hashes of the blocks marked delivered                  *)
(*   executed   (history) the blocks whose REGULAR requests were run, one  *)
(*              entry for each time they were run                          *)
(***************************************************************************)
EXTENDS Blocks

DelivererState ==
  [configs : Seq(Committee), delivered : SUBSET Hash, executed : Seq(Block)]

\* Mutated form of Runs: without the idempotency guard.
RunsAgain(d, b) == Installed(d.configs, b.conf)

\* The call gets past the idempotency guard and finds the block's committee.
Runs(d, b) == HashBlock(b) \notin d.delivered /\ Installed(d.configs, b.conf)

\* Mutated form of NextCommittee: applies to the latest committee instead.
NextOfLatest(d, b) == Apply(Latest(d.configs), MembershipRequests(b.batch))

NextCommittee(d, b) ==
  Apply(AtNumber(d.configs, b.conf), MembershipRequests(b.batch))

ChangesMembership(b) == MembershipRequests(b.batch) # << >>

\* Apply and Install both succeed.
Installs(d, b) ==
  /\ Runs(d, b) /\ ChangesMembership(b)
  /\ NextCommittee(d, b).ok
  /\ Installable(d.configs, NextCommittee(d, b).committee)

\* Mutated form of Marks: the block of an installed committee is not marked.
MarksRegularOnly(d, b) == Runs(d, b) /\ ~ChangesMembership(b)

\* The block is marked delivered; one whose Apply or Install failed is not.
Marks(d, b) == Installs(d, b) \/ (Runs(d, b) /\ ~ChangesMembership(b))

(***************************************************************************)
(* The whole of Deliver.  The regular requests run before the membership   *)
(* requests are tried, and the block is marked only when those succeed.    *)
(***************************************************************************)
Deliver(d, b) ==
  [configs   |-> IF Installs(d, b)
                 THEN Append(d.configs, NextCommittee(d, b).committee)
                 ELSE d.configs,
   delivered |-> IF Marks(d, b)
                 THEN d.delivered \cup {HashBlock(b)}
                 ELSE d.delivered,
   executed  |-> IF Runs(d, b) THEN Append(d.executed, b) ELSE d.executed]

(***************************************************************************)
(* The membership change of the k-th run has failed: Apply returned an     *)
(* error, or Install was offered a configuration that the store had, from  *)
(* its start of so many committees or since an earlier run installed it.   *)
(***************************************************************************)
ChangeFailed(d, k, start) ==
  LET b == d.executed[k]
  IN  /\ ChangesMembership(b)
      /\ \/ ~NextCommittee(d, b).ok
         \/ b.conf + 1 < start
         \/ \E h \in 1 .. k - 1 :
              LET e == d.executed[h]
              IN  e.conf = b.conf /\ ChangesMembership(e) /\ NextCommittee(d, e).ok

CheckThreeChain(bStar, bDouble, bPrime, b) ==
  /\ bStar.parent = HashBlock(bDouble)
  /\ bDouble.parent = HashBlock(bPrime)
  /\ bPrime.parent = HashBlock(b)
=============================================================================
