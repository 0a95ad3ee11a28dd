------------------------------- MODULE Blocks -------------------------------
(***************************************************************************)
(* Blocks, quorum certificates, votes and the block store the engine reads *)
(* through BlockchainReader.                                               *)
(*                                                                         *)
(* hashBlock digests the parent hash and the height, nothing else.  The    *)
(* digest is modelled as the pair it is computed from, flattened into the  *)
(* sequence of heights from the root of the chain: two blocks have the     *)
(* same hash exactly when they have the same parent hash and height,       *)
(* whatever their batches, justifications and configurations are.          *)
(***************************************************************************)
EXTENDS Committees, SequencesExt

Hash == Seq(Int)

\* What a signer binds itself to: crypto.Sign(view, conf, hash).
Signature == [by : Replica, view : Nat, conf : Nat, hash : Hash]

QuorumCert == [view : Nat, conf : Nat, hash : Hash, sigs : SUBSET Signature]

\* A nil certificate, whose getters return the zero values.
NoQC == [view |-> 0, conf |-> 0, hash |-> << >>, sigs |-> {}]

Block == [parent : Hash, height : Nat, batch : Seq(MembershipRequest),
          justify : QuorumCert, conf : Nat]

HashBlock(b) == Append(b.parent, b.height)

-----------------------------------------------------------------------------
(***************************************************************************)
(* The block store: a map from hashes to blocks, that is, a set of blocks  *)
(* with distinct hashes.  Get returns the set of the blocks found, empty   *)
(* or a singleton.                                                         *)
(***************************************************************************)
Get(store, hash) == {b \in store : HashBlock(b) = hash}

Put(store, b) == (store \ Get(store, HashBlock(b))) \cup {b}

(***************************************************************************)
(* Extends walks parent hashes from child until it meets ancestor or a     *)
(* hash that is not stored.  The ancestors of a hash are its prefixes.     *)
(***************************************************************************)
Extends(store, child, ancestor) ==
  /\ IsPrefix(ancestor, child)
  /\ \A n \in Len(ancestor) + 1 .. Len(child) : Get(store, SubSeq(child, 1, n)) # {}

-----------------------------------------------------------------------------
(***************************************************************************)
(* Votes.  Verify checks the signature against the fields of the vote.     *)
(***************************************************************************)
Vote == [view : Nat, conf : Nat, hash : Hash, sig : Signature, signer : Replica]

Sign(by, view, conf, hash) == [by |-> by, view |-> view, conf |-> conf, hash |-> hash]

Verify(vote) == vote.sig = Sign(vote.signer, vote.view, vote.conf, vote.hash)

Signers(votes) == {votes[i].signer : i \in DOMAIN votes}

\* AggregateVotes keeps the first vote of each signer.
AggregateVotes(votes, vote) ==
  IF vote.signer \in Signers(votes) THEN votes ELSE Append(votes, vote)

HasQuorum(votes, c) == Cardinality(Signers(votes)) >= QuorumSize(c)

\* After each vote of a list, the first vote of each signer so far, in order.
DistinctEach(votes) ==
  LET kept[i \in 0 .. Len(votes)] ==
        IF i = 0 THEN << >> ELSE AggregateVotes(kept[i - 1], votes[i])
  IN  kept

DistinctVotes(votes) == DistinctEach(votes)[Len(votes)]

\* Mutated form of Certificate: the weak quorum, one more than the faults tolerated.
WeakCertificate(votes, c) ==
  [view |-> votes[1].view, conf |-> votes[1].conf, hash |-> votes[1].hash,
   sigs |-> {DistinctVotes(votes)[i].sig : i \in 1 .. c.faultCap + 1}]

\* The signatures of the first quorum of signers.  View, configuration and
\* hash are those of the first vote, whatever the others voted for.
Certificate(votes, c) ==
  [view |-> votes[1].view, conf |-> votes[1].conf, hash |-> votes[1].hash,
   sigs |-> {DistinctVotes(votes)[i].sig : i \in 1 .. QuorumSize(c)}]

(***************************************************************************)
(* CreateQC skips second votes of a signer.  Like Get, it returns a set:   *)
(* empty where the code errs, for want of distinct signers (or of votes,   *)
(* of which there are no fewer).                                           *)
(***************************************************************************)
CreateQC(votes, c) ==
  IF Len(DistinctVotes(votes)) < QuorumSize(c) THEN {} ELSE {Certificate(votes, c)}
=============================================================================
