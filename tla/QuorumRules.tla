----------------------------- MODULE QuorumRules ----------------------------
(***************************************************************************)
(* The checks internal/membership offers and the running program does not  *)
(* call: what a valid certificate, a quorum and a valid membership request *)
(* are.  The other modules are compared with them.                         *)
(***************************************************************************)
EXTENDS Blocks

(***************************************************************************)
(* The five rules.  A certificate keeps its signatures as a set, each with *)
(* its signer, so the two parallel lists have equal lengths.  The verifier *)
(* is an interface nothing implements: it gets the signer's key, the hash  *)
(* and the signature, and says whether the signature is the signer's, over *)
(* that hash.                                                              *)
(***************************************************************************)
ValidateQC(qc, c) ==
  /\ Cardinality(qc.sigs) >= QuorumSize(c)
  /\ \A s, t \in qc.sigs : s.by = t.by => s = t
  /\ \A s \in qc.sigs : s.by \in MemberIds(c) /\ s.hash = qc.hash

-----------------------------------------------------------------------------
\* The first quorum of votes of distinct signers, and whether there is one.
QuorumOf(votes, c) ==
  LET distinct == DistinctVotes(votes)
      size == IF Len(distinct) < QuorumSize(c) THEN Len(distinct) ELSE QuorumSize(c)
  IN  [votes |-> SubSeq(distinct, 1, size), ok |-> Len(distinct) >= QuorumSize(c)]

-----------------------------------------------------------------------------
ValidateMembershipRequest(req, c) ==
  CASE req.type = "ADD"     -> req.wellFormed /\ req.client \notin MemberIds(c)
    [] req.type = "REMOVE"  -> req.client \in MemberIds(c)
    [] req.type = "REGULAR" -> TRUE

\* The member an ADD request describes; the set is empty where the code errs.
ReplicaFromRequest(req) ==
  IF req.type = "ADD" /\ req.wellFormed
  THEN {[id |-> req.client, addr |-> FALSE, key |-> TRUE]}
  ELSE {}
=============================================================================
