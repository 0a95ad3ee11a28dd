------------------------- MODULE MCReputationStore --------------------------
(***************************************************************************)
(* Two goroutines, each free to record and to score, and one replica: the  *)
(* statistics of different replicas do not touch each other.               *)
(***************************************************************************)
EXTENDS ReputationStore, TLC

CONSTANTS p1, c1, c2

MCReplica == {p1}

MCRank == p1 :> 1

MCCaller == {c1, c2}

MCHeight == {1, 3}
=============================================================================
