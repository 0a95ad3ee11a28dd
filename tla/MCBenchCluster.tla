--------------------------- MODULE MCBenchCluster ---------------------------
(***************************************************************************)
(* Clusters of four replicas (one fault tolerated, quorum 3) and of five   *)
(* (quorum 4), with any of them faulty.  Three replicas that join at once  *)
(* make a committee whose quorum the keys of four cannot reach.            *)
(***************************************************************************)
EXTENDS BenchCluster

CONSTANTS p1, p2, p3, p4, p5, p6, p7

MCReplica == {p1, p2, p3, p4, p5, p6, p7}

MCRank == p1 :> 1 @@ p2 :> 2 @@ p3 :> 3 @@ p4 :> 4 @@ p5 :> 5 @@ p6 :> 6 @@ p7 :> 7

Full(r) == [id |-> r, addr |-> TRUE, key |-> TRUE]

MCClusters ==
  {NewCommittee(0, <<Full(p1), Full(p2), Full(p3), Full(p4)>>),
   NewCommittee(0, <<Full(p1), Full(p2), Full(p3), Full(p4), Full(p5)>>)}

Req(type, client) == [type |-> type, client |-> client, wellFormed |-> TRUE]

Command == Req("REGULAR", p1)

MCBatches ==
  {<< >>, <<Command, Req("REMOVE", p1)>>,
   <<Req("ADD", p5), Req("ADD", p6), Req("ADD", p7)>>}
=============================================================================
