---------------------------- MODULE MCDHotStuff -----------------------------
(***************************************************************************)
(* The engine on a committee of four, which tolerates one fault and needs  *)
(* three votes.  p1 leads view 0, p2 leads view 1.  In a configuration c,  *)
(* votes verify only in view c; so the chain grows in view 0 of            *)
(* configuration 0, and in view 1 of configuration 1.                      *)
(***************************************************************************)
EXTENDS EngineRules

CONSTANTS p1, p2, p3, p4, p5

MCReplica == {p1, p2, p3, p4}

MCFive == {p1, p2, p3, p4, p5}

Full(r) == [id |-> r, addr |-> TRUE, key |-> TRUE]

Four == <<Full(p1), Full(p2), Full(p3), Full(p4)>>

Req(type, client, ok) == [type |-> type, client |-> client, wellFormed |-> ok]

\* Everyone in configuration 0, the committee of four.
AllAtGenesis == {[r \in MCReplica |-> <<NewCommittee(0, Four)>>]}

\* Configuration 1 is what removing p5 from a committee of five leads to.
OfFive == NewCommittee(0, Append(Four, Full(p5)))

Removed == <<OfFive, Apply(OfFive, <<Req("REMOVE", p5, TRUE)>>).committee>>

\* Everyone in configuration 1, or everyone but p4.
AllOrMostAtOne ==
  {[r \in MCFive |-> Removed],
   [r \in MCFive |-> IF r = p4 THEN <<OfFive>> ELSE Removed]}

\* Three replicas, two of which are a quorum: the smallest with a straggler.
MCThree == {p1, p2, p3}

Three == NewCommittee(0, <<Full(p1), Full(p2), Full(p3)>>)

ThreeAtGenesis == {[r \in MCThree |-> <<Three>>]}

-----------------------------------------------------------------------------
OneCommand == {Req("REGULAR", p1, TRUE)}

Commands == {Req("REGULAR", p1, TRUE), Req("REGULAR", p2, TRUE)}

\* Two changes, of which the second may be proposed before the first commits, and a command.
Changes == {Req("REMOVE", p4, TRUE), Req("REMOVE", p3, TRUE), Req("REGULAR", p1, TRUE)}

\* A NetworkSender that carries votes too, which the repository's Transport does not.
AnyMessage == {"vote", "newview"}

Nothing == {}

Nobody == {}

LastTwo == {p2, p3}

Followers == {p2, p3, p4}

-----------------------------------------------------------------------------
NoTimeouts == [r \in Replica |-> 0]

FirstTwoOnce == p1 :> 1 @@ p2 :> 1 @@ NoTimeouts

\* p1's timer may expire again while its first new-view message is on its way.
FirstTwice == p1 :> 2 @@ p3 :> 1 @@ p4 :> 1 @@ NoTimeouts
=============================================================================
