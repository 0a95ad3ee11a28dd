-------------------------- MODULE MCStateTransfer ---------------------------
(***************************************************************************)
(* A committee of four, one of which may have executed something else than *)
(* the genesis block and its child.                                        *)
(***************************************************************************)
EXTENDS StateTransfer

CONSTANTS p1, p2, p3, p4

MCReplica == {p1, p2, p3, p4}

Full(r) == [id |-> r, addr |-> TRUE, key |-> TRUE]

Four == NewCommittee(0, <<Full(p1), Full(p2), Full(p3), Full(p4)>>)

Blk(parent, h, batch) ==
  [parent |-> parent, height |-> h, conf |-> 0, batch |-> batch, justify |-> NoQC]

Req(client) == [type |-> "REGULAR", client |-> client, wellFormed |-> TRUE]

First == Blk(<<-1>>, 0, << >>)

MCCommon == <<First, Blk(<<-1, 0>>, 1, <<Req(p1)>>)>>

\* The first block, then one of another parent, then one that leaves a gap.
ForkedThenGap == <<First, Blk(<<-2, 0>>, 1, << >>), Blk(<<-2, 1>>, 3, << >>)>>

OneForked == [r \in MCReplica |-> IF r = p4 THEN ForkedThenGap ELSE MCCommon]

\* p1 and p4 have executed a block before anyone is asked.
TwoStarted == [r \in MCReplica |-> IF r \in {p1, p4} THEN 1 ELSE 0]
=============================================================================
