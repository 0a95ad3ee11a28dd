---------------------------- MODULE MCDeliverer -----------------------------
(***************************************************************************)
(* A committee of four, a chain of six blocks in three configurations and  *)
(* a fork of its second block, with every kind of batch: regular only,     *)
(* mixed, an ADD, a REMOVE, an ADD that does not parse, a REMOVE of a      *)
(* replica that is gone.                                                   *)
(***************************************************************************)
EXTENDS Deliverer

CONSTANTS p1, p2, p3, p4, p5

MCReplica == {p1, p2, p3, p4, p5}

Full(r) == [id |-> r, addr |-> TRUE, key |-> TRUE]

MCGenesis == NewCommittee(0, <<Full(p1), Full(p2), Full(p3), Full(p4)>>)

Req(type, client, ok) == [type |-> type, client |-> client, wellFormed |-> ok]

Run    == Req("REGULAR", p1, TRUE)
Add(r) == Req("ADD", r, TRUE)
Bad(r) == Req("ADD", r, FALSE)
Rem(r) == Req("REMOVE", r, TRUE)

Blk(parent, height, conf, batch) ==
  [parent |-> parent, height |-> height, conf |-> conf, batch |-> batch,
   justify |-> NoQC]

MCPool ==
  { Blk(<<-1>>, 1, 0, <<Run>>),
    Blk(<<-1, 1>>, 2, 0, <<Run, Add(p5), Run>>),
    Blk(<<-1, 1>>, 3, 0, <<Rem(p4)>>),
    Blk(<<-1, 1, 2>>, 3, 1, <<Run, Bad(p5)>>),
    Blk(<<-1, 1, 2, 3>>, 4, 1, <<Add(p5), Rem(p4)>>),
    Blk(<<-1, 1, 2, 3, 4>>, 5, 1, <<Run, Rem(p4), Rem(p4)>>),
    Blk(<<-1, 1, 2, 3, 4, 5>>, 6, 2, <<Rem(p5), Run>>) }
=============================================================================
