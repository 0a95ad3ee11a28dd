---------------------------- MODULE MCTransport -----------------------------
(***************************************************************************)
(* Two members that lead, so that each may broadcast while the other does, *)
(* and a third that nobody can connect to.                                 *)
(***************************************************************************)
EXTENDS Transport

CONSTANTS p1, p2, p3

MCNode == {p1, p2, p3}

Third == {p3}

FirstTwo == {p1, p2}
=============================================================================
