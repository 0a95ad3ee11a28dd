-------------------------- MODULE AtomicBroadcast ---------------------------
(***************************************************************************)
(* What the consensus engine promises its application: each replica has a  *)
(* log of the blocks it executed, a log only grows, by entries it does not *)
(* hold yet, and of two logs one is always a prefix of the other.          *)
(***************************************************************************)
EXTENDS SequencesExt

CONSTANT Replica

VARIABLE log      \* log[r]: the blocks r executed, in order

Init == log = [r \in Replica |-> << >>]

Comparable(s, t) == IsPrefix(s, t) \/ IsPrefix(t, s)

\* Replica r executes one block or several.
Execute(r) ==
  /\ \A q \in Replica \ {r} : log'[q] = log[q]
  /\ IsStrictPrefix(log[r], log'[r])
  /\ IsInjective(log'[r])
  /\ \A q \in Replica : Comparable(log'[r], log'[q])

Next == \E r \in Replica : Execute(r)

Spec == Init /\ [][Next]_log
=============================================================================
