----------------------------- MODULE Committees -----------------------------
(***************************************************************************)
(* Committees (configurations) and membership requests: the pure functions *)
(* of internal/membership that the consensus engine calls.                 *)
(*                                                                         *)
(* A replica record keeps what the engine looks at: its identity, whether  *)
(* an address is known for it (a replica admitted by an ADD request gets   *)
(* none) and whether it has a public key.  A key payload is abstracted to  *)
(* "parses as an ECDSA key or not".                                        *)
(***************************************************************************)
EXTENDS Integers, Sequences, FiniteSets

CONSTANT Replica     \* every identity that can ever be a committee member

Member == [id : Replica, addr : BOOLEAN, key : BOOLEAN]

RequestType == {"REGULAR", "ADD", "REMOVE"}

(***************************************************************************)
(* A client request.  client is the sender of a REGULAR request and the    *)
(* replica concerned by an ADD or a REMOVE; wellFormed says whether the    *)
(* payload of an ADD parses.                                               *)
(***************************************************************************)
MembershipRequest == [type : RequestType, client : Replica, wellFormed : BOOLEAN]

Committee == [number : Nat, replicas : Seq(Member), faultCap : Nat]

-----------------------------------------------------------------------------
FaultCap(n) == IF n > 0 THEN (n - 1) \div 3 ELSE 0

NewCommittee(number, replicas) ==
  [number |-> number, replicas |-> replicas, faultCap |-> FaultCap(Len(replicas))]

\* Mutated form of QuorumSize: a plain majority.
MajoritySize(c) == (Len(c.replicas) + 2) \div 2

QuorumSize(c) == (Len(c.replicas) + c.faultCap + 2) \div 2

\* Defined for a non-empty committee only: the code panics on an empty one.
Leader(c, view) == c.replicas[1 + (view % Len(c.replicas))]

MemberIds(c) == {c.replicas[i].id : i \in DOMAIN c.replicas}

\* The first replica with the given id, which the caller knows is a member.
ReplicaByID(c, id) ==
  LET IsHit(i) == c.replicas[i].id = id
  IN  c.replicas[CHOOSE i \in DOMAIN c.replicas :
                   IsHit(i) /\ \A j \in 1 .. i - 1 : ~IsHit(j)]

-----------------------------------------------------------------------------
(***************************************************************************)
(* The elements of s that are in S, in their order.  SelectSeq takes an    *)
(* operator as argument, which no prover can reason about.                 *)
(***************************************************************************)
OnlyEach(s, S) ==
  LET kept[i \in 0 .. Len(s)] ==
        IF i = 0 THEN << >>
        ELSE IF s[i] \in S THEN Append(kept[i - 1], s[i])
        ELSE kept[i - 1]
  IN  kept

Only(s, S) == OnlyEach(s, S)[Len(s)]

-----------------------------------------------------------------------------
(***************************************************************************)
(* Apply runs the requests in order on a copy of the replica list; the     *)
(* first one that fails makes the whole batch fail.                        *)
(***************************************************************************)
Admit(replicas, req) ==
  Append(replicas, [id |-> req.client, addr |-> FALSE, key |-> TRUE])

Expel(replicas, req) == Only(replicas, {m \in Member : m.id # req.client})

Applicable(replicas, req) ==
  CASE req.type = "ADD"     -> req.wellFormed
    [] req.type = "REMOVE"  -> \E i \in DOMAIN replicas : replicas[i].id = req.client
    [] req.type = "REGULAR" -> TRUE

ApplyOne(acc, req) ==
  IF ~acc.ok \/ ~Applicable(acc.replicas, req)
  THEN [acc EXCEPT !.ok = FALSE]
  ELSE [acc EXCEPT !.replicas = CASE req.type = "ADD"     -> Admit(@, req)
                                  [] req.type = "REMOVE"  -> Expel(@, req)
                                  [] req.type = "REGULAR" -> @]

\* The accumulators after 0, 1, ... requests.
ApplyEach(c, reqs) ==
  LET run[i \in 0 .. Len(reqs)] ==
        IF i = 0 THEN [ok |-> TRUE, replicas |-> c.replicas]
                 ELSE ApplyOne(run[i - 1], reqs[i])
  IN  run

\* [ok, committee]: the next configuration, meaningful only when ok.
Apply(c, reqs) ==
  LET last == ApplyEach(c, reqs)[Len(reqs)]
  IN  [ok |-> last.ok, committee |-> NewCommittee(c.number + 1, last.replicas)]

-----------------------------------------------------------------------------
\* ClassifyBatch: the membership half of a batch, in order.
MembershipRequests(batch) ==
  Only(batch, {req \in MembershipRequest : req.type # "REGULAR"})

-----------------------------------------------------------------------------
(***************************************************************************)
(* ConfigStore: the installed committees, where configs[c + 1] has         *)
(* number c, never empty (config_store.go:21-45).                          *)
(***************************************************************************)
IsStore(configs) ==
  /\ configs \in Seq(Committee) /\ configs # << >>
  /\ \A i \in DOMAIN configs : configs[i].number = i - 1

Latest(configs) == configs[Len(configs)]

Installed(configs, c) == c < Len(configs)

AtNumber(configs, c) == configs[c + 1]

\* Mutated form of Installable: the number is not checked.
AlwaysInstallable(configs, c) == TRUE

\* Install accepts only the immediate successor of the latest committee.
Installable(configs, c) == c.number = Len(configs)
=============================================================================
