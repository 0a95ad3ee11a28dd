----------------------------- MODULE Deliverer ------------------------------
(***************************************************************************)
(* One replica's Deliverer and the ConfigStore it installs committees in,  *)
(* driven by any sequence of Deliver calls.  The engine calls Deliver from *)
(* two commit paths, in an order that message loss and reordering decide,  *)
(* so every call is allowed at every moment, repeated calls included.      *)
(***************************************************************************)
EXTENDS Delivery

CONSTANTS
  Pool,          \* the blocks Deliver may be called with
  Genesis,       \* the committee of configuration 0
  MaxExecuted    \* bound on the length of the history variable executed

ASSUME DelivererAssumption ==
  /\ Pool \subseteq Block
  /\ Genesis \in Committee /\ Genesis.number = 0
  /\ Genesis.faultCap = FaultCap(Len(Genesis.replicas))
  /\ MaxExecuted \in Nat

VARIABLES
  configs,       \* ConfigStore.configs
  delivered,     \* Deliverer.delivered
  executed       \* history: the blocks whose regular requests were executed

vars == <<configs, delivered, executed>>

State == [configs |-> configs, delivered |-> delivered, executed |-> executed]

Init ==
  /\ configs = <<Genesis>>
  /\ delivered = {}
  /\ executed = << >>

\* One call of Deliver, whatever its outcome.
DeliverBlock(b) ==
  /\ Len(executed) < MaxExecuted
  /\ configs' = Deliver(State, b).configs
  /\ delivered' = Deliver(State, b).delivered
  /\ executed' = Deliver(State, b).executed

Next == \E b \in Pool : DeliverBlock(b)

Spec == Init /\ [][Next]_vars

-----------------------------------------------------------------------------
(***************************************************************************)
(* Each variable has its type; a committee is numbered by its place in the *)
(* store and tolerates what its size allows (config_store.go:21-33,        *)
(* committee.go:190-196).                                                  *)
(***************************************************************************)
Consistent(c) == c.faultCap = FaultCap(Len(c.replicas))

TypeOK ==
  /\ IsStore(configs) /\ \A i \in DOMAIN configs : Consistent(configs[i])
  /\ delivered \subseteq {HashBlock(b) : b \in Pool}
  /\ executed \in Seq(Pool)

(***************************************************************************)
(* Every committee after the first is the result of applying the           *)
(* membership requests of a block that was executed in the configuration   *)
(* just before it: no configuration is skipped, applied to a stale base or *)
(* installed for a block of another configuration (deliver.go:58,73-77,    *)
(* config_store.go:83-86).                                                 *)
(***************************************************************************)
ConfigsChained ==
  \A i \in DOMAIN configs \ {1} :
    \E k \in DOMAIN executed :
      LET b    == executed[k]
          next == Apply(configs[i - 1], MembershipRequests(b.batch))
      IN  b.conf = i - 2 /\ next.ok /\ configs[i] = next.committee

(***************************************************************************)
(* The deliverer "commits blocks exactly once" (deliver.go:24), repeated   *)
(* calls included, but for one case: the time before, the block's          *)
(* membership requests could not be applied, or the committee they lead to *)
(* could not be installed.  A block that installed a committee never runs  *)
(* again, nor one without membership requests (deliver.go:54-56, 69-83).   *)
(***************************************************************************)
RerunOnlyIfFailed ==
  \A i, j \in DOMAIN executed :
    i < j /\ HashBlock(executed[i]) = HashBlock(executed[j])
      => ChangeFailed(State, i, 1)

(***************************************************************************)
(* Two quorums of an installed committee share more replicas than the      *)
(* committee tolerates faults, however the committee came about: also when *)
(* an ADD admitted an identity twice (committee.go:79-96, 147-203).        *)
(***************************************************************************)
QuorumsOverlap ==
  \A i \in DOMAIN configs :
    \A q1, q2 \in SUBSET MemberIds(configs[i]) :
      /\ Cardinality(q1) >= QuorumSize(configs[i])
      /\ Cardinality(q2) >= QuorumSize(configs[i])
      => Cardinality(q1 \cap q2) > configs[i].faultCap

(***************************************************************************)
(* Every committee after the first was installed for one delivered block,  *)
(* and every delivered block that changes membership installed one: the    *)
(* store and the set stay in step over repeated calls, calls out of order  *)
(* and calls that fail half way (config_store.go:79-100, deliver.go:73-83). *)
(***************************************************************************)
InstalledOncePerBlock ==
  Len(configs) = 1 + Cardinality({b \in Pool : /\ HashBlock(b) \in delivered
                                               /\ ChangesMembership(b)})
=============================================================================
