-------------------------- MODULE DelivererProofs ---------------------------
(***************************************************************************)
(* The safety of the Deliverer, for every pool of blocks and every sequence*)
(* of Deliver calls.                                                       *)
(***************************************************************************)
EXTENDS Deliverer, MembershipProofs

IInv == TypeOK /\ DelivererSound(State, 1) /\ ConfigsChained

-----------------------------------------------------------------------------
\* What Deliver installs continues the store.
LEMMA NextCommitteeType ==
  ASSUME TypeOK, NEW b \in Pool, Runs(State, b)
  PROVE  LET next == NextCommittee(State, b).committee
         IN  /\ next \in Committee
             /\ next.number = b.conf + 1
             /\ Consistent(next)
<1>1. b \in Block
  BY DelivererAssumption
<1>2. configs[b.conf + 1] \in Committee /\ configs[b.conf + 1].number = b.conf
  BY <1>1 DEF TypeOK, IsStore, Runs, State, Installed, Block
<1>3. QED
  BY <1>1, <1>2, MembershipRequestsType, ApplyType
     DEF NextCommittee, State, AtNumber, Consistent

\* The three outcomes of a Deliver call.
LEMMA DeliverCases ==
  ASSUME TypeOK, NEW b \in Pool, DeliverBlock(b)
  PROVE  \/ UNCHANGED vars
         \/ /\ Runs(State, b)
            /\ executed' = Append(executed, b)
            /\ \/ ChangesMembership(b) /\ UNCHANGED <<configs, delivered>>
               \/ /\ ~ChangesMembership(b) /\ UNCHANGED configs
                  /\ delivered' = delivered \cup {HashBlock(b)}
               \/ /\ ChangesMembership(b)
                  /\ NextCommittee(State, b).ok
                  /\ b.conf = Len(configs) - 1
                  /\ configs' = Append(configs, NextCommittee(State, b).committee)
                  /\ delivered' = delivered \cup {HashBlock(b)}
<1>1. CASE ~Runs(State, b)
  BY <1>1 DEF DeliverBlock, Deliver, Marks, Installs, State, vars
<1>2. CASE Installs(State, b)
  <2>1. /\ Runs(State, b) /\ ChangesMembership(b) /\ NextCommittee(State, b).ok
        /\ NextCommittee(State, b).committee.number = Len(configs)
    BY <1>2 DEF Installs, Installable, State
  <2>2. b.conf \in Nat
    BY DelivererAssumption DEF Block
  <2>3. b.conf = Len(configs) - 1
    BY <2>1, <2>2, NextCommitteeType DEF TypeOK, IsStore
  <2>4. QED
    BY <1>2, <2>1, <2>3 DEF DeliverBlock, Deliver, Marks, State
<1>3. CASE Runs(State, b) /\ ~Installs(State, b)
  BY <1>3 DEF DeliverBlock, Deliver, Marks, Installs, State
<1>4. QED
  BY <1>1, <1>2, <1>3 DEF Installs

-----------------------------------------------------------------------------
LEMMA InitIInv == Init => IInv
<1> SUFFICES ASSUME Init PROVE IInv
  OBVIOUS
<1>1. TypeOK
  BY DelivererAssumption DEF Init, TypeOK, IsStore, Consistent
<1>2. DelivererSound(State, 1) /\ ConfigsChained
  BY DEF Init, State, DelivererSound, MarksRuns, RerunsFailed, RanInstalled, ChainedFrom,
         ConfigsChained
<1>3. QED
  BY <1>1, <1>2 DEF IInv

LEMMA NextTypeOK ==
  ASSUME TypeOK, NEW b \in Pool, DeliverBlock(b)
  PROVE  TypeOK'
<1>1. executed' = executed \/ executed' = Append(executed, b)
  BY DeliverCases DEF vars
<1>2. executed' \in Seq(Pool)
  BY <1>1 DEF TypeOK
<1>3. delivered' \subseteq {HashBlock(c) : c \in Pool}
  BY DeliverCases DEF vars, TypeOK
<1>4. CASE configs' = configs
  BY <1>2, <1>3, <1>4 DEF TypeOK, IsStore, Consistent
<1>5. CASE configs' # configs
  <2> DEFINE next == NextCommittee(State, b).committee
  <2>1. /\ Runs(State, b) /\ b.conf = Len(configs) - 1
        /\ configs' = Append(configs, next)
    BY <1>5, DeliverCases DEF vars
  <2>2. next \in Committee /\ next.number = b.conf + 1 /\ Consistent(next)
    BY <2>1, NextCommitteeType
  <2> HIDE DEF next
  <2>3. configs' \in Seq(Committee) /\ configs' # << >>
    BY <2>1, <2>2 DEF TypeOK, IsStore
  <2>4. \A i \in DOMAIN configs' : configs'[i].number = i - 1 /\ Consistent(configs'[i])
    BY <2>1, <2>2 DEF TypeOK, IsStore
  <2>5. QED
    BY <1>2, <1>3, <2>3, <2>4 DEF TypeOK, IsStore, Consistent
<1>6. QED
  BY <1>4, <1>5

LEMMA NextSound ==
  ASSUME TypeOK, DelivererSound(State, 1), NEW b \in Pool, DeliverBlock(b)
  PROVE  DelivererSound(State, 1)'
<1>1. b \in Block /\ \A c \in Pool : HashBlock(c) \in Hash
  BY DelivererAssumption DEF Block, HashBlock, Hash
<1>2. State \in DelivererState /\ IsStore(State.configs)
  <2>1. executed \in Seq(Block)
    BY DelivererAssumption, SeqMonotonic DEF TypeOK
  <2>2. QED
    BY <1>1, <2>1 DEF State, DelivererState, TypeOK, IsStore
<1>3. DelivererSound(Deliver(State, b), 1)
  BY <1>1, <1>2, DeliverKeeps
<1>4. State' = Deliver(State, b)
  BY DEF DeliverBlock, State, Deliver
<1>5. QED
  BY <1>3, <1>4, Zenon

LEMMA NextConfigsChained ==
  ASSUME TypeOK, ConfigsChained, NEW b \in Pool, DeliverBlock(b)
  PROVE  ConfigsChained'
<1> DEFINE Made(c, d, e, i) ==
      LET next == Apply(c, MembershipRequests(e.batch))
      IN  e.conf = i - 2 /\ next.ok /\ d = next.committee
<1>1. CASE UNCHANGED vars
  BY <1>1 DEF ConfigsChained, vars
<1>2. CASE executed' = Append(executed, b)
  <2>1. ASSUME NEW i \in DOMAIN configs', i # 1
        PROVE  \E k \in DOMAIN executed' : Made(configs'[i - 1], configs'[i], executed'[k], i)
    <3>1. CASE i \in DOMAIN configs
      <4>1. PICK k \in DOMAIN executed : Made(configs[i - 1], configs[i], executed[k], i)
        BY <2>1, <3>1 DEF ConfigsChained
      <4>2. configs'[i] = configs[i] /\ configs'[i - 1] = configs[i - 1]
        <5> DEFINE next == NextCommittee(State, b).committee
        <5>1. configs' = configs \/ (Runs(State, b) /\ configs' = Append(configs, next))
          BY DeliverCases DEF vars
        <5>2. configs \in Seq(Committee) /\ i \in 2 .. Len(configs)
          BY <2>1, <3>1 DEF TypeOK, IsStore
        <5>3. Runs(State, b) => next \in Committee
          BY NextCommitteeType
        <5> HIDE DEF next
        <5>4. CASE configs' = configs
          BY <5>4
        <5>5. CASE next \in Committee /\ configs' = Append(configs, next)
          <6>1. \A j \in 1 .. Len(configs) : configs'[j] = configs[j]
            BY <5>2, <5>5, AppendProperties
          <6>2. i \in 1 .. Len(configs) /\ i - 1 \in 1 .. Len(configs)
            BY <5>2
          <6>3. QED
            BY <6>1, <6>2
        <5>6. QED
          BY <5>1, <5>3, <5>4, <5>5
      <4>3. k \in DOMAIN executed' /\ executed'[k] = executed[k]
        BY <1>2, <4>1 DEF TypeOK
      <4> HIDE DEF Made
      <4>4. QED
        BY <4>1, <4>2, <4>3
    <3>2. CASE i \notin DOMAIN configs
      <4>1. /\ Runs(State, b) /\ b.conf = Len(configs) - 1
            /\ NextCommittee(State, b).ok
            /\ configs' = Append(configs, NextCommittee(State, b).committee)
        BY <3>2, DeliverCases DEF vars
      <4>2. /\ i = Len(configs) + 1
            /\ configs'[i] = NextCommittee(State, b).committee
            /\ configs'[i - 1] = configs[Len(configs)]
        BY <2>1, <3>2, <4>1 DEF TypeOK, IsStore
      <4>3. NextCommittee(State, b) = Apply(configs[Len(configs)], MembershipRequests(b.batch))
        BY <4>1 DEF NextCommittee, AtNumber, State, TypeOK, IsStore
      <4>4. Made(configs'[i - 1], configs'[i], b, i)
        BY <4>1, <4>2, <4>3 DEF TypeOK, IsStore
      <4>5. Len(executed) + 1 \in DOMAIN executed' /\ executed'[Len(executed) + 1] = b
        BY <1>2 DEF TypeOK
      <4> HIDE DEF Made
      <4>6. QED
        BY <4>4, <4>5
    <3>3. QED
      BY <3>1, <3>2
  <2>2. QED
    BY <2>1 DEF ConfigsChained
<1>3. QED
  BY <1>1, <1>2, DeliverCases

LEMMA NextIInv == IInv /\ [Next]_vars => IInv'
<1> SUFFICES ASSUME IInv, [Next]_vars PROVE IInv'
  OBVIOUS
<1>1. CASE UNCHANGED vars
  <2>1. TypeOK' /\ ConfigsChained'
    BY <1>1 DEF IInv, TypeOK, IsStore, Consistent, ConfigsChained, vars
  <2>2. State' = State
    BY <1>1 DEF State, vars
  <2>3. DelivererSound(State, 1)'
    BY <2>2, Zenon DEF IInv
  <2>4. QED
    BY <2>1, <2>3 DEF IInv
<1>2. ASSUME NEW b \in Pool, DeliverBlock(b) PROVE IInv'
  BY <1>2, NextTypeOK, NextSound, NextConfigsChained DEF IInv
<1>3. QED
  BY <1>1, <1>2 DEF Next

LEMMA SpecIInv == Spec => []IInv
BY InitIInv, NextIInv, PTL DEF Spec

-----------------------------------------------------------------------------
(***************************************************************************)
(* The store holds committees numbered by their place, each with the fault *)
(* cap of its size, whatever Deliver is called with.                       *)
(***************************************************************************)
THEOREM DelivererTypeOK == Spec => []TypeOK
BY SpecIInv, PTL DEF IInv

(***************************************************************************)
(* No configuration is skipped, applied to a stale base or installed for a *)
(* block of another configuration (deliver.go:58,73-77).                   *)
(***************************************************************************)
THEOREM DelivererConfigsChained == Spec => []ConfigsChained
BY SpecIInv, PTL DEF IInv

(***************************************************************************)
(* However the two commit paths interleave, a block that ran a second time *)
(* has a membership change that failed, and failed for good: no later call *)
(* installs it (deliver.go:24, 54-56, 69-83).                              *)
(***************************************************************************)
THEOREM DelivererReruns == Spec => []RerunOnlyIfFailed
<1>1. IInv => RerunOnlyIfFailed
  BY DEF IInv, DelivererSound, RerunsFailed, State, RerunOnlyIfFailed
<1>2. QED
  BY <1>1, SpecIInv, PTL

(***************************************************************************)
(* Quorums of every committee that a chain of membership changes can       *)
(* install overlap in an honest replica (committee.go:79-96, 147-203).     *)
(***************************************************************************)
THEOREM DelivererQuorumsOverlap == Spec => []QuorumsOverlap
<1>1. TypeOK => QuorumsOverlap
  BY QuorumIntersection DEF TypeOK, IsStore, QuorumsOverlap
<1>2. QED
  BY <1>1, DelivererTypeOK, PTL

(***************************************************************************)
(* When no two blocks of the pool share a hash, a delivered membership     *)
(* block installed exactly one configuration, and every configuration      *)
(* after the first was installed by one (deliver.go:73-83).                *)
(***************************************************************************)
THEOREM DelivererInstalledOncePerBlock ==
  ASSUME IsFiniteSet(Pool),
         \A b, c \in Pool : HashBlock(b) = HashBlock(c) => b = c
  PROVE  Spec => []InstalledOncePerBlock
<1> DEFINE Done(d) == {b \in Pool : HashBlock(b) \in d /\ ChangesMembership(b)}
<1>1. ASSUME NEW d PROVE IsFiniteSet(Done(d)) /\ Cardinality(Done(d)) \in Nat
  <2>1. Done(d) \in SUBSET Pool
    OBVIOUS
  <2>2. QED
    BY <2>1, FS_Subset, FS_CardinalityType
<1>2. Init => InstalledOncePerBlock
  <2> SUFFICES ASSUME Init PROVE InstalledOncePerBlock
    OBVIOUS
  <2>1. Done(delivered) = {} /\ Len(configs) = 1
    BY DEF Init
  <2>2. QED
    BY <2>1, FS_EmptySet DEF InstalledOncePerBlock
<1>3. IInv /\ InstalledOncePerBlock /\ [Next]_vars => InstalledOncePerBlock'
  <2> SUFFICES ASSUME IInv, InstalledOncePerBlock, [Next]_vars
               PROVE  InstalledOncePerBlock'
    OBVIOUS
  <2>1. CASE UNCHANGED vars
    BY <2>1 DEF InstalledOncePerBlock, vars
  <2>2. ASSUME NEW b \in Pool, DeliverBlock(b) PROVE InstalledOncePerBlock'
    <3>1. CASE UNCHANGED <<configs, delivered>>
      BY <3>1 DEF InstalledOncePerBlock
    <3>2. CASE /\ ~ChangesMembership(b) /\ UNCHANGED configs
               /\ delivered' = delivered \cup {HashBlock(b)}
      <4>1. Done(delivered') = Done(delivered)
        BY <3>2
      <4>2. QED
        BY <3>2, <4>1 DEF InstalledOncePerBlock
    <3>3. CASE /\ Runs(State, b) /\ ChangesMembership(b)
               /\ configs' = Append(configs, NextCommittee(State, b).committee)
               /\ delivered' = delivered \cup {HashBlock(b)}
      <4>1. HashBlock(b) \notin delivered
        BY <3>3 DEF Runs, State
      <4>2. Done(delivered') = Done(delivered) \cup {b} /\ b \notin Done(delivered)
        BY <3>3, <4>1
      <4>3. Cardinality(Done(delivered')) = Cardinality(Done(delivered)) + 1
        BY <1>1, <4>2, FS_AddElement
      <4>4. Len(configs') = Len(configs) + 1 /\ Len(configs) \in Nat
        <5> DEFINE next == NextCommittee(State, b).committee
        <5> HIDE DEF next
        <5>1. configs' = Append(configs, next)
          BY <3>3 DEF next
        <5>2. QED
          BY <5>1 DEF IInv, TypeOK, IsStore
      <4>5. Len(configs) = 1 + Cardinality(Done(delivered))
        BY DEF InstalledOncePerBlock
      <4>6. Cardinality(Done(delivered)) \in Nat
        BY <1>1
      <4>7. Len(configs') = 1 + Cardinality(Done(delivered'))
        <5> HIDE DEF Done
        <5>1. QED
          BY <4>3, <4>4, <4>5, <4>6
      <4>8. QED
        BY <4>7 DEF InstalledOncePerBlock
    <3>4. QED
      BY <2>2, <3>1, <3>2, <3>3, DeliverCases DEF IInv, vars
  <2>3. QED
    BY <2>1, <2>2 DEF Next
<1>4. QED
  BY <1>2, <1>3, SpecIInv, PTL DEF Spec
=============================================================================
