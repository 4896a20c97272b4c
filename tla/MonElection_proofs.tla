------------------------- MODULE MonElection_proofs -------------------------
(* Proofs about the abstract election, for every number of monitors.       *)
EXTENDS MonElection, FiniteSetTheorems, TLAPS

LEMMA MonFinite == IsFiniteSet(Mon) /\ Cardinality(Mon) = N
<1>1. N \in Nat /\ N > 0
  BY NAssumption
<1>2. IsFiniteSet(0 .. N - 1) /\ Cardinality(0 .. N - 1) = N
  BY <1>1, FS_Interval
<1> QED
  BY <1>2 DEF Mon

(* Two majorities of the monmap share a monitor.                           *)
LEMMA MajoritiesIntersect ==
  ASSUME NEW q \in SUBSET Mon, NEW r \in SUBSET Mon, IsMajority(q), IsMajority(r)
  PROVE  \E p \in q : p \in r
<1>1. IsFiniteSet(q) /\ IsFiniteSet(r) /\ Cardinality(q) \in Nat /\ Cardinality(r) \in Nat
  BY MonFinite, FS_Subset, FS_CardinalityType
<1>2. Cardinality(q \union r) <= N /\ Cardinality(q \union r) \in Nat
  <2>1. q \union r \subseteq Mon
    OBVIOUS
  <2> QED
    BY <2>1, MonFinite, FS_Subset, FS_CardinalityType
<1>3. Cardinality(q \union r) = Cardinality(q) + Cardinality(r) - Cardinality(q \cap r)
  BY <1>1, FS_Union
<1>4. SUFFICES ASSUME q \cap r = {} PROVE FALSE
  OBVIOUS
<1>5. Cardinality(q \cap r) = 0
  BY <1>4, FS_EmptySet
<1> QED
  BY <1>1, <1>2, <1>3, <1>5, NAssumption DEF IsMajority

----------------------------------------------------------------------------
(* The election keeps its variables within their types (the epochs a       *)
(* monitor stores, its role, the victories and allegiances so far).        *)
THEOREM ElectionTypeCorrect == ElectionSpec => []ElectionTypeOK
<1>1. ElectionInit => ElectionTypeOK
  BY MaxEpochAssumption DEF ElectionInit, ElectionTypeOK
<1>2. ElectionTypeOK /\ [ElectionNext]_electionVars => ElectionTypeOK'
  <2> SUFFICES ASSUME ElectionTypeOK, [ElectionNext]_electionVars
               PROVE  ElectionTypeOK'
    OBVIOUS
  <2> USE DEF ElectionTypeOK
  <2>1. CASE UNCHANGED electionVars
    BY <2>1 DEF electionVars
  <2>2. ASSUME NEW m \in Mon, NEW e \in 1 .. MaxEpoch, Leave(m, e)
        PROVE  ElectionTypeOK'
    BY <2>2, MaxEpochAssumption DEF Leave
  <2>3. ASSUME NEW m \in Mon, NEW q \in SUBSET Mon, Win(m, q)
        PROVE  ElectionTypeOK'
    BY <2>3 DEF Win, Claim, Allegiance
  <2>4. ASSUME NEW m \in Mon, NEW c \in claims, Follow(m, c)
        PROVE  ElectionTypeOK'
    <3>1. c.epoch \in Nat /\ c.leader \in Mon
      BY DEF Claim
    <3> QED
      BY <2>4, <3>1 DEF Follow, Allegiance
  <2> QED
    BY <2>1, <2>2, <2>3, <2>4 DEF ElectionNext
<1> QED
  BY <1>1, <1>2, PTL DEF ElectionSpec

----------------------------------------------------------------------------
(* The inductive invariant: no allegiance is of an epoch its monitor has   *)
(* not reached yet, so the epoch that a victory opens is new to it.        *)
FollowsReached == \A f \in follows : f.epoch <= epoch[f.mon]

ClaimsMajority == \A c \in claims : IsMajority(c.quorum)

ElectionInv == ElectionTypeOK /\ FollowsReached /\ OneAllegiance /\ ClaimsMajority

(* The allegiance of m to a leader in the next epoch keeps the invariant.  *)
LEMMA NewAllegiance ==
  ASSUME ElectionTypeOK, FollowsReached, OneAllegiance,
         NEW m \in Mon, NEW l \in Mon,
         epoch' = [epoch EXCEPT ![m] = epoch[m] + 1],
         follows' = follows \union {[mon |-> m, epoch |-> epoch[m] + 1, leader |-> l]}
  PROVE  FollowsReached' /\ OneAllegiance'
<1> DEFINE new == [mon |-> m, epoch |-> epoch[m] + 1, leader |-> l]
<1>1. epoch[m] \in Nat /\ epoch'[m] = epoch[m] + 1
      /\ \A p \in Mon : epoch[p] \in Nat /\ epoch[p] <= epoch'[p]
  BY DEF ElectionTypeOK
<1>2. \A f \in follows : f.mon \in Mon /\ f.epoch \in Nat
  BY DEF ElectionTypeOK, Allegiance
<1>3. FollowsReached'
  <2>1. \A f \in follows : f.epoch <= epoch'[f.mon]
    BY <1>1, <1>2 DEF FollowsReached
  <2>2. new.epoch <= epoch'[new.mon]
    BY <1>1
  <2> QED
    BY <2>1, <2>2 DEF FollowsReached
<1>4. \A f \in follows : f.mon = m => f.epoch # epoch[m] + 1
  BY <1>1, <1>2 DEF FollowsReached
<1>5. OneAllegiance'
  BY <1>4 DEF OneAllegiance
<1> QED
  BY <1>3, <1>5

LEMMA ElectionInvInductive ==
  ElectionInv /\ ElectionTypeOK' /\ [ElectionNext]_electionVars => ElectionInv'
<1> SUFFICES ASSUME ElectionInv, ElectionTypeOK', [ElectionNext]_electionVars
             PROVE  ElectionInv'
  OBVIOUS
<1> USE DEF ElectionInv
<1>1. CASE UNCHANGED electionVars
  BY <1>1 DEF electionVars, FollowsReached, OneAllegiance, ClaimsMajority
<1>2. ASSUME NEW m \in Mon, NEW e \in 1 .. MaxEpoch, Leave(m, e)
      PROVE  ElectionInv'
  <2>1. FollowsReached'
    <3>1. \A p \in Mon : epoch[p] \in Nat /\ epoch[p] <= epoch'[p] /\ epoch'[p] \in Nat
      BY <1>2, MaxEpochAssumption DEF Leave, ElectionTypeOK
    <3>2. \A f \in follows : f.mon \in Mon /\ f.epoch \in Nat
      BY DEF ElectionTypeOK, Allegiance
    <3> QED
      BY <1>2, <3>1, <3>2 DEF Leave, FollowsReached
  <2>2. OneAllegiance' /\ ClaimsMajority'
    BY <1>2 DEF Leave, OneAllegiance, ClaimsMajority
  <2> QED
    BY <2>1, <2>2
<1>3. ASSUME NEW m \in Mon, NEW q \in SUBSET Mon, Win(m, q)
      PROVE  ElectionInv'
  <2>1. FollowsReached' /\ OneAllegiance'
    BY <1>3, NewAllegiance DEF Win
  <2>2. ClaimsMajority'
    BY <1>3 DEF Win, ClaimsMajority
  <2> QED
    BY <2>1, <2>2
<1>4. ASSUME NEW m \in Mon, NEW c \in claims, Follow(m, c)
      PROVE  ElectionInv'
  <2>1. c.leader \in Mon
    BY DEF ElectionTypeOK, Claim
  <2>2. FollowsReached' /\ OneAllegiance'
    BY <1>4, <2>1, NewAllegiance DEF Follow
  <2>3. ClaimsMajority'
    BY <1>4 DEF Follow, ClaimsMajority
  <2> QED
    BY <2>2, <2>3
<1> QED
  BY <1>1, <1>2, <1>3, <1>4 DEF ElectionNext

LEMMA ElectionInvariant == ElectionSpec => []ElectionInv
<1>1. ElectionInit => FollowsReached /\ OneAllegiance /\ ClaimsMajority
  BY DEF ElectionInit, FollowsReached, OneAllegiance, ClaimsMajority
<1> QED
  BY <1>1, ElectionTypeCorrect, ElectionInvInductive, PTL DEF ElectionSpec, ElectionInv

(* A monitor follows at most one leader in an epoch, whatever number of    *)
(* monitors there are and however many victories are declared.             *)
THEOREM OneAllegianceAlways == ElectionSpec => []OneAllegiance
BY ElectionInvariant, PTL DEF ElectionInv

(* Of the victories of one epoch at most one is followed by its quorum.    *)
THEOREM UniqueEffectiveLeaderAlways == ElectionSpec => []UniqueEffectiveLeader
<1>1. ElectionInv => UniqueEffectiveLeader
  <2> SUFFICES ASSUME ElectionInv, NEW c \in claims, NEW d \in claims,
                      c.epoch = d.epoch, Effective(c), Effective(d)
               PROVE  c.leader = d.leader
    BY DEF UniqueEffectiveLeader
  <2>1. c.quorum \in SUBSET Mon /\ d.quorum \in SUBSET Mon
        /\ IsMajority(c.quorum) /\ IsMajority(d.quorum)
    BY DEF ElectionInv, ElectionTypeOK, Claim, ClaimsMajority
  <2>2. PICK p \in c.quorum : p \in d.quorum
    BY <2>1, MajoritiesIntersect
  <2> DEFINE f == [mon |-> p, epoch |-> c.epoch, leader |-> c.leader]
             g == [mon |-> p, epoch |-> d.epoch, leader |-> d.leader]
  <2>3. f \in follows /\ g \in follows
    BY <2>2 DEF Effective
  <2>4. f.mon = g.mon /\ f.epoch = g.epoch
    OBVIOUS
  <2>5. f.leader = g.leader
    BY <2>3, <2>4 DEF ElectionInv, OneAllegiance
  <2> QED
    BY <2>5
<1> QED
  BY <1>1, ElectionInvariant, PTL

(* Once a newer victory is followed by its quorum, every older quorum has  *)
(* lost a member for good.                                                 *)
THEOREM OldQuorumBrokenAlways == ElectionSpec => []OldQuorumBroken
<1>1. ElectionInv => OldQuorumBroken
  <2> SUFFICES ASSUME ElectionInv, NEW c \in claims, NEW d \in claims,
                      c.epoch < d.epoch, Effective(d)
               PROVE  \E p \in c.quorum : epoch[p] > c.epoch
    BY DEF OldQuorumBroken
  <2>1. c.quorum \in SUBSET Mon /\ d.quorum \in SUBSET Mon
        /\ IsMajority(c.quorum) /\ IsMajority(d.quorum)
        /\ c.epoch \in Nat /\ d.epoch \in Nat
    BY DEF ElectionInv, ElectionTypeOK, Claim, ClaimsMajority
  <2>2. PICK p \in c.quorum : p \in d.quorum
    BY <2>1, MajoritiesIntersect
  <2> DEFINE g == [mon |-> p, epoch |-> d.epoch, leader |-> d.leader]
  <2>3. g \in follows
    BY <2>2 DEF Effective
  <2>4. g.epoch <= epoch[g.mon]
    BY <2>3 DEF ElectionInv, FollowsReached
  <2>5. d.epoch <= epoch[p] /\ epoch[p] \in Nat
    BY <2>1, <2>4 DEF ElectionInv, ElectionTypeOK
  <2> QED
    BY <2>1, <2>5
<1> QED
  BY <1>1, ElectionInvariant, PTL
============================================================================
