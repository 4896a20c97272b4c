-------------------------- MODULE Elector_proofs --------------------------
(* Proofs about the election as the code runs it, for every number of      *)
(* monitors, every choice of features and every bound.                     *)
EXTENDS Elector, FiniteSetTheorems, SequenceTheorems, TLAPS

----------------------------------------------------------------------------
(* The inductive invariant.                                                *)

(* The epoch that s has reached: Abstract's epoch.                         *)
Reached(s) == IF s.stored = 0 THEN 1 ELSE s.stored

Dispatching == {"electing", "leader", "peon"}

(* The logic is initialised, at the epoch of the store, unless the process *)
(* has just booted.                                                        *)
EpochStored(s) ==
    \/ s.epoch = Reached(s)
    \/ /\ s.epoch = 0 /\ s.state \in {"down", "probing"}
       /\ s.participating /\ ~s.electing_me /\ s.expire_event = 0

(* A deferral, like an election, has its timer armed.                      *)
Timed(s) ==
    s.state \in Dispatching /\ s.participating /\ (s.state = "electing" \/ s.leader_acked >= 0)
        => s.expire_event > 0

Local(m, s) ==
    /\ s \in MonRecord
    /\ EpochStored(s)
    /\ Timed(s)
    /\ s.state \in {"leader", "peon"} => s.stored # 0
    /\ s.leader_acked < m
    /\ s.electing_me => s.epoch % 2 = 1 /\ m \in s.acked_me

(* Whoever acked m is of a later rank and has reached the epoch of m.      *)
AckedReached(m, s) ==
    s.electing_me => \A p \in s.acked_me \ {m} : p > m /\ Reached(mon[p]) >= s.epoch

(* Who proposed in an epoch is a candidate or has deferred in it.          *)
Stands(s) == s.electing_me \/ s.leader_acked >= 0

ProposalOK(i, msg) ==
    /\ msg.epoch % 2 = 1 /\ msg.epoch <= Reached(mon[i])
    /\ msg.epoch = mon[i].epoch => Stands(mon[i])

(* An ack answers a proposal, so neither end is behind its epoch.          *)
AckOK(i, j, msg) ==
    /\ i > j /\ msg.epoch % 2 = 1
    /\ msg.epoch <= Reached(mon[i]) /\ msg.epoch <= Reached(mon[j])
    /\ msg.epoch = mon[j].epoch => Stands(mon[j])

VictoryOK(i, j, msg) ==
    /\ i < j /\ j \in msg.quorum /\ msg.epoch % 2 = 0
    /\ [epoch |-> msg.epoch, leader |-> i, quorum |-> msg.quorum] \in claims

MessageOK(i, j, msg) ==
    /\ msg.op = "propose" => ProposalOK(i, msg)
    /\ msg.op = "ack" => AckOK(i, j, msg)
    /\ msg.op = "victory" => VictoryOK(i, j, msg)

(* What is in flight from i to j in the network n.                         *)
Network == [Mon -> [Mon -> Seq(Message)]]

Flight(n, i, j) == {n[i][j][k] : k \in 1 .. Len(n[i][j])}

HistoryOK ==
    /\ claims \subseteq [epoch : Nat, leader : Mon, quorum : SUBSET Mon]
    /\ follows \subseteq [mon : Mon, epoch : Nat, leader : Mon]
    /\ \A c \in claims : c.epoch <= MaxEpoch

BudgetOK == budget \in [{"crash", "bootstrap", "exit", "all"} -> Nat]

Inv ==
    /\ mon \in [Mon -> MonRecord]
    /\ \A m \in Mon : /\ Local(m, mon[m]) /\ AckedReached(m, mon[m])
                      /\ Reached(mon[m]) <= MaxEpoch
    /\ net \in Network
    /\ \A i, j \in Mon : \A msg \in Flight(net, i, j) : MessageOK(i, j, msg)
    /\ HistoryOK
    /\ BudgetOK

----------------------------------------------------------------------------
(* The functions of ElectionLogic on one record.                           *)

LEMMA RecordFields ==
  ASSUME NEW s \in MonRecord
  PROVE  /\ s.epoch \in Nat /\ s.stored \in Nat
         /\ s.leader_acked \in Int /\ s.leader_acked \in Mon \union {None}
         /\ s.participating \in BOOLEAN /\ s.electing_me \in BOOLEAN
         /\ s.acked_me \in SUBSET Mon /\ s.expire_event \in 0 .. ElectionTimeout + 1
         /\ s.expire_event \in Nat
         /\ s.state \in State /\ s.leader \in Mon \union {None}
         /\ s.quorum \in SUBSET Mon /\ s.has_ever_joined \in BOOLEAN
         /\ Reached(s) \in Nat /\ Reached(s) >= 1
<1>1. /\ s.epoch \in Nat /\ s.stored \in Nat
      /\ s.leader_acked \in Mon \union {None}
      /\ s.participating \in BOOLEAN /\ s.electing_me \in BOOLEAN
      /\ s.acked_me \in SUBSET Mon /\ s.expire_event \in 0 .. ElectionTimeout + 1
      /\ s.state \in State /\ s.leader \in Mon \union {None}
      /\ s.quorum \in SUBSET Mon /\ s.has_ever_joined \in BOOLEAN
  BY DEF MonRecord
<1>2. Mon \subseteq Nat /\ None \in Int
  BY NAssumption DEF Mon, None
<1>3. s.leader_acked \in Int
  <2>1. s.leader_acked \in Mon \/ s.leader_acked = None
    BY <1>1
  <2>2. \A x \in Mon : x \in Int
    BY NAssumption DEF Mon
  <2> QED
    BY <1>2, <2>1, <2>2
<1>4. s.expire_event \in Nat
  BY <1>1, BoundsAssumption
<1>5. Reached(s) \in Nat /\ Reached(s) >= 1
  BY <1>1 DEF Reached
<1> QED
  BY <1>1, <1>3, <1>4, <1>5

LEMMA BumpFields ==
  ASSUME NEW s \in MonRecord, NEW e \in Nat
  PROVE  LET t == bump_epoch(s, e) IN
         /\ t \in MonRecord
         /\ t.epoch = e /\ t.stored = e /\ t.state = "electing"
         /\ t.electing_me = FALSE /\ t.acked_me = {} /\ t.quorum = {}
         /\ t.leader_acked = s.leader_acked /\ t.participating = s.participating
         /\ t.expire_event = s.expire_event /\ t.leader = s.leader
         /\ t.has_ever_joined = s.has_ever_joined
<1> DEFINE t == bump_epoch(s, e)
<1>1. t = [s EXCEPT !.epoch = e, !.stored = e, !.electing_me = FALSE, !.acked_me = {},
                    !.quorum = {}, !.state = "electing"]
  BY DEF bump_epoch, join_election, MonRecord
<1>2. "electing" \in State
  BY DEF State
<1> HIDE DEF t
<1> QED
  BY <1>1, <1>2 DEF MonRecord, t

(* start() puts m into an odd epoch that it has not left, as a candidate   *)
(* of its own with the timer armed.                                        *)
LEMMA StartCampaigns ==
  ASSUME NEW m \in Mon, NEW s \in MonRecord, s.participating,
         s.state \in {"leader", "peon"} => s.stored # 0
  PROVE  LET t == start(m, s) IN
         /\ Local(m, t)
         /\ Reached(s) <= Reached(t)
         /\ t.electing_me /\ t.acked_me = {m} /\ t.participating
         /\ t.epoch = Reached(t) /\ (t.epoch = 1 \/ t.epoch > Reached(s))
         /\ t.state \notin {"leader", "peon"}
<1> DEFINE i == init(s)
           b == IF i.epoch % 2 = 0 THEN bump_epoch(i, i.epoch + 1) ELSE i
           t == start(m, s)
<1>1. /\ t = [b EXCEPT !.electing_me = TRUE, !.acked_me = {m},
                        !.leader_acked = None, !.expire_event = ElectionTimeout]
  BY DEF start
<1>2. /\ i \in MonRecord
      /\ i.participating /\ i.state = s.state
      /\ i.epoch = IF s.stored = 0 THEN 1
                   ELSE IF s.stored % 2 = 1 THEN s.stored + 1 ELSE s.stored
      /\ i.stored = IF s.stored = 0 THEN 0 ELSE i.epoch
  <2>1. i = IF s.stored = 0 THEN [s EXCEPT !.epoch = 1]
            ELSE IF s.stored % 2 = 1
            THEN [s EXCEPT !.epoch = s.stored + 1, !.stored = s.stored + 1]
            ELSE [s EXCEPT !.epoch = s.stored]
    BY DEF init
  <2>2. s.stored \in Nat /\ s.stored + 1 \in Nat /\ 1 \in Nat
    BY RecordFields
  <2> HIDE DEF i
  <2>3. CASE s.stored = 0
    BY <2>1, <2>2, <2>3 DEF MonRecord
  <2>4. CASE s.stored # 0 /\ s.stored % 2 = 1
    BY <2>1, <2>2, <2>4 DEF MonRecord
  <2>5. CASE s.stored # 0 /\ s.stored % 2 # 1
    BY <2>1, <2>2, <2>5 DEF MonRecord
  <2> QED
    BY <2>3, <2>4, <2>5
<1> HIDE DEF i
<1>3. i.epoch \in Nat /\ s.stored \in Nat /\ i.epoch % 2 = IF s.stored = 0 THEN 1 ELSE 0
  BY <1>2, RecordFields
<1>4. /\ b \in MonRecord
      /\ b.participating
      /\ b.epoch = IF s.stored = 0 THEN 1 ELSE i.epoch + 1
      /\ b.stored = IF s.stored = 0 THEN 0 ELSE i.epoch + 1
      /\ b.state = IF s.stored = 0 THEN s.state ELSE "electing"
  <2>1. CASE s.stored = 0
    BY <1>2, <1>3, <2>1
  <2>2. CASE s.stored # 0
    <3>1. b = bump_epoch(i, i.epoch + 1)
      BY <1>3, <2>2
    <3>2. /\ b \in MonRecord /\ b.participating = i.participating
          /\ b.epoch = i.epoch + 1 /\ b.stored = i.epoch + 1 /\ b.state = "electing"
      <4> HIDE DEF b
      <4>1. i.epoch + 1 \in Nat
        BY <1>3
      <4> QED
        BY <1>2, <3>1, <4>1, BumpFields
    <3> HIDE DEF b
    <3> QED
      BY <1>2, <2>2, <3>2
  <2> QED
    BY <2>1, <2>2
<1> HIDE DEF b, t
<1>5. /\ t \in MonRecord
      /\ t.participating /\ t.electing_me /\ t.acked_me = {m}
      /\ t.leader_acked = None /\ t.expire_event = ElectionTimeout
      /\ t.epoch = b.epoch /\ t.stored = b.stored /\ t.state = b.state
  <2>1. ElectionTimeout \in 0 .. ElectionTimeout + 1
    BY BoundsAssumption
  <2> QED
    BY <1>1, <1>4, <2>1 DEF MonRecord
<1>6. t.epoch = Reached(t) /\ t.epoch % 2 = 1 /\ Reached(s) <= Reached(t)
      /\ (t.epoch = 1 \/ t.epoch > Reached(s))
  BY <1>2, <1>3, <1>4, <1>5 DEF Reached
<1>7. t.state \notin {"leader", "peon"}
  BY <1>4, <1>5
<1>8. t.leader_acked < m /\ t.expire_event > 0
  BY <1>5, NAssumption, BoundsAssumption DEF None, Mon
<1> QED
  BY <1>5, <1>6, <1>7, <1>8 DEF Local, EpochStored, Timed, t

LEMMA JoinFields ==
  ASSUME NEW s \in MonRecord
  PROVE  LET t == join_election(s) IN
         /\ t \in MonRecord
         /\ t.epoch = s.epoch /\ t.stored = s.stored /\ t.state = "electing"
         /\ t.electing_me = s.electing_me /\ t.acked_me = s.acked_me
         /\ t.leader_acked = s.leader_acked /\ t.participating = s.participating
         /\ t.expire_event = s.expire_event
<1>1. "electing" \in State
  BY DEF State
<1> QED
  BY <1>1 DEF join_election, MonRecord

LEMMA DeferFields ==
  ASSUME NEW s \in MonRecord, NEW who \in Mon
  PROVE  LET t == defer(s, who) IN
         /\ t \in MonRecord
         /\ t.epoch = s.epoch /\ t.stored = s.stored /\ t.state = s.state
         /\ t.electing_me = FALSE /\ t.leader_acked = who
         /\ t.participating = s.participating
         /\ t.expire_event = ElectionTimeout + 1
<1>1. ElectionTimeout + 1 \in 0 .. ElectionTimeout + 1
  BY BoundsAssumption
<1>2. (IF s.electing_me THEN {} ELSE s.acked_me) \in SUBSET Mon
  BY RecordFields
<1> QED
  BY <1>1, <1>2 DEF defer, MonRecord

----------------------------------------------------------------------------
(* What a step may make of the record of m.                                *)

(* Who takes part in an epoch has been doing so all the time since it has  *)
(* entered it, but for epoch 1, which is not stored.                       *)
Reenters(m, s) ==
    s.state \in Dispatching /\ s.participating =>
        \/ dispatches(m) /\ s.epoch = mon[m].epoch
        \/ s.epoch > Reached(mon[m])
        \/ s.epoch = 1

Reenter == \A m \in Mon : Reenters(m, mon'[m])

Advances(m, s) ==
    /\ Local(m, s) /\ AckedReached(m, s)
    /\ Reached(mon[m]) <= Reached(s)
    /\ Reached(s) = s.epoch \/ Reached(s) = Reached(mon[m])
    /\ \/ Stands(s)
       \/ s.epoch % 2 = 0
       \/ s.epoch > Reached(mon[m])
       \/ s.epoch = mon[m].epoch /\ ~Stands(mon[m])
    /\ Reenters(m, s)

(* It is out of any quorum, or where it was.                               *)
RoleKept(m, s) ==
    \/ s.state \notin {"leader", "peon"}
    \/ Reached(s) = Reached(mon[m]) /\ s.state = mon[m].state

Moves(m, s) == Advances(m, s) /\ RoleKept(m, s)

LEMMA MovesSame ==
  ASSUME Inv, NEW m \in Mon
  PROVE  Moves(m, mon[m])
<1>1. mon[m] \in MonRecord /\ Local(m, mon[m]) /\ AckedReached(m, mon[m])
  BY DEF Inv
<1>2. Reached(mon[m]) \in Nat
  BY <1>1, RecordFields
<1> QED
  BY <1>1, <1>2 DEF Moves, Advances, RoleKept, Reenters, dispatches, Dispatching

LEMMA MovesStart ==
  ASSUME Inv, NEW m \in Mon, NEW s \in MonRecord, s.participating,
         s.state \in {"leader", "peon"} => s.stored # 0,
         Reached(mon[m]) <= Reached(s)
  PROVE  LET t == start(m, s) IN
         Moves(m, t) /\ t.participating /\ t.electing_me /\ t.epoch = Reached(t)
<1> DEFINE t == start(m, s)
<1>1. /\ Local(m, t)
      /\ Reached(s) <= Reached(t)
      /\ t.electing_me /\ t.acked_me = {m} /\ t.participating
      /\ t.epoch = Reached(t) /\ (t.epoch = 1 \/ t.epoch > Reached(s))
      /\ t.state \notin {"leader", "peon"}
  BY StartCampaigns
<1> HIDE DEF t
<1>2. AckedReached(m, t)
  BY <1>1 DEF AckedReached
<1>3. Reached(mon[m]) <= Reached(t) /\ (t.epoch = 1 \/ t.epoch > Reached(mon[m]))
  <2>1. Reached(mon[m]) \in Nat /\ Reached(s) \in Nat /\ Reached(t) \in Nat
    BY <1>1, RecordFields DEF Inv, Local
  <2> QED
    BY <1>1, <2>1
<1> QED
  BY <1>1, <1>2, <1>3 DEF Moves, Advances, RoleKept, Stands, Reenters, t

LEMMA MovesStartElection ==
  ASSUME Inv, NEW m \in Mon, NEW s \in MonRecord, s.participating,
         Reached(mon[m]) <= Reached(s)
  PROVE  LET t == start_election(m, s) IN
         Moves(m, t) /\ t.participating /\ t.electing_me /\ t.epoch = Reached(t)
<1> DEFINE j == join_election(s)
<1>1. j \in MonRecord /\ j.participating /\ j.state = "electing" /\ j.stored = s.stored
  BY JoinFields
<1>2. Reached(mon[m]) <= Reached(j)
  BY <1>1 DEF Reached
<1> HIDE DEF j
<1>3. Moves(m, start(m, j)) /\ start(m, j).participating /\ start(m, j).electing_me
      /\ start(m, j).epoch = Reached(start(m, j))
  BY <1>1, <1>2, MovesStart
<1> QED
  BY <1>3 DEF start_election, j

(* Who does not participate only goes to STATE_ELECTING.                   *)
LEMMA MovesJoin ==
  ASSUME Inv, NEW m \in Mon, ~mon[m].participating
  PROVE  LET t == start_election(m, mon[m]) IN Moves(m, t) /\ ~t.participating
<1> DEFINE s == mon[m]
           t == join_election(s)
<1>1. s \in MonRecord /\ Local(m, s) /\ AckedReached(m, s)
  BY DEF Inv
<1>2. /\ t \in MonRecord
      /\ t.epoch = s.epoch /\ t.stored = s.stored /\ t.state = "electing"
      /\ t.electing_me = s.electing_me /\ t.acked_me = s.acked_me
      /\ t.leader_acked = s.leader_acked /\ t.participating = s.participating
  BY <1>1, JoinFields
<1> HIDE DEF t
<1>3. s.epoch = Reached(s) /\ Reached(t) = Reached(s) /\ Reached(s) \in Nat
  BY <1>1, <1>2, RecordFields DEF Local, EpochStored, Reached
<1>4. Local(m, t)
  BY <1>1, <1>2, <1>3 DEF Local, EpochStored, Timed
<1>5. AckedReached(m, t)
  BY <1>1, <1>2 DEF AckedReached
<1>6. Moves(m, t)
  BY <1>2, <1>3, <1>4, <1>5 DEF Moves, Advances, RoleKept, Stands, Reenters
<1>7. start_election(m, s) = t
  BY <1>2 DEF start_election, start, t
<1> QED
  BY <1>2, <1>6, <1>7

(* receive_propose takes over the epoch of the proposal, if it is later.   *)
LEMMA Bumped ==
  ASSUME Inv, NEW m \in Mon, dispatches(m), NEW e \in Nat, e >= mon[m].epoch
  PROVE  LET b == IF e > mon[m].epoch THEN bump_epoch(mon[m], e) ELSE mon[m] IN
         /\ b \in MonRecord /\ b.participating /\ b.epoch = e /\ b.epoch = Reached(b)
         /\ Reached(mon[m]) <= Reached(b)
         /\ b.state \in {"leader", "peon"} => b.stored # 0
         /\ RoleKept(m, b) /\ Reenters(m, b)
         /\ Stands(b) => Moves(m, b)
<1> DEFINE s == mon[m]
           b == IF e > s.epoch THEN bump_epoch(s, e) ELSE s
<1>1. s \in MonRecord /\ Local(m, s) /\ s.participating /\ s.state \in Dispatching
  BY DEF Inv, dispatches, Dispatching
<1>2. s.epoch = Reached(s) /\ s.epoch \in Nat /\ s.epoch >= 1
  BY <1>1, RecordFields DEF Local, EpochStored, Dispatching
<1>3. CASE e > s.epoch
  <2>1. /\ b \in MonRecord
        /\ b.epoch = e /\ b.stored = e /\ b.state = "electing"
        /\ b.electing_me = FALSE
        /\ b.leader_acked = s.leader_acked /\ b.participating = s.participating
        /\ b.expire_event = s.expire_event
    BY <1>1, <1>3, BumpFields
  <2> HIDE DEF b
  <2>2. Reached(b) = e /\ Reached(s) <= Reached(b)
    BY <1>2, <1>3, <2>1 DEF Reached
  <2>3. Stands(b) => Local(m, b)
    BY <1>1, <2>1, <2>2 DEF Local, EpochStored, Timed, Stands
  <2>4. AckedReached(m, b)
    BY <2>1 DEF AckedReached
  <2>5. RoleKept(m, b) /\ Reenters(m, b)
    BY <1>2, <1>3, <2>1 DEF RoleKept, Reenters
  <2> QED
    BY <1>1, <2>1, <2>2, <2>3, <2>4, <2>5 DEF Moves, Advances, b
<1>4. CASE ~(e > s.epoch)
  <2>1. b = s /\ e = s.epoch
    BY <1>2, <1>4
  <2> HIDE DEF b
  <2>2. Moves(m, s)
    BY MovesSame
  <2> QED
    BY <1>1, <1>2, <2>1, <2>2 DEF Moves, Advances, RoleKept, Local, b
<1> QED
  BY <1>3, <1>4

LEMMA MovesDefer ==
  ASSUME Inv, NEW m \in Mon, NEW who \in Mon, who < m, NEW b \in MonRecord,
         b.epoch = Reached(b), Reached(mon[m]) <= Reached(b),
         b.state \in {"leader", "peon"} => b.stored # 0, RoleKept(m, b), Reenters(m, b)
  PROVE  Moves(m, defer(b, who))
<1> DEFINE t == defer(b, who)
<1>1. /\ t \in MonRecord
      /\ t.epoch = b.epoch /\ t.stored = b.stored /\ t.state = b.state
      /\ t.electing_me = FALSE /\ t.leader_acked = who
      /\ t.participating = b.participating
      /\ t.expire_event = ElectionTimeout + 1
  BY DeferFields
<1> HIDE DEF t
<1>2. Reached(t) = Reached(b) /\ t.expire_event > 0 /\ t.leader_acked >= 0
  BY <1>1, BoundsAssumption, NAssumption DEF Reached, Mon
<1>3. Local(m, t)
  BY <1>1, <1>2 DEF Local, EpochStored, Timed
<1>4. AckedReached(m, t) /\ Stands(t)
  BY <1>1, <1>2 DEF AckedReached, Stands
<1>5. RoleKept(m, t) /\ Reenters(m, t)
  BY <1>1, <1>2 DEF RoleKept, Reenters
<1> QED
  BY <1>1, <1>2, <1>3, <1>4, <1>5 DEF Moves, Advances, t

(* The process exits or dies, and starts again.                            *)
LEMMA MovesBoot ==
  ASSUME Inv, NEW m \in Mon
  PROVE  /\ Moves(m, Exited(mon[m]))
         /\ Moves(m, Boot(mon[m].stored, mon[m].has_ever_joined))
<1> DEFINE s == mon[m]
<1>1. s \in MonRecord /\ s.stored \in Nat /\ s.has_ever_joined \in BOOLEAN
      /\ Reached(s) \in Nat
  BY RecordFields DEF Inv
<1>2. ASSUME NEW t, t = Exited(s) \/ t = Boot(s.stored, s.has_ever_joined)
      PROVE  Moves(m, t)
  <2>1. 0 \in 0 .. ElectionTimeout + 1 /\ "down" \in State /\ "probing" \in State
        /\ None \in Mon \union {None} /\ 0 \in Nat
    BY BoundsAssumption DEF State
  <2>2. /\ t \in MonRecord
        /\ t.epoch = 0 /\ t.stored = s.stored /\ t.state \in {"down", "probing"}
        /\ t.participating /\ t.electing_me = FALSE /\ t.leader_acked = None
        /\ t.expire_event = 0
    <3> DEFINE u == Boot(s.stored, s.has_ever_joined)
    <3>1. /\ u \in MonRecord
          /\ u.epoch = 0 /\ u.stored = s.stored /\ u.state = "probing"
          /\ u.participating /\ u.electing_me = FALSE /\ u.leader_acked = None
          /\ u.expire_event = 0
      BY <1>1, <2>1 DEF Boot, MonRecord
    <3>2. t = u \/ t = [u EXCEPT !.state = "down"]
      BY <1>2 DEF Exited
    <3> HIDE DEF u
    <3>3. CASE t = u
      BY <3>1, <3>3
    <3>4. CASE t = [u EXCEPT !.state = "down"]
      BY <2>1, <3>1, <3>4 DEF MonRecord
    <3> QED
      BY <3>2, <3>3, <3>4
  <2>3. t.leader_acked < m /\ ~(t.leader_acked >= 0)
    BY <2>2, NAssumption DEF None, Mon
  <2>4. Local(m, t) /\ AckedReached(m, t) /\ RoleKept(m, t) /\ Reenters(m, t)
    BY <2>2, <2>3
       DEF Local, EpochStored, Timed, AckedReached, RoleKept, Reenters, Dispatching
  <2>5. Reached(t) = Reached(s) /\ t.epoch % 2 = 0
    BY <2>2 DEF Reached
  <2> QED
    BY <1>1, <2>4, <2>5 DEF Moves, Advances
<1> QED
  BY <1>2

(* Changes that leave the election alone: bootstrap, a timer, on_active.   *)
LEMMA MovesAside ==
  ASSUME Inv, NEW m \in Mon, NEW t \in MonRecord,
         t.epoch = mon[m].epoch, t.stored = mon[m].stored,
         t.leader_acked = mon[m].leader_acked, t.electing_me = mon[m].electing_me,
         t.acked_me = mon[m].acked_me, t.participating = mon[m].participating,
         t.state = mon[m].state \/ t.state = "probing",
         t.expire_event = mon[m].expire_event
            \/ (t.state = "probing" /\ mon[m].epoch = Reached(mon[m]))
  PROVE  Moves(m, t)
<1> DEFINE s == mon[m]
<1>1. s \in MonRecord /\ Local(m, s) /\ AckedReached(m, s) /\ Reached(s) \in Nat
  BY RecordFields DEF Inv
<1>2. Reached(t) = Reached(s)
  BY DEF Reached
<1>3. EpochStored(t)
  BY <1>1, <1>2 DEF Local, EpochStored
<1>4. Timed(t)
  BY <1>1 DEF Local, Timed, Dispatching
<1>5. Local(m, t)
  BY <1>1, <1>3, <1>4 DEF Local
<1>6. AckedReached(m, t) /\ RoleKept(m, t) /\ (Stands(t) <=> Stands(s))
  BY <1>1, <1>2 DEF AckedReached, RoleKept, Stands
<1>7. Reenters(m, t)
  BY DEF Reenters, dispatches, Dispatching
<1> QED
  BY <1>1, <1>2, <1>5, <1>6, <1>7 DEF Moves, Advances

----------------------------------------------------------------------------
(* The network.                                                            *)

LEMMA FlightTyped ==
  ASSUME NEW n \in Network, NEW i \in Mon, NEW j \in Mon
  PROVE  Flight(n, i, j) \subseteq Message
BY ElementOfSeq DEF Network, Flight

(* Nothing is in the network n that is not in flight, but naks.            *)
Harmless(n) ==
    /\ n \in Network
    /\ \A i, j \in Mon : \A msg \in Flight(n, i, j) : msg \in Flight(net, i, j) \/ msg.op = "nak"

LEMMA HeadInFlight ==
  ASSUME net \in Network, NEW i \in Mon, NEW j \in Mon, net[i][j] # <<>>
  PROVE  Head(net[i][j]) \in Flight(net, i, j) /\ Head(net[i][j]) \in Message
<1> DEFINE q == net[i][j]
<1>1. q \in Seq(Message)
  BY DEF Network
<1> HIDE DEF q
<1>2. Len(q) \in Nat \ {0} /\ Head(q) = q[1] /\ Head(q) \in Message
  BY <1>1, HeadTailProperties, LenProperties, EmptySeq DEF q
<1>3. Head(q) \in {q[k] : k \in 1 .. Len(q)}
  BY <1>2
<1> QED
  BY <1>2, <1>3 DEF Flight, q

LEMMA ConsumedHarmless ==
  ASSUME net \in Network, NEW from \in Mon, NEW m \in Mon, net[from][m] # <<>>
  PROVE  Harmless(Consumed(from, m))
<1> DEFINE q == net[from][m]
           n == Consumed(from, m)
<1>1. q \in Seq(Message)
  BY DEF Network
<1>2. n = [net EXCEPT ![from] = [net[from] EXCEPT ![m] = Tail(q)]]
  BY DEF Consumed, Network
<1> HIDE DEF n
<1>3. /\ Tail(q) \in Seq(Message) /\ Len(q) \in Nat \ {0} /\ Len(Tail(q)) = Len(q) - 1
      /\ \A k \in 1 .. Len(Tail(q)) : Tail(q)[k] = q[k + 1]
  BY <1>1, HeadTailProperties, LenProperties, EmptySeq
<1>4. \A i, j \in Mon : n[i][j] = IF i = from /\ j = m THEN Tail(q) ELSE net[i][j]
  BY <1>2 DEF Network
<1>5. n \in Network
  <2>1. [net[from] EXCEPT ![m] = Tail(q)] \in [Mon -> Seq(Message)]
    BY <1>3 DEF Network
  <2> QED
    BY <1>2, <2>1 DEF Network
<1>6. \A k \in 1 .. Len(Tail(q)) : k + 1 \in 1 .. Len(q)
  BY <1>3
<1>7. {Tail(q)[k] : k \in 1 .. Len(Tail(q))} \subseteq {q[k] : k \in 1 .. Len(q)}
  BY <1>3, <1>6
<1>8. ASSUME NEW i \in Mon, NEW j \in Mon PROVE Flight(n, i, j) \subseteq Flight(net, i, j)
  <2>1. CASE i = from /\ j = m
    <3>1. n[i][j] = Tail(q) /\ net[i][j] = q
      BY <1>4, <2>1
    <3> HIDE DEF q
    <3>2. Flight(n, i, j) = {Tail(q)[k] : k \in 1 .. Len(Tail(q))}
      BY <3>1 DEF Flight
    <3>3. Flight(net, i, j) = {q[k] : k \in 1 .. Len(q)}
      BY <3>1 DEF Flight
    <3> QED
      BY <1>7, <3>2, <3>3
  <2>2. CASE ~(i = from /\ j = m)
    BY <1>4, <2>2 DEF Flight
  <2> QED
    BY <2>1, <2>2
<1> QED
  BY <1>5, <1>8 DEF Harmless, n

LEMMA SentFlight ==
  ASSUME NEW n \in Network, NEW m \in Mon, NEW dests, NEW msg \in Message
  PROVE  /\ Sent(n, m, dests, msg) \in Network
         /\ \A i, j \in Mon : \A x \in Flight(Sent(n, m, dests, msg), i, j) :
                x \in Flight(n, i, j) \/ (i = m /\ j \in dests /\ x = msg)
<1> DEFINE lost == {j \in Mon : Synchronous /\ mon[j].state = "down"}
           row == [j \in Mon |-> IF j \in dests \ lost THEN Append(n[m][j], msg) ELSE n[m][j]]
           t == Sent(n, m, dests, msg)
<1>1. t = [n EXCEPT ![m] = row]
  BY DEF Sent
<1>2. n \in [Mon -> [Mon -> Seq(Message)]]
  BY DEF Network
<1>3. \A j \in Mon : n[m][j] \in Seq(Message) /\ Append(n[m][j], msg) \in Seq(Message)
  BY <1>2, AppendProperties
<1>4. row \in [Mon -> Seq(Message)]
  BY <1>3
<1>5. t \in Network
  BY <1>1, <1>2, <1>4 DEF Network
<1>6. ASSUME NEW i \in Mon, NEW j \in Mon, NEW x \in Flight(t, i, j)
      PROVE  x \in Flight(n, i, j) \/ (i = m /\ j \in dests /\ x = msg)
  <2>1. t[i] = IF i = m THEN row ELSE n[i]
    BY <1>1, <1>2
  <2>2. CASE i = m /\ j \in dests \ lost
    <3>1. t[i][j] = Append(n[m][j], msg)
      BY <2>1, <2>2
    <3> DEFINE q == n[m][j]
               a == Append(q, msg)
    <3>2. q \in Seq(Message)
      BY <1>3
    <3> HIDE DEF q
    <3>3. /\ Len(q) \in Nat /\ Len(a) = Len(q) + 1
          /\ \A k \in 1 .. Len(q) : a[k] = q[k]
          /\ a[Len(q) + 1] = msg
      BY <3>2, AppendProperties, LenProperties
    <3>4. PICK k \in 1 .. Len(a) : x = a[k]
      BY <3>1 DEF Flight, q
    <3> HIDE DEF a
    <3>5. k \in 1 .. Len(q) \/ k = Len(q) + 1
      BY <3>3, <3>4
    <3>6. x = msg \/ x \in {q[l] : l \in 1 .. Len(q)}
      BY <3>3, <3>4, <3>5
    <3> QED
      BY <2>2, <3>6 DEF Flight, q
  <2>3. CASE ~(i = m /\ j \in dests \ lost)
    <3>1. t[i][j] = n[i][j]
      BY <2>1, <2>3
    <3> QED
      BY <3>1 DEF Flight
  <2> QED
    BY <2>2, <2>3
<1> QED
  BY <1>5, <1>6

----------------------------------------------------------------------------
(* One monitor advances, and what is new in the network is in order.       *)

LEMMA OthersKept ==
  ASSUME Inv, NEW m \in Mon, NEW s, Advances(m, s), mon' = [mon EXCEPT ![m] = s]
  PROVE  /\ mon' \in [Mon -> MonRecord] /\ mon'[m] = s
         /\ \A p \in Mon : p # m => mon'[p] = mon[p]
         /\ \A p \in Mon : /\ Reached(mon[p]) \in Nat /\ Reached(mon'[p]) \in Nat
                           /\ Reached(mon[p]) <= Reached(mon'[p])
<1>1. s \in MonRecord /\ mon \in [Mon -> MonRecord]
  BY DEF Inv, Advances, Local
<1>2. mon' \in [Mon -> MonRecord] /\ mon'[m] = s /\ \A p \in Mon : p # m => mon'[p] = mon[p]
  BY <1>1
<1>3. ASSUME NEW p \in Mon
      PROVE  /\ Reached(mon[p]) \in Nat /\ Reached(mon'[p]) \in Nat
             /\ Reached(mon[p]) <= Reached(mon'[p])
  <2>1. mon[p] \in MonRecord /\ mon'[p] \in MonRecord
    BY <1>1, <1>2
  <2>2. Reached(mon[p]) \in Nat /\ Reached(mon'[p]) \in Nat
    BY <2>1, RecordFields
  <2> QED
    BY <1>2, <2>2 DEF Advances
<1> QED
  BY <1>2, <1>3

LEMMA OldMessages ==
  ASSUME Inv, NEW m \in Mon, NEW s, Advances(m, s), mon' = [mon EXCEPT ![m] = s],
         claims \subseteq claims',
         NEW i \in Mon, NEW j \in Mon, NEW msg \in Flight(net, i, j)
  PROVE  MessageOK(i, j, msg)'
<1>1. /\ mon'[m] = s
      /\ \A p \in Mon : p # m => mon'[p] = mon[p]
      /\ \A p \in Mon : /\ Reached(mon[p]) \in Nat /\ Reached(mon'[p]) \in Nat
                        /\ Reached(mon[p]) <= Reached(mon'[p])
  BY OthersKept
<1>2. MessageOK(i, j, msg) /\ msg.epoch \in Nat
  <2>1. msg \in Message
    BY FlightTyped DEF Inv
  <2> QED
    BY <2>1 DEF Inv, Message
(* A proposal or an ack in m's name is no news to m.                       *)
<1>3. ASSUME NEW p \in Mon, msg.epoch % 2 = 1, msg.epoch <= Reached(mon[p]),
             msg.epoch = mon[p].epoch => Stands(mon[p]), msg.epoch = mon'[p].epoch
      PROVE  Stands(mon'[p])
  <2>1. CASE p # m
    BY <1>1, <1>3, <2>1
  <2>2. CASE p = m
    <3>1. s.epoch = msg.epoch
      BY <1>1, <1>3, <2>2
    <3>2. Stands(s) \/ s.epoch % 2 = 0 \/ s.epoch > Reached(mon[m])
             \/ (s.epoch = mon[m].epoch /\ ~Stands(mon[m]))
      BY DEF Advances
    <3>3. ~(s.epoch % 2 = 0) /\ ~(s.epoch > Reached(mon[m]))
      BY <1>1, <1>2, <1>3, <2>2, <3>1
    <3> QED
      BY <1>1, <1>3, <2>2, <3>1, <3>2, <3>3
  <2> QED
    BY <2>1, <2>2
<1>4. \A p \in Mon : msg.epoch <= Reached(mon[p]) => msg.epoch <= Reached(mon'[p])
  BY <1>1, <1>2
<1>5. CASE msg.op = "propose"
  BY <1>2, <1>3, <1>4, <1>5 DEF MessageOK, ProposalOK
<1>6. CASE msg.op = "ack"
  BY <1>2, <1>3, <1>4, <1>6 DEF MessageOK, AckOK
<1>7. CASE msg.op \notin {"propose", "ack"}
  BY <1>2, <1>7 DEF MessageOK, VictoryOK
<1> QED
  BY <1>5, <1>6, <1>7

LEMMA StepInv ==
  ASSUME Inv, NEW m \in Mon, NEW s, Advances(m, s), Reached(s) <= MaxEpoch,
         mon' = [mon EXCEPT ![m] = s],
         net' \in Network, HistoryOK', BudgetOK', claims \subseteq claims',
         \A i, j \in Mon : \A msg \in Flight(net', i, j) :
             msg \in Flight(net, i, j) \/ MessageOK(i, j, msg)'
  PROVE  Inv' /\ Reenter
<1>1. /\ mon' \in [Mon -> MonRecord] /\ mon'[m] = s
      /\ \A p \in Mon : p # m => mon'[p] = mon[p]
      /\ \A p \in Mon : /\ Reached(mon[p]) \in Nat /\ Reached(mon'[p]) \in Nat
                        /\ Reached(mon[p]) <= Reached(mon'[p])
  BY OthersKept
<1>2. ASSUME NEW p \in Mon
      PROVE  Local(p, mon'[p]) /\ AckedReached(p, mon[p])' /\ Reached(mon'[p]) <= MaxEpoch
  <2>1. Local(p, mon'[p]) /\ Reached(mon'[p]) <= MaxEpoch
    BY <1>1 DEF Inv, Advances
  <2>2. AckedReached(p, mon'[p])
    BY <1>1 DEF Inv, Advances
  <2>3. mon'[p].acked_me \subseteq Mon /\ mon'[p].epoch \in Nat
    BY <1>1, RecordFields
  <2>4. AckedReached(p, mon[p])'
    BY <1>1, <2>2, <2>3 DEF AckedReached
  <2> QED
    BY <2>1, <2>4
<1>3. \A i, j \in Mon : \A msg \in Flight(net', i, j) : MessageOK(i, j, msg)'
  BY OldMessages
<1>4. Inv'
  BY <1>1, <1>2, <1>3 DEF Inv, Local, EpochStored, Timed, Flight
<1>5. ASSUME NEW p \in Mon PROVE Reenters(p, mon'[p])
  <2>1. CASE p = m
    BY <1>1, <2>1 DEF Advances
  <2>2. CASE p # m
    BY <1>1, <2>2, MovesSame DEF Moves, Advances
  <2> QED
    BY <2>1, <2>2
<1> QED
  BY <1>4, <1>5 DEF Reenter

----------------------------------------------------------------------------
(* Steps of the abstract election.                                         *)

AbstractStep == [Abstract!ElectionNext]_(Abstract!electionVars)

Lawful == AbstractStep /\ Reenter

Epochs == [p \in Mon |-> IF mon[p].stored = 0 THEN 1 ELSE mon[p].stored]

Roles == [p \in Mon |-> IF mon[p].state \in {"leader", "peon"} THEN mon[p].state ELSE "out"]

LEMMA EpochsRoles ==
  ASSUME Inv, NEW m \in Mon, NEW s, Advances(m, s), mon' = [mon EXCEPT ![m] = s]
  PROVE  /\ Epochs[m] = Reached(mon[m])
         /\ Epochs' = [Epochs EXCEPT ![m] = Reached(s)]
         /\ Roles' = [Roles EXCEPT ![m] = IF s.state \in {"leader", "peon"} THEN s.state
                                          ELSE "out"]
<1>1. /\ mon'[m] = s
      /\ \A p \in Mon : p # m => mon'[p] = mon[p]
  BY OthersKept
<1> DEFINE out(t) == IF t.state \in {"leader", "peon"} THEN t.state ELSE "out"
<1>2. /\ Epochs = [p \in Mon |-> Reached(mon[p])] /\ Epochs' = [p \in Mon |-> Reached(mon'[p])]
      /\ Roles = [p \in Mon |-> out(mon[p])] /\ Roles' = [p \in Mon |-> out(mon'[p])]
  BY DEF Epochs, Roles, Reached
<1>3. \A p \in Mon : /\ Reached(mon'[p]) = IF p = m THEN Reached(s) ELSE Reached(mon[p])
                     /\ out(mon'[p]) = IF p = m THEN out(s) ELSE out(mon[p])
  BY <1>1
<1> HIDE DEF out
<1>4. Epochs' = [Epochs EXCEPT ![m] = Reached(s)]
  BY <1>2, <1>3
<1>5. Roles' = [Roles EXCEPT ![m] = out(s)]
  BY <1>2, <1>3
<1> QED
  BY <1>2, <1>4, <1>5 DEF out

LEMMA LeaveStep ==
  ASSUME Inv, NEW m \in Mon, NEW s, Moves(m, s), Reached(s) <= MaxEpoch,
         mon' = [mon EXCEPT ![m] = s], claims' = claims, follows' = follows
  PROVE  AbstractStep
<1>1. Advances(m, s) /\ RoleKept(m, s)
  BY DEF Moves
<1>2. /\ Reached(mon[m]) \in Nat /\ Reached(s) \in Nat /\ Reached(s) >= 1
      /\ Reached(mon[m]) <= Reached(s) /\ MaxEpoch \in Nat
  BY <1>1, RecordFields, BoundsAssumption DEF Inv, Advances, Local
<1>3. /\ Epochs[m] = Reached(mon[m])
      /\ Epochs' = [Epochs EXCEPT ![m] = Reached(s)]
      /\ Roles' = [Roles EXCEPT ![m] = IF s.state \in {"leader", "peon"} THEN s.state
                                       ELSE "out"]
  BY <1>1, EpochsRoles
<1>4. CASE s.state \notin {"leader", "peon"}
  <2>1. Reached(s) \in Epochs[m] .. MaxEpoch /\ Reached(s) \in 1 .. MaxEpoch
    BY <1>2, <1>3
  <2>2. Abstract!Leave(m, Reached(s))
    BY <1>3, <1>4, <2>1 DEF Abstract!Leave, Epochs, Roles
  <2> QED
    BY <2>1, <2>2 DEF AbstractStep, Abstract!ElectionNext, Abstract!Mon, Mon
<1>5. CASE Reached(s) = Reached(mon[m]) /\ s.state = mon[m].state
  <2>1. Epochs' = Epochs /\ Roles' = Roles
    <3>1. Epochs \in [Mon -> {Epochs[p] : p \in Mon}] /\ Roles \in [Mon -> {Roles[p] : p \in Mon}]
      BY DEF Epochs, Roles
    <3>2. Roles[m] = IF s.state \in {"leader", "peon"} THEN s.state ELSE "out"
      BY <1>5 DEF Roles
    <3> QED
      BY <1>3, <1>5, <3>1, <3>2
  <2> QED
    BY <2>1 DEF AbstractStep, Abstract!electionVars, Epochs, Roles
<1> QED
  BY <1>1, <1>4, <1>5 DEF RoleKept

----------------------------------------------------------------------------
(* Become, Campaign and the other ways in which an action ends.            *)

LEMMA InBounds ==
  ASSUME Inv, NEW m \in Mon, NEW s, Advances(m, s), mon' = [mon EXCEPT ![m] = s], WithinBounds(m)
  PROVE  Reached(s) <= MaxEpoch
BY OthersKept DEF Inv, Advances, WithinBounds

LEMMA NetHarmless ==
  ASSUME Inv
  PROVE  Harmless(net)
BY DEF Inv, Harmless

LEMMA NakHarmless ==
  ASSUME NEW n, Harmless(n), NEW m \in Mon, NEW dests, NEW e \in Nat
  PROVE  Harmless(Sent(n, m, dests, Nak(e)))
<1>1. Nak(e) \in Message /\ Nak(e).op = "nak"
  BY DEF Nak, Message
<1>2. n \in Network
  BY DEF Harmless
<1>3. /\ Sent(n, m, dests, Nak(e)) \in Network
      /\ \A i, j \in Mon : \A x \in Flight(Sent(n, m, dests, Nak(e)), i, j) :
             x \in Flight(n, i, j) \/ (i = m /\ j \in dests /\ x = Nak(e))
  BY <1>1, <1>2, SentFlight
<1> QED
  BY <1>1, <1>3 DEF Harmless

(* m sends nothing, but perhaps a nak.                                     *)
LEMMA BecomeStep ==
  ASSUME Inv, BudgetOK', NEW m \in Mon, NEW s, Moves(m, s), NEW n, Harmless(n), Become(m, s, n)
  PROVE  Inv' /\ Lawful
<1>1. /\ mon' = [mon EXCEPT ![m] = s] /\ net' = n /\ WithinBounds(m)
      /\ claims' = claims /\ follows' = follows /\ Advances(m, s)
  BY DEF Become, NoHistory, Moves
<1>2. Reached(s) <= MaxEpoch
  BY <1>1, InBounds
<1>3. AbstractStep
  BY <1>1, <1>2, LeaveStep
<1>4. HistoryOK' /\ net' \in Network
  BY <1>1 DEF Inv, HistoryOK, Harmless
<1>5. \A i, j \in Mon : \A msg \in Flight(net', i, j) :
          msg \in Flight(net, i, j) \/ MessageOK(i, j, msg)'
  BY <1>1 DEF Harmless, MessageOK
<1> QED
  BY <1>1, <1>2, <1>3, <1>4, <1>5, StepInv DEF Lawful

(* m sends msg, which is in order, to dests.                               *)
LEMMA SendStep ==
  ASSUME Inv, BudgetOK', NEW m \in Mon, NEW s, Moves(m, s), NEW n, Harmless(n),
         NEW dests \in SUBSET Mon, NEW msg \in Message,
         \A j \in dests : MessageOK(m, j, msg)',
         Become(m, s, Sent(n, m, dests, msg))
  PROVE  Inv' /\ Lawful
<1>1. /\ mon' = [mon EXCEPT ![m] = s] /\ net' = Sent(n, m, dests, msg) /\ WithinBounds(m)
      /\ claims' = claims /\ follows' = follows /\ Advances(m, s)
  BY DEF Become, NoHistory, Moves
<1>2. Reached(s) <= MaxEpoch
  BY <1>1, InBounds
<1>3. AbstractStep
  BY <1>1, <1>2, LeaveStep
<1>4. n \in Network
  BY DEF Harmless
<1>5. /\ net' \in Network
      /\ \A i, j \in Mon : \A x \in Flight(net', i, j) :
             x \in Flight(n, i, j) \/ (i = m /\ j \in dests /\ x = msg)
  BY <1>1, <1>4, SentFlight
<1>6. HistoryOK'
  BY <1>1 DEF Inv, HistoryOK
<1>7. \A i, j \in Mon : \A x \in Flight(net', i, j) :
          x \in Flight(net, i, j) \/ MessageOK(i, j, x)'
  BY <1>5 DEF Harmless, MessageOK
<1> QED
  BY <1>1, <1>2, <1>3, <1>5, <1>6, <1>7, StepInv DEF Lawful

(* m proposes itself to its peers.                                         *)
LEMMA ProposeOK ==
  ASSUME Inv, NEW m \in Mon, NEW s, Moves(m, s), mon' = [mon EXCEPT ![m] = s],
         s.epoch = Reached(s), NEW j \in Mon, NEW e, e = s.epoch,
         s.epoch % 2 = 1, Stands(s)
  PROVE  MessageOK(m, j, Propose(e))' /\ Propose(e) \in Message
<1>1. mon'[m] = s /\ Reached(s) \in Nat /\ s.epoch \in Nat
  BY OthersKept, RecordFields DEF Moves, Advances, Local
<1>2. Propose(e).op = "propose" /\ Propose(e).epoch = s.epoch /\ Propose(e) \in Message
  BY <1>1 DEF Propose, Message
<1> QED
  BY <1>1, <1>2 DEF MessageOK, ProposalOK

LEMMA CampaignStep ==
  ASSUME Inv, BudgetOK', NEW m \in Mon, NEW s, Moves(m, s), NEW n, Harmless(n),
         s.participating => s.electing_me /\ s.epoch = Reached(s),
         Campaign(m, s, n)
  PROVE  Inv' /\ Lawful
<1>1. CASE s.participating
  <2>1. Become(m, s, Sent(n, m, Mon \ {m}, Propose(s.epoch)))
    BY <1>1 DEF Campaign
  <2>2. mon' = [mon EXCEPT ![m] = s]
    BY <2>1 DEF Become
  <2>3. s.epoch % 2 = 1 /\ Stands(s) /\ s.epoch = Reached(s)
    BY <1>1 DEF Moves, Advances, Local, Stands
  <2>4. \A j \in Mon : MessageOK(m, j, Propose(s.epoch))' /\ Propose(s.epoch) \in Message
    BY <2>2, <2>3, ProposeOK
  <2> QED
    BY <2>1, <2>4, SendStep
<1>2. CASE ~s.participating
  <2>1. Become(m, s, n)
    BY <1>2 DEF Campaign
  <2> QED
    BY <2>1, BecomeStep
<1> QED
  BY <1>1, <1>2

LEMMA MonFinite == IsFiniteSet(Mon) /\ Cardinality(Mon) = N
<1>1. N \in Nat /\ N > 0
  BY NAssumption
<1>2. IsFiniteSet(0 .. N - 1) /\ Cardinality(0 .. N - 1) = N
  BY <1>1, FS_Interval
<1> QED
  BY <1>2 DEF Mon

LEMMA MajorityIs ==
  ASSUME NEW q \in SUBSET Mon, IsMajority(q)
  PROVE  Abstract!IsMajority(q)
<1>1. Cardinality(q) \in Nat
  BY MonFinite, FS_Subset, FS_CardinalityType
<1>2. N \div 2 \in Nat /\ N <= 2 * (N \div 2) + 1
  BY NAssumption
<1>3. Abstract!Cardinality(q) = Cardinality(q)
  BY DEF Cardinality, Abstract!Cardinality
<1> QED
  BY <1>1, <1>2, <1>3, NAssumption DEF IsMajority, Abstract!IsMajority

(* m declares victory with the majority that acked it.                     *)
LEMMA VictoryStep ==
  ASSUME Inv, BudgetOK', NEW m \in Mon, NEW s \in MonRecord, NEW n, Harmless(n),
         s.epoch = Reached(mon[m]), s.epoch % 2 = 1,
         IsMajority(s.acked_me), m \in s.acked_me,
         \A p \in s.acked_me \ {m} : p > m /\ Reached(mon[p]) >= s.epoch,
         DeclareVictory(m, s, n)
  PROVE  Inv' /\ Lawful
<1> DEFINE q == s.acked_me
           e == s.epoch + 1
           w == declare_victory(m, s)
<1>1. q \in SUBSET Mon /\ s.epoch \in Nat /\ e \in Nat /\ e % 2 = 0 /\ e # 0
  <2>1. q \in SUBSET Mon /\ s.epoch \in Nat
    BY RecordFields
  <2> QED
    BY <2>1
<1>2. /\ w \in MonRecord
      /\ w.epoch = e /\ w.stored = e /\ w.state = "leader" /\ w.quorum = q
      /\ w.leader_acked = None /\ w.electing_me = FALSE /\ w.expire_event = 0
  <2> DEFINE a == [s EXCEPT !.leader_acked = None, !.electing_me = FALSE]
             b == bump_epoch(a, e)
  <2>1. a \in MonRecord /\ a.leader_acked = None
    BY DEF MonRecord
  <2> HIDE DEF a
  <2>2. /\ b \in MonRecord /\ b.epoch = e /\ b.stored = e
        /\ b.leader_acked = None /\ b.electing_me = FALSE
    BY <1>1, <2>1, BumpFields
  <2>3. w = [b EXCEPT !.expire_event = 0, !.state = "leader", !.leader = m, !.quorum = q]
    BY <2>2 DEF declare_victory, win_election, a, MonRecord
  <2>4. 0 \in 0 .. ElectionTimeout + 1 /\ "leader" \in State
    BY BoundsAssumption DEF State
  <2> HIDE DEF b, w, e, q
  <2> QED
    BY <1>1, <2>2, <2>3, <2>4 DEF MonRecord
<1> DEFINE c == [epoch |-> e, leader |-> m, quorum |-> q]
           f == [mon |-> m, epoch |-> e, leader |-> m]
<1>3. /\ mon' = [mon EXCEPT ![m] = w]
      /\ net' = Sent(n, m, q \ {m}, Victory(e, q)) /\ WithinBounds(m)
      /\ claims' = claims \union {c} /\ follows' = follows \union {f}
  BY <1>2 DEF DeclareVictory
<1> HIDE DEF w, e
<1>4. Advances(m, w)
  <2>1. Reached(w) = e /\ Reached(mon[m]) <= Reached(w)
    BY <1>1, <1>2 DEF Reached, e
  <2>2. w.leader_acked < m /\ ~(w.leader_acked >= 0)
    BY <1>2, NAssumption DEF None, Mon
  <2>3. Local(m, w)
    BY <1>1, <1>2, <2>1, <2>2 DEF Local, EpochStored, Timed
  <2>4. AckedReached(m, w)
    BY <1>2 DEF AckedReached
  <2>5. Reenters(m, w)
    BY <1>1, <1>2 DEF Reenters, e
  <2> QED
    BY <1>1, <1>2, <2>1, <2>3, <2>4, <2>5 DEF Advances
<1>5. Reached(w) <= MaxEpoch /\ Reached(w) = e
  BY <1>1, <1>2, <1>3, <1>4, InBounds DEF Reached
<1>6. HistoryOK'
  <2>1. c \in [epoch : Nat, leader : Mon, quorum : SUBSET Mon]
        /\ f \in [mon : Mon, epoch : Nat, leader : Mon]
        /\ c.epoch <= MaxEpoch
    BY <1>1, <1>5
  <2> HIDE DEF c, f
  <2> QED
    BY <1>3, <2>1 DEF Inv, HistoryOK
<1>7. Victory(e, q) \in Message /\ \A j \in q \ {m} : MessageOK(m, j, Victory(e, q))'
  <2> DEFINE v == Victory(e, q)
  <2>1. v \in Message /\ v.op = "victory" /\ v.epoch = e /\ v.quorum = q
    BY <1>1 DEF Victory, Message
  <2> HIDE DEF v
  <2>2. ASSUME NEW j \in q \ {m} PROVE MessageOK(m, j, v)'
    <3>1. m < j
      BY <1>1, NAssumption DEF Mon
    <3>2. c \in claims'
      BY <1>3
    <3> QED
      BY <1>1, <2>1, <3>1, <3>2 DEF MessageOK, VictoryOK
  <2> QED
    BY <2>1, <2>2 DEF v
<1>8. /\ net' \in Network
      /\ \A i, j \in Mon : \A x \in Flight(net', i, j) :
             x \in Flight(n, i, j) \/ (i = m /\ j \in q \ {m} /\ x = Victory(e, q))
  <2>1. n \in Network
    BY DEF Harmless
  <2> QED
    BY <1>3, <1>7, <2>1, SentFlight
<1>9. \A i, j \in Mon : \A x \in Flight(net', i, j) :
          x \in Flight(net, i, j) \/ MessageOK(i, j, x)'
  BY <1>7, <1>8 DEF Harmless, MessageOK
<1>10. Inv' /\ Reenter
  BY <1>3, <1>4, <1>5, <1>6, <1>8, <1>9, StepInv
<1>11. AbstractStep
  <2>1. /\ Epochs[m] = s.epoch
        /\ Epochs' = [Epochs EXCEPT ![m] = e]
        /\ Roles' = [Roles EXCEPT ![m] = "leader"]
    BY <1>2, <1>3, <1>4, <1>5, EpochsRoles
  <2>2. \A p \in q : p >= m /\ Epochs[p] >= Epochs[m]
    <3>1. \A p \in q : p \in Mon /\ Epochs[p] = Reached(mon[p])
      BY <1>1 DEF Epochs, Reached
    <3> QED
      BY <1>1, <2>1, <3>1, NAssumption DEF Mon
  <2>3. Epochs[m] % 2 = 1 /\ Epochs[m] < MaxEpoch /\ e = Epochs[m] + 1
    BY <1>1, <1>5, <2>1, BoundsAssumption DEF e
  <2>4. Abstract!IsMajority(q)
    BY <1>1, MajorityIs
  <2>5. Abstract!Win(m, q)
    BY <1>3, <2>1, <2>2, <2>3, <2>4 DEF Abstract!Win, Epochs, Roles
  <2> QED
    BY <1>1, <2>5 DEF AbstractStep, Abstract!ElectionNext, Abstract!Mon, Mon
<1> QED
  BY <1>10, <1>11 DEF Lawful

----------------------------------------------------------------------------
(* The handlers of messages.                                               *)

(* What a handler knows of the message it takes.                           *)
LEMMA MessageTaken ==
  ASSUME Inv, NEW m \in Mon, NEW from \in Mon, net[from][m] # <<>>
  PROVE  /\ Head(net[from][m]) \in Message /\ Head(net[from][m]).epoch \in Nat
         /\ MessageOK(from, m, Head(net[from][m]))
         /\ Harmless(Consumed(from, m))
<1>1. net \in Network
  BY DEF Inv
<1>2. Head(net[from][m]) \in Flight(net, from, m) /\ Head(net[from][m]) \in Message
  BY <1>1, HeadInFlight
<1>3. Harmless(Consumed(from, m))
  BY <1>1, ConsumedHarmless
<1> QED
  BY <1>2, <1>3 DEF Inv, Message

LEMMA DispatchingFacts ==
  ASSUME Inv, NEW m \in Mon, dispatches(m)
  PROVE  /\ mon[m] \in MonRecord /\ Local(m, mon[m]) /\ mon[m].participating
         /\ mon[m].epoch = Reached(mon[m]) /\ mon[m].epoch \in Nat /\ mon[m].epoch >= 1
<1>1. mon[m] \in MonRecord /\ Local(m, mon[m]) /\ mon[m].participating
      /\ mon[m].state \in Dispatching
  BY DEF Inv, dispatches, Dispatching
<1> QED
  BY <1>1, RecordFields DEF Local, EpochStored, Dispatching

LEMMA ProposeStep ==
  ASSUME Inv, BudgetOK', NEW m \in Mon, NEW from \in Mon, dispatches(m),
         net[from][m] # <<>>, handle_propose(m, from)
  PROVE  Inv' /\ Lawful
<1>1. PICK msg : msg = Head(net[from][m])
  OBVIOUS
<1> DEFINE n == Consumed(from, m)
           naked == Sent(n, m, {from}, Nak(msg.epoch))
<1>2. /\ msg.op = "propose" /\ msg.epoch \in Nat /\ ProposalOK(from, msg) /\ Harmless(n)
  BY <1>1, MessageTaken DEF handle_propose, MessageOK
<1>3. Harmless(naked)
  BY <1>2, NakHarmless
<1>4. CASE Become(m, mon[m], naked)
  BY <1>3, <1>4, MovesSame, BecomeStep
<1>5. ASSUME NEW k, Harmless(k), receive_propose(m, from, msg.epoch, mon[m], k)
      PROVE  Inv' /\ Lawful
  <2> DEFINE s == mon[m]
             e == msg.epoch
             b == IF e > s.epoch THEN bump_epoch(s, e) ELSE s
  <2>1. s \in MonRecord /\ Local(m, s) /\ s.participating
        /\ s.epoch = Reached(s) /\ s.epoch \in Nat /\ s.epoch >= 1 /\ Reached(s) <= Reached(s)
    BY DispatchingFacts
  <2>2. CASE Become(m, s, k)
    BY <1>5, <2>2, MovesSame, BecomeStep
  <2>3. CASE Campaign(m, start_election(m, s), k)
    <3>1. PICK t : t = start_election(m, s)
      OBVIOUS
    <3>2. Moves(m, t) /\ t.electing_me /\ t.epoch = Reached(t)
      BY <2>1, <3>1, MovesStartElection
    <3> QED
      BY <1>5, <2>3, <3>1, <3>2, CampaignStep
  <2>4. CASE e >= s.epoch
    <3>1. /\ b \in MonRecord /\ b.participating /\ b.epoch = e /\ b.epoch = Reached(b)
          /\ Reached(s) <= Reached(b)
          /\ b.state \in {"leader", "peon"} => b.stored # 0
          /\ RoleKept(m, b) /\ Reenters(m, b)
          /\ Stands(b) => Moves(m, b)
      BY <1>2, <2>4, Bumped
    <3>2. \/ Become(m, s, k)
          \/ Campaign(m, start_election(m, s), k)
          \/ Campaign(m, start_election(m, b), k)
          \/ Stands(b) /\ Become(m, b, k)
          \/ m > from /\ Become(m, defer(b, from), Sent(k, m, {from}, Ack(b.epoch)))
      BY <1>5 DEF receive_propose, Stands
    <3> HIDE DEF b
    <3>3. CASE Campaign(m, start_election(m, b), k)
      <4>1. PICK t : t = start_election(m, b)
        OBVIOUS
      <4>2. Moves(m, t) /\ t.electing_me /\ t.epoch = Reached(t)
        BY <3>1, <4>1, MovesStartElection
      <4> QED
        BY <1>5, <3>3, <4>1, <4>2, CampaignStep
    <3>4. CASE Stands(b) /\ Become(m, b, k)
      BY <1>5, <3>1, <3>4, BecomeStep
    <3>5. CASE m > from /\ Become(m, defer(b, from), Sent(k, m, {from}, Ack(b.epoch)))
      <4>1. PICK t : t = defer(b, from)
        OBVIOUS
      <4>2. PICK a : a = Ack(b.epoch)
        OBVIOUS
      <4>3. from < m /\ from # m
        BY <3>5, NAssumption DEF Mon
      <4>4. Moves(m, t) /\ t.epoch = e /\ t.stored = b.stored
        BY <3>1, <4>1, <4>3, MovesDefer, DeferFields
      <4>5. a \in Message /\ a.op = "ack" /\ a.epoch = e
        BY <1>2, <3>1, <4>2 DEF Ack, Message
      <4>6. mon' = [mon EXCEPT ![m] = t]
        BY <3>5, <4>1 DEF Become
      <4>7. mon'[m] = t /\ mon'[from] = mon[from]
        BY <4>3, <4>4, <4>6, OthersKept DEF Moves
      <4>8. Reached(t) = e
        BY <3>1, <4>4 DEF Reached
      <4>9. AckOK(m, from, a)'
        BY <1>2, <3>5, <4>5, <4>7, <4>8 DEF AckOK, ProposalOK
      <4>10. \A j \in {from} : MessageOK(m, j, a)'
        BY <4>5, <4>9 DEF MessageOK
      <4> QED
        BY <1>5, <3>5, <4>1, <4>2, <4>4, <4>5, <4>10, SendStep
    <3> QED
      BY <2>2, <2>3, <3>2, <3>3, <3>4, <3>5
  <2>5. CASE ~(e >= s.epoch)
    <3>1. Become(m, s, k) \/ Campaign(m, start_election(m, s), k)
      BY <1>5, <2>5 DEF receive_propose
    <3> QED
      BY <2>2, <2>3, <3>1
  <2> QED
    BY <2>4, <2>5
<1>6. Become(m, mon[m], naked) \/ receive_propose(m, from, msg.epoch, mon[m], naked)
         \/ receive_propose(m, from, msg.epoch, mon[m], n)
  BY <1>1 DEF handle_propose
<1> QED
  BY <1>2, <1>3, <1>4, <1>5, <1>6

LEMMA AckStep ==
  ASSUME Inv, BudgetOK', NEW m \in Mon, NEW from \in Mon, dispatches(m),
         net[from][m] # <<>>, handle_ack(m, from)
  PROVE  Inv' /\ Lawful
<1>1. PICK msg : msg = Head(net[from][m])
  OBVIOUS
<1> DEFINE n == Consumed(from, m)
           o == mon[m]
<1>2. PICK s : s = [o EXCEPT !.acked_me = o.acked_me \union {from}]
  OBVIOUS
<1>3. /\ msg.op = "ack" /\ msg.epoch \in Nat /\ msg.epoch >= o.epoch
      /\ AckOK(from, m, msg) /\ Harmless(n)
  BY <1>1, MessageTaken DEF handle_ack, MessageOK
<1>4. o \in MonRecord /\ Local(m, o) /\ AckedReached(m, o)
      /\ o.epoch = Reached(o) /\ o.epoch \in Nat
  BY DispatchingFacts DEF Inv
<1>5. CASE Become(m, o, n)
  BY <1>3, <1>5, MovesSame, BecomeStep
<1>6. ASSUME o.electing_me,
             IF s.acked_me = Mon THEN DeclareVictory(m, s, n) ELSE Become(m, s, n)
      PROVE  Inv' /\ Lawful
  <2>1. /\ s \in MonRecord /\ s.acked_me = o.acked_me \union {from}
        /\ s.epoch = o.epoch /\ s.stored = o.stored /\ s.state = o.state
        /\ s.electing_me = o.electing_me /\ s.leader_acked = o.leader_acked
        /\ s.participating = o.participating /\ s.expire_event = o.expire_event
    <3>1. o.acked_me \union {from} \in SUBSET Mon
      BY <1>4, RecordFields
    <3> QED
      BY <1>2, <1>4, <3>1 DEF MonRecord
  <2>2. Reached(s) = Reached(o) /\ Reached(o) \in Nat /\ Reached(mon[from]) \in Nat
    BY <1>4, <2>1, RecordFields DEF Reached, Inv
  <2>3. \A p \in s.acked_me \ {m} : p > m /\ Reached(mon[p]) >= s.epoch
    <3>1. from > m /\ Reached(mon[from]) >= o.epoch
      BY <1>3, <1>4, <2>2 DEF AckOK
    <3> QED
      BY <1>4, <1>6, <2>1, <3>1 DEF AckedReached
  <2>4. s.epoch = Reached(o) /\ s.epoch % 2 = 1 /\ m \in s.acked_me
    BY <1>4, <1>6, <2>1 DEF Local
  <2>5. CASE DeclareVictory(m, s, n) /\ s.acked_me = Mon
    <3>1. IsMajority(s.acked_me)
      BY <2>5, MonFinite, NAssumption DEF IsMajority
    <3> QED
      BY <1>3, <2>1, <2>3, <2>4, <2>5, <3>1, VictoryStep
  <2>6. CASE Become(m, s, n)
    <3>1. Local(m, s)
      BY <1>4, <2>1, <2>2, <2>4 DEF Local, EpochStored, Timed
    <3>2. Reenters(m, s)
      BY <2>1 DEF Reenters
    <3>3. Moves(m, s)
      BY <1>4, <1>6, <2>1, <2>2, <2>3, <3>1, <3>2
         DEF Moves, Advances, RoleKept, AckedReached, Stands
    <3> QED
      BY <1>3, <2>6, <3>3, BecomeStep
  <2> QED
    BY <1>6, <2>5, <2>6
<1>7. Become(m, o, n) \/ (o.electing_me /\
         IF s.acked_me = Mon THEN DeclareVictory(m, s, n) ELSE Become(m, s, n))
  BY <1>1, <1>2 DEF handle_ack
<1> QED
  BY <1>5, <1>6, <1>7

(* m follows the victory of an election that it is still in.               *)
LEMMA FollowStep ==
  ASSUME Inv, BudgetOK', NEW m \in Mon, NEW from \in Mon, NEW msg, NEW n, Harmless(n), NEW s,
         msg.epoch \in Nat, msg.quorum \in SUBSET Mon, VictoryOK(from, m, msg),
         mon[m].epoch = Reached(mon[m]), msg.epoch = mon[m].epoch + 1,
         s \in MonRecord, s.epoch = msg.epoch, s.stored = msg.epoch, s.state = "peon",
         s.electing_me = FALSE, s.leader_acked = None,
         mon' = [mon EXCEPT ![m] = s], net' = n, claims' = claims,
         follows' = follows \union {[mon |-> m, epoch |-> msg.epoch, leader |-> from]}
  PROVE  Inv' /\ Lawful
<1> DEFINE c == [epoch |-> msg.epoch, leader |-> from, quorum |-> msg.quorum]
           f == [mon |-> m, epoch |-> msg.epoch, leader |-> from]
<1>1. c \in claims /\ m \in msg.quorum /\ from < m /\ msg.epoch % 2 = 0
  BY DEF VictoryOK
<1>2. msg.epoch <= MaxEpoch
  BY <1>1 DEF Inv, HistoryOK
<1>3. Reached(mon[m]) \in Nat
  BY RecordFields DEF Inv
<1>4. Reached(s) = msg.epoch /\ Reached(mon[m]) <= Reached(s) /\ s.stored # 0
  BY <1>3 DEF Reached
<1>5. s.leader_acked < m /\ ~(s.leader_acked >= 0)
  BY NAssumption DEF None, Mon
<1>6. Advances(m, s)
  <2>1. Local(m, s)
    BY <1>4, <1>5 DEF Local, EpochStored, Timed
  <2>2. AckedReached(m, s) /\ Reenters(m, s)
    BY <1>3 DEF AckedReached, Reenters
  <2> QED
    BY <1>1, <1>4, <2>1, <2>2 DEF Advances
<1>7. HistoryOK'
  <2>1. f \in [mon : Mon, epoch : Nat, leader : Mon]
    OBVIOUS
  <2> QED
    BY <2>1 DEF Inv, HistoryOK
<1>8. /\ net' \in Network
      /\ \A i, j \in Mon : \A x \in Flight(net', i, j) :
             x \in Flight(net, i, j) \/ MessageOK(i, j, x)'
  BY DEF Harmless, MessageOK
<1>9. Inv' /\ Reenter
  BY <1>2, <1>4, <1>6, <1>7, <1>8, StepInv
<1>10. AbstractStep
  <2>1. /\ Epochs[m] = Reached(mon[m])
        /\ Epochs' = [Epochs EXCEPT ![m] = msg.epoch]
        /\ Roles' = [Roles EXCEPT ![m] = "peon"]
    BY <1>4, <1>6, EpochsRoles
  <2>2. c.epoch = msg.epoch /\ c.leader = from /\ c.quorum = msg.quorum
    OBVIOUS
  <2> HIDE DEF c
  <2>3. Abstract!Follow(m, c)
    BY <1>1, <1>2, <2>1, <2>2 DEF Abstract!Follow, Epochs, Roles
  <2> QED
    BY <1>1, <2>3 DEF AbstractStep, Abstract!ElectionNext, Abstract!Mon, Mon
<1> QED
  BY <1>9, <1>10 DEF Lawful

LEMMA VictoryTaken ==
  ASSUME Inv, BudgetOK', NEW m \in Mon, NEW from \in Mon, dispatches(m),
         net[from][m] # <<>>, handle_victory(m, from)
  PROVE  Inv' /\ Lawful
<1>1. PICK msg : msg = Head(net[from][m])
  OBVIOUS
<1> DEFINE n == Consumed(from, m)
           o == mon[m]
<1>2. PICK b : b = bump_epoch([o EXCEPT !.leader_acked = None], msg.epoch)
  OBVIOUS
<1>3. /\ msg.op = "victory" /\ msg.epoch \in Nat /\ msg.epoch >= o.epoch
      /\ VictoryOK(from, m, msg) /\ Harmless(n) /\ msg \in Message
  BY <1>1, MessageTaken DEF handle_victory, MessageOK
<1>4. msg.quorum \in SUBSET Mon
  BY <1>3 DEF Message
<1>5. o \in MonRecord /\ o.participating
      /\ o.epoch = Reached(o) /\ o.epoch \in Nat /\ o.epoch >= 1
  BY DispatchingFacts
<1>6. /\ b \in MonRecord /\ b.epoch = msg.epoch /\ b.stored = msg.epoch
      /\ b.state = "electing" /\ b.participating
      /\ b.electing_me = FALSE /\ b.leader_acked = None
  <2> DEFINE a == [o EXCEPT !.leader_acked = None]
  <2>1. a \in MonRecord /\ a.leader_acked = None /\ a.participating
    BY <1>5 DEF MonRecord
  <2> HIDE DEF a
  <2> QED
    BY <1>2, <1>3, <2>1, BumpFields DEF a
<1>7. CASE Campaign(m, start(m, b), n)
  <2>1. PICK t : t = start(m, b)
    OBVIOUS
  <2>2. Reached(o) <= Reached(b)
    BY <1>3, <1>5, <1>6 DEF Reached
  <2>3. Moves(m, t) /\ t.electing_me /\ t.epoch = Reached(t)
    BY <1>6, <2>1, <2>2, MovesStart
  <2> QED
    BY <1>3, <1>7, <2>1, <2>3, CampaignStep
<1>8. CASE /\ victory_expected(o, msg.epoch)
           /\ mon' = [mon EXCEPT ![m] = [lose_election(b, msg.quorum, from)
                                            EXCEPT !.expire_event = 0]]
           /\ net' = n /\ claims' = claims
           /\ follows' = follows \union {[mon |-> m, epoch |-> msg.epoch, leader |-> from]}
  <2>1. PICK s : s = [lose_election(b, msg.quorum, from) EXCEPT !.expire_event = 0]
    OBVIOUS
  <2>2. s = [b EXCEPT !.state = "peon", !.leader = from, !.quorum = msg.quorum,
                      !.expire_event = 0]
    BY <1>6, <2>1 DEF lose_election, MonRecord
  <2>3. 0 \in 0 .. ElectionTimeout + 1 /\ "peon" \in State
    BY BoundsAssumption DEF State
  <2>4. /\ s \in MonRecord /\ s.epoch = msg.epoch /\ s.stored = msg.epoch /\ s.state = "peon"
        /\ s.electing_me = FALSE /\ s.leader_acked = None
    BY <1>4, <1>6, <2>2, <2>3 DEF MonRecord
  <2>5. msg.epoch = o.epoch + 1
    BY <1>8 DEF victory_expected
  <2> QED
    BY <1>3, <1>4, <1>5, <1>8, <2>1, <2>4, <2>5, FollowStep
<1>9. \/ Campaign(m, start(m, b), n)
      \/ /\ victory_expected(o, msg.epoch)
         /\ mon' = [mon EXCEPT ![m] = [lose_election(b, msg.quorum, from)
                                          EXCEPT !.expire_event = 0]]
         /\ net' = n /\ claims' = claims
         /\ follows' = follows \union {[mon |-> m, epoch |-> msg.epoch, leader |-> from]}
  BY <1>1, <1>2 DEF handle_victory
<1> QED
  BY <1>7, <1>8, <1>9

LEMMA DispatchStep ==
  ASSUME Inv, NEW m \in Mon, NEW from \in Mon, dispatch(m, from)
  PROVE  Inv' /\ Lawful
<1>1. net[from][m] # <<>> /\ BudgetOK' /\ Harmless(Consumed(from, m))
  BY MessageTaken DEF dispatch, Inv, BudgetOK
<1>2. CASE Become(m, mon[m], Consumed(from, m))
  BY <1>1, <1>2, MovesSame, BecomeStep
<1>3. CASE Become(m, Exited(mon[m]), Consumed(from, m))
  <2>1. PICK t : t = Exited(mon[m])
    OBVIOUS
  <2> QED
    BY <1>1, <1>3, <2>1, MovesBoot, BecomeStep
<1>4. CASE dispatches(m) /\ handle_propose(m, from)
  BY <1>1, <1>4, ProposeStep
<1>5. CASE dispatches(m) /\ handle_ack(m, from)
  BY <1>1, <1>5, AckStep
<1>6. CASE dispatches(m) /\ handle_victory(m, from)
  BY <1>1, <1>6, VictoryTaken
<1> QED
  BY <1>2, <1>3, <1>4, <1>5, <1>6 DEF dispatch, drop_old, handle_nak

----------------------------------------------------------------------------
(* The other actions.                                                      *)

LEMMA TickStep ==
  ASSUME Inv, tick
  PROVE  Inv' /\ Lawful
<1>1. mon \in [Mon -> MonRecord]
      /\ mon' = [m \in Mon |-> [mon[m] EXCEPT !.expire_event = IF @ > 1 THEN @ - 1 ELSE @]]
      /\ net' = net /\ claims' = claims /\ follows' = follows /\ budget' = budget
  BY DEF Inv, tick
<1>2. ASSUME NEW p \in Mon
      PROVE  /\ mon'[p] \in MonRecord
             /\ mon'[p].epoch = mon[p].epoch /\ mon'[p].stored = mon[p].stored
             /\ mon'[p].leader_acked = mon[p].leader_acked
             /\ mon'[p].participating = mon[p].participating
             /\ mon'[p].electing_me = mon[p].electing_me
             /\ mon'[p].acked_me = mon[p].acked_me /\ mon'[p].state = mon[p].state
             /\ mon[p].expire_event > 0 => mon'[p].expire_event > 0
             /\ mon[p].expire_event = 0 => mon'[p].expire_event = 0
  <2>1. PICK s : s = mon[p]
    OBVIOUS
  <2>2. PICK x : x = IF s.expire_event > 1 THEN s.expire_event - 1 ELSE s.expire_event
    OBVIOUS
  <2>3. s \in MonRecord /\ mon'[p] = [s EXCEPT !.expire_event = x]
    BY <1>1, <2>1, <2>2
  <2>4. s.expire_event \in 0 .. ElectionTimeout + 1 /\ ElectionTimeout \in Nat
    BY <2>3, RecordFields, BoundsAssumption
  <2>5. /\ x \in 0 .. ElectionTimeout + 1
        /\ s.expire_event > 0 => x > 0
        /\ s.expire_event = 0 => x = 0
    BY <2>2, <2>4
  <2> QED
    BY <2>1, <2>3, <2>5 DEF MonRecord
<1>3. \A p \in Mon : Reached(mon'[p]) = Reached(mon[p]) /\ (Stands(mon'[p]) <=> Stands(mon[p]))
  BY <1>2 DEF Reached, Stands
<1>4. ASSUME NEW p \in Mon
      PROVE  /\ Local(p, mon'[p]) /\ AckedReached(p, mon[p])'
             /\ Reached(mon'[p]) <= MaxEpoch
  <2>1. Local(p, mon[p]) /\ AckedReached(p, mon[p]) /\ Reached(mon[p]) <= MaxEpoch
        /\ mon[p] \in MonRecord
    BY DEF Inv
  <2>2. mon[p].acked_me \subseteq Mon
    BY <2>1, RecordFields
  <2>3. AckedReached(p, mon[p])'
    BY <1>2, <1>3, <2>1, <2>2 DEF AckedReached
  <2>4. EpochStored(mon'[p]) /\ Timed(mon'[p])
    BY <1>2, <1>3, <2>1 DEF Local, EpochStored, Timed
  <2>5. Local(p, mon'[p])
    BY <1>2, <2>1, <2>4 DEF Local
  <2> QED
    BY <1>3, <2>1, <2>3, <2>5
<1>5. \A i, j \in Mon : \A msg \in Flight(net', i, j) : MessageOK(i, j, msg)'
  <2> SUFFICES ASSUME NEW i \in Mon, NEW j \in Mon, NEW msg \in Flight(net', i, j)
               PROVE  MessageOK(i, j, msg)'
    OBVIOUS
  <2>1. MessageOK(i, j, msg)
    BY <1>1 DEF Inv
  <2>2. msg.op = "propose" => ProposalOK(i, msg)'
    BY <1>2, <1>3, <2>1 DEF MessageOK, ProposalOK
  <2>3. msg.op = "ack" => AckOK(i, j, msg)'
    BY <1>2, <1>3, <2>1 DEF MessageOK, AckOK
  <2>4. msg.op = "victory" => VictoryOK(i, j, msg)'
    BY <1>1, <2>1 DEF MessageOK, VictoryOK
  <2> QED
    BY <2>2, <2>3, <2>4 DEF MessageOK
<1>6. mon' \in [Mon -> MonRecord]
  BY <1>1, <1>2
<1>7. Inv'
  BY <1>1, <1>4, <1>5, <1>6
     DEF Inv, Local, EpochStored, Timed, HistoryOK, BudgetOK, Flight
<1>8. Epochs' = Epochs /\ Roles' = Roles
  BY <1>2 DEF Epochs, Roles
<1>9. AbstractStep
  BY <1>1, <1>8 DEF AbstractStep, Abstract!electionVars, Epochs, Roles
<1>10. Reenter
  BY <1>2 DEF Reenter, Reenters, dispatches, Dispatching
<1> QED
  BY <1>7, <1>9, <1>10 DEF Lawful

LEMMA EndElectionPeriodStep ==
  ASSUME Inv, NEW m \in Mon, end_election_period(m)
  PROVE  Inv' /\ Lawful
<1> DEFINE o == mon[m]
<1>1. PICK s : s = [o EXCEPT !.expire_event = 0]
  OBVIOUS
<1>2. BudgetOK' /\ Harmless(net) /\ o.expire_event > 0
  BY NetHarmless DEF end_election_period, Inv, BudgetOK
<1>3. o \in MonRecord /\ Local(m, o) /\ AckedReached(m, o) /\ Reached(o) \in Nat
      /\ o.epoch = Reached(o)
  <2>1. o \in MonRecord /\ Local(m, o) /\ AckedReached(m, o)
    BY DEF Inv
  <2>2. Reached(o) \in Nat /\ o.expire_event # 0
    BY <1>2, <2>1, RecordFields
  <2> QED
    BY <2>1, <2>2 DEF Local, EpochStored
<1>4. /\ s \in MonRecord
      /\ s.epoch = o.epoch /\ s.stored = o.stored /\ s.state = o.state
      /\ s.electing_me = o.electing_me /\ s.leader_acked = o.leader_acked
      /\ s.participating = o.participating /\ s.acked_me = o.acked_me
  <2>1. 0 \in 0 .. ElectionTimeout + 1
    BY BoundsAssumption
  <2> QED
    BY <1>1, <1>3, <2>1 DEF MonRecord
<1>5. Reached(s) = Reached(o) /\ (s.state \in {"leader", "peon"} => s.stored # 0)
  BY <1>3, <1>4 DEF Reached, Local
<1>6. CASE s.electing_me /\ IsMajority(s.acked_me) /\ DeclareVictory(m, s, net)
  <2>1. s.epoch % 2 = 1 /\ m \in s.acked_me
        /\ \A p \in s.acked_me \ {m} : p > m /\ Reached(mon[p]) >= s.epoch
    BY <1>3, <1>4, <1>6 DEF Local, AckedReached
  <2> QED
    BY <1>2, <1>3, <1>4, <1>6, <2>1, VictoryStep
<1>7. CASE Campaign(m, start(m, s), net)
  <2>1. PICK t : t = start(m, s)
    OBVIOUS
  <2>2. CASE s.participating
    <3>1. Moves(m, t) /\ t.electing_me /\ t.epoch = Reached(t)
      BY <1>3, <1>4, <1>5, <2>1, <2>2, MovesStart
    <3> QED
      BY <1>2, <1>7, <2>1, <3>1, CampaignStep
  <2>3. CASE ~s.participating
    <3>1. t = s
      BY <2>1, <2>3 DEF start
    <3>2. Local(m, s)
      BY <1>3, <1>4, <1>5, <2>3 DEF Local, EpochStored, Timed
    <3>3. Moves(m, s)
      BY <1>3, <1>4, <1>5, <2>3, <3>2
         DEF Moves, Advances, RoleKept, AckedReached, Stands, Reenters
    <3> QED
      BY <1>2, <1>7, <2>1, <2>3, <3>1, <3>3, CampaignStep
  <2> QED
    BY <2>2, <2>3
<1>8. CASE Become(m, bootstrap(s), net)
  <2>1. PICK t : t = bootstrap(s)
    OBVIOUS
  <2>2. /\ t \in MonRecord
        /\ t.epoch = o.epoch /\ t.stored = o.stored /\ t.state = "probing"
        /\ t.electing_me = o.electing_me /\ t.leader_acked = o.leader_acked
        /\ t.participating = o.participating /\ t.acked_me = o.acked_me
    BY <1>4, <2>1 DEF bootstrap, MonRecord, State
  <2>3. Moves(m, t)
    BY <1>3, <2>2, MovesAside
  <2> QED
    BY <1>2, <1>8, <2>1, <2>3, BecomeStep
<1> QED
  BY <1>1, <1>6, <1>7, <1>8 DEF end_election_period

(* bootstrap() and on_active().                                            *)
LEMMA AsideFields ==
  ASSUME NEW o \in MonRecord, NEW t,
         t = bootstrap(o) \/ t = [o EXCEPT !.has_ever_joined = TRUE]
  PROVE  /\ t \in MonRecord
         /\ t.epoch = o.epoch /\ t.stored = o.stored
         /\ t.leader_acked = o.leader_acked /\ t.electing_me = o.electing_me
         /\ t.acked_me = o.acked_me /\ t.participating = o.participating
         /\ t.state = o.state \/ t.state = "probing"
         /\ t.expire_event = o.expire_event
<1>1. "probing" \in State
  BY DEF State
<1>2. CASE t = bootstrap(o)
  BY <1>1, <1>2 DEF bootstrap, MonRecord
<1>3. CASE t = [o EXCEPT !.has_ever_joined = TRUE]
  BY <1>3 DEF MonRecord
<1> QED
  BY <1>2, <1>3

LEMMA AsideStep ==
  ASSUME Inv, BudgetOK', NEW m \in Mon, NEW t,
         t = bootstrap(mon[m]) \/ t = [mon[m] EXCEPT !.has_ever_joined = TRUE],
         Become(m, t, net)
  PROVE  Inv' /\ Lawful
<1>1. PICK o : o = mon[m]
  OBVIOUS
<1>2. o \in MonRecord /\ (t = bootstrap(o) \/ t = [o EXCEPT !.has_ever_joined = TRUE])
  BY <1>1 DEF Inv
<1>3. /\ t \in MonRecord
      /\ t.epoch = o.epoch /\ t.stored = o.stored
      /\ t.leader_acked = o.leader_acked /\ t.electing_me = o.electing_me
      /\ t.acked_me = o.acked_me /\ t.participating = o.participating
      /\ t.state = o.state \/ t.state = "probing"
      /\ t.expire_event = o.expire_event
  BY <1>2, AsideFields
<1>4. Moves(m, t)
  BY <1>1, <1>3, MovesAside
<1> QED
  BY <1>4, NetHarmless, BecomeStep

LEMMA SpendBudget ==
  ASSUME Inv, NEW kind \in {"crash", "bootstrap", "exit"}, Spend(kind)
  PROVE  BudgetOK'
<1>1. budget \in [{"crash", "bootstrap", "exit", "all"} -> Nat]
  BY DEF Inv, BudgetOK
<1>2. /\ budget[kind] \in Nat /\ budget[kind] > 0
      /\ budget["all"] \in Nat /\ budget["all"] > 0
      /\ budget' = [[budget EXCEPT ![kind] = budget[kind] - 1]
                       EXCEPT !["all"] = budget["all"] - 1]
  BY <1>1 DEF Spend
<1>3. budget[kind] - 1 \in Nat /\ budget["all"] - 1 \in Nat
  BY <1>2
<1> QED
  BY <1>1, <1>2, <1>3 DEF BudgetOK

(* start_election(), by a monitor that participates or by one that does    *)
(* not.                                                                    *)
LEMMA StartElection ==
  ASSUME Inv, NEW m \in Mon, NEW t, t = start_election(m, mon[m])
  PROVE  /\ Moves(m, t)
         /\ t.participating => t.electing_me /\ t.epoch = Reached(t)
<1>1. mon[m] \in MonRecord /\ Reached(mon[m]) <= Reached(mon[m])
  BY RecordFields DEF Inv
<1>2. CASE mon[m].participating
  BY <1>1, <1>2, MovesStartElection
<1>3. CASE ~mon[m].participating
  BY <1>3, MovesJoin
<1> QED
  BY <1>2, <1>3

LEMMA ProbeDoneStep ==
  ASSUME Inv, NEW m \in Mon, probe_done(m)
  PROVE  Inv' /\ Lawful
<1>1. PICK t : t = start_election(m, mon[m])
  OBVIOUS
<1>2. BudgetOK' /\ Campaign(m, t, net)
  BY <1>1 DEF probe_done, Inv, BudgetOK
<1>3. Moves(m, t) /\ (t.participating => t.electing_me /\ t.epoch = Reached(t))
  BY <1>1, StartElection
<1> QED
  BY <1>2, <1>3, NetHarmless, CampaignStep

LEMMA BootstrapStep ==
  ASSUME Inv, NEW m \in Mon, paxos_timeout(m) \/ paxos_bootstrap(m) \/ on_active(m)
  PROVE  Inv' /\ Lawful
<1>1. BudgetOK'
  BY SpendBudget DEF paxos_timeout, paxos_bootstrap, on_active, Inv, BudgetOK
<1>2. PICK t : (t = bootstrap(mon[m]) \/ t = [mon[m] EXCEPT !.has_ever_joined = TRUE])
                  /\ Become(m, t, net)
  BY DEF paxos_timeout, paxos_bootstrap, on_active
<1> QED
  BY <1>1, <1>2, AsideStep

LEMMA QuorumEnterStep ==
  ASSUME Inv, NEW m \in Mon, quorum_enter(m)
  PROVE  Inv' /\ Lawful
<1>1. PICK s : s = [mon[m] EXCEPT !.participating = TRUE]
  OBVIOUS
<1>2. PICK t : t = start_election(m, s)
  OBVIOUS
<1>3. BudgetOK' /\ Campaign(m, t, net)
  BY <1>1, <1>2 DEF quorum_enter, Inv, BudgetOK
<1>4. s \in MonRecord /\ s.participating /\ s.stored = mon[m].stored
  <2>1. mon[m] \in MonRecord
    BY DEF Inv
  <2> QED
    BY <1>1, <2>1 DEF MonRecord
<1>5. Reached(mon[m]) <= Reached(s)
  BY <1>4, RecordFields DEF Reached
<1>6. Moves(m, t) /\ t.electing_me /\ t.epoch = Reached(t)
  BY <1>2, <1>4, <1>5, MovesStartElection
<1> QED
  BY <1>3, <1>6, NetHarmless, CampaignStep

(* "quorum exit": the campaign is sent, then participation ends.           *)
LEMMA QuorumExitStep ==
  ASSUME Inv, NEW m \in Mon, quorum_exit(m)
  PROVE  Inv' /\ Lawful
<1>1. PICK s : s = start_election(m, mon[m])
  OBVIOUS
<1>2. PICK t : t = [s EXCEPT !.participating = FALSE]
  OBVIOUS
<1>3. BudgetOK'
  BY SpendBudget DEF quorum_exit
<1>4. Become(m, t, IF s.participating THEN Sent(net, m, Mon \ {m}, Propose(s.epoch)) ELSE net)
  BY <1>1, <1>2 DEF quorum_exit
<1>5. Moves(m, s) /\ (s.participating => s.electing_me /\ s.epoch = Reached(s))
  BY <1>1, StartElection
<1>6. Local(m, s) /\ s \in MonRecord
  BY <1>5 DEF Moves, Advances, Local
<1>7. /\ t \in MonRecord /\ ~t.participating
      /\ t.epoch = s.epoch /\ t.stored = s.stored /\ t.state = s.state
      /\ t.electing_me = s.electing_me /\ t.leader_acked = s.leader_acked
      /\ t.acked_me = s.acked_me /\ t.expire_event = s.expire_event
  BY <1>2, <1>6 DEF MonRecord
<1>8. Reached(t) = Reached(s) /\ (Stands(t) <=> Stands(s))
  BY <1>7 DEF Reached, Stands
<1>9. EpochStored(t)
  <2>1. s.epoch = Reached(s) \/ ~(s.epoch = Reached(s))
    OBVIOUS
  <2> QED
    BY <1>5, <1>6, <1>7, <1>8 DEF Local, EpochStored
<1>10. Moves(m, t)
  <2>1. Local(m, t)
    BY <1>6, <1>7, <1>9 DEF Local, Timed
  <2>2. AckedReached(m, t) /\ RoleKept(m, t) /\ Reenters(m, t)
    BY <1>5, <1>7, <1>8 DEF Moves, Advances, AckedReached, RoleKept, Reenters
  <2> QED
    BY <1>5, <1>7, <1>8, <2>1, <2>2 DEF Moves, Advances
<1>11. CASE s.participating
  <2>1. PICK e : e = s.epoch
    OBVIOUS
  <2>2. Become(m, t, Sent(net, m, Mon \ {m}, Propose(e))) /\ mon' = [mon EXCEPT ![m] = t]
    BY <1>4, <1>11, <2>1 DEF Become
  <2>3. t.epoch = Reached(t) /\ t.epoch % 2 = 1 /\ Stands(t) /\ e = t.epoch
    BY <1>5, <1>6, <1>7, <1>8, <1>11, <2>1 DEF Local, Stands
  <2>4. \A j \in Mon : MessageOK(m, j, Propose(e))' /\ Propose(e) \in Message
    BY <1>10, <2>2, <2>3, ProposeOK
  <2>5. PICK msg : msg = Propose(e)
    OBVIOUS
  <2>6. PICK dests : dests = Mon \ {m}
    OBVIOUS
  <2>7. msg \in Message /\ dests \in SUBSET Mon /\ \A j \in dests : MessageOK(m, j, msg)'
    BY <2>4, <2>5, <2>6
  <2> QED
    BY <1>3, <1>10, <2>2, <2>5, <2>6, <2>7, NetHarmless, SendStep
<1>12. CASE ~s.participating
  BY <1>3, <1>4, <1>10, <1>12, NetHarmless, BecomeStep
<1> QED
  BY <1>11, <1>12

(* Messages may be lost with the session that they were queued on.         *)
LEMMA LostHarmless ==
  ASSUME Inv, NEW n \in [Mon -> [Mon -> Seq(Message)]],
         \A i, j \in Mon : n[i][j] = net[i][j] \/ n[i][j] = <<>>
  PROVE  Harmless(n)
<1>1. ASSUME NEW i \in Mon, NEW j \in Mon PROVE Flight(n, i, j) \subseteq Flight(net, i, j)
  <2>1. CASE n[i][j] = net[i][j]
    BY <2>1 DEF Flight
  <2>2. CASE n[i][j] = <<>>
    <3>1. Len(n[i][j]) = 0
      BY <2>2
    <3> QED
      BY <3>1 DEF Flight
  <2> QED
    BY <2>1, <2>2
<1> QED
  BY <1>1 DEF Harmless, Network

LEMMA CrashStep ==
  ASSUME Inv, NEW m \in Mon, crash(m)
  PROVE  Inv' /\ Lawful
<1>1. BudgetOK'
  BY SpendBudget DEF crash
<1>2. PICK lost \in SUBSET (Mon \ {m}) :
          Become(m, Exited(mon[m]),
                 [net EXCEPT ![m] = [j \in Mon |-> IF j \in lost THEN <<>> ELSE @[j]]])
  BY DEF crash
<1> DEFINE row == [j \in Mon |-> IF j \in lost THEN <<>> ELSE net[m][j]]
<1>3. PICK n : n = [net EXCEPT ![m] = row]
  OBVIOUS
<1>4. PICK t : t = Exited(mon[m])
  OBVIOUS
<1>5. Become(m, t, n)
  BY <1>2, <1>3, <1>4
<1>6. net \in [Mon -> [Mon -> Seq(Message)]] /\ <<>> \in Seq(Message)
  BY DEF Inv, Network
<1>7. row \in [Mon -> Seq(Message)]
  BY <1>6
<1>8. Harmless(n)
  <2>1. n \in [Mon -> [Mon -> Seq(Message)]]
    BY <1>3, <1>6, <1>7
  <2>2. \A i, j \in Mon : n[i][j] = net[i][j] \/ n[i][j] = <<>>
    BY <1>3, <1>6
  <2> QED
    BY <2>1, <2>2, LostHarmless
<1> QED
  BY <1>1, <1>4, <1>5, <1>8, MovesBoot, BecomeStep

LEMMA RestartStep ==
  ASSUME Inv, NEW m \in Mon, restart(m)
  PROVE  Inv' /\ Lawful
<1>1. BudgetOK'
  BY DEF restart, Inv, BudgetOK
<1>2. PICK reset \in SUBSET (Mon \ {m}) :
          Become(m, Boot(mon[m].stored, mon[m].has_ever_joined),
                 [i \in Mon |-> IF i \in reset THEN [net[i] EXCEPT ![m] = <<>>] ELSE net[i]])
  BY DEF restart
<1>3. PICK n : n = [i \in Mon |-> IF i \in reset THEN [net[i] EXCEPT ![m] = <<>>] ELSE net[i]]
  OBVIOUS
<1>4. PICK t : t = Boot(mon[m].stored, mon[m].has_ever_joined)
  OBVIOUS
<1>5. Become(m, t, n)
  BY <1>2, <1>3, <1>4
<1>6. net \in [Mon -> [Mon -> Seq(Message)]] /\ <<>> \in Seq(Message)
  BY DEF Inv, Network
<1>7. Harmless(n)
  <2>1. \A i \in Mon : [net[i] EXCEPT ![m] = <<>>] \in [Mon -> Seq(Message)]
    BY <1>6
  <2>2. n \in [Mon -> [Mon -> Seq(Message)]]
    BY <1>3, <1>6, <2>1
  <2>3. \A i, j \in Mon : n[i][j] = net[i][j] \/ n[i][j] = <<>>
    BY <1>3, <1>6
  <2> QED
    BY <2>2, <2>3, LostHarmless
<1> QED
  BY <1>1, <1>4, <1>5, <1>7, MovesBoot, BecomeStep

----------------------------------------------------------------------------
(* Every behaviour.                                                        *)

LEMMA InitInv ==
  ASSUME Init
  PROVE  Inv /\ Abstract!ElectionInit
<1> DEFINE b == IF FirstBoot THEN Boot(0, FALSE) ELSE Boot(2, TRUE)
<1>1. mon = [m \in Mon |-> b] /\ MaxEpoch \in Nat /\ MaxEpoch >= 2
  BY BoundsAssumption DEF Init
<1>2. 0 \in 0 .. ElectionTimeout + 1 /\ "probing" \in State /\ None \in Mon \union {None}
      /\ 0 \in Nat /\ 2 \in Nat /\ {} \in SUBSET Mon /\ TRUE \in BOOLEAN /\ FALSE \in BOOLEAN
  BY BoundsAssumption DEF State
<1>3. /\ b \in MonRecord
      /\ b.epoch = 0 /\ b.stored \in {0, 2} /\ b.state = "probing"
      /\ b.participating /\ b.electing_me = FALSE /\ b.leader_acked = None
      /\ b.expire_event = 0
  <2>1. CASE FirstBoot
    BY <1>2, <2>1 DEF Boot, MonRecord
  <2>2. CASE ~FirstBoot
    BY <1>2, <2>2 DEF Boot, MonRecord
  <2> QED
    BY <2>1, <2>2
<1> HIDE DEF b
<1>4. Reached(b) \in {1, 2}
  BY <1>3 DEF Reached
<1>5. ASSUME NEW m \in Mon
      PROVE  Local(m, mon[m]) /\ AckedReached(m, mon[m]) /\ Reached(mon[m]) <= MaxEpoch
  <2>1. mon[m] = b
    BY <1>1
  <2>2. b.leader_acked < m
    BY <1>3, NAssumption DEF Mon, None
  <2>3. Local(m, b)
    BY <1>3, <2>2 DEF Local, EpochStored, Timed, Dispatching
  <2>4. AckedReached(m, b) /\ Reached(b) <= MaxEpoch
    BY <1>1, <1>3, <1>4 DEF AckedReached
  <2> QED
    BY <2>1, <2>3, <2>4
<1>6. net \in Network /\ \A i, j \in Mon : net[i][j] = <<>>
  <2>1. <<>> \in Seq(Message)
    OBVIOUS
  <2> QED
    BY <2>1 DEF Init, Network
<1>7. \A i, j \in Mon : \A msg \in Flight(net, i, j) : MessageOK(i, j, msg)
  <2>1. \A i, j \in Mon : Len(net[i][j]) = 0
    BY <1>6
  <2> QED
    BY <2>1 DEF Flight
<1>8. HistoryOK
  BY DEF Init, HistoryOK
<1>9. BudgetOK
  <2>1. MaxCrash \in Nat /\ MaxBootstrap \in Nat /\ MaxExit \in Nat /\ MaxFaults \in Nat
    BY BoundsAssumption
  <2> QED
    BY <2>1 DEF Init, BudgetOK
<1>10. Inv
  BY <1>1, <1>3, <1>5, <1>6, <1>7, <1>8, <1>9 DEF Inv
<1>11. Abstract!ElectionInit
  <2>1. Epochs = [m \in Mon |-> Reached(b)] /\ Roles = [m \in Mon |-> "out"]
    BY <1>1, <1>3 DEF Epochs, Roles, Reached
  <2>2. Reached(b) \in 1 .. MaxEpoch
    BY <1>1, <1>4
  <2>3. Epochs \in [Mon -> 1 .. MaxEpoch]
    BY <2>1, <2>2
  <2>4. claims = {} /\ follows = {}
    BY DEF Init
  <2> QED
    BY <2>1, <2>3, <2>4 DEF Abstract!ElectionInit, Abstract!Mon, Mon, Epochs, Roles
<1> QED
  BY <1>10, <1>11

LEMMA NextStep ==
  ASSUME Inv, [Next]_vars
  PROVE  Inv' /\ Lawful
<1>1. CASE UNCHANGED vars
  <2>1. Inv'
    BY <1>1 DEF vars, Inv, Local, EpochStored, Timed, AckedReached, Reached, Flight, MessageOK,
                ProposalOK, AckOK, VictoryOK, Stands, HistoryOK, BudgetOK
  <2>2. AbstractStep
    BY <1>1 DEF vars, AbstractStep, Abstract!electionVars
  <2>3. Reenter
    BY <1>1, MovesSame DEF vars, Reenter, Moves, Advances
  <2> QED
    BY <2>1, <2>2, <2>3 DEF Lawful
<1>2. CASE tick
  BY <1>2, TickStep
<1>3. ASSUME NEW m \in Mon, NEW from \in Mon, dispatch(m, from) PROVE Inv' /\ Lawful
  BY <1>3, DispatchStep
<1>4. ASSUME NEW m \in Mon, end_election_period(m) PROVE Inv' /\ Lawful
  BY <1>4, EndElectionPeriodStep
<1>5. ASSUME NEW m \in Mon, probe_done(m) PROVE Inv' /\ Lawful
  BY <1>5, ProbeDoneStep
<1>6. ASSUME NEW m \in Mon, paxos_timeout(m) \/ paxos_bootstrap(m) \/ on_active(m)
      PROVE  Inv' /\ Lawful
  BY <1>6, BootstrapStep
<1>7. ASSUME NEW m \in Mon, quorum_exit(m) PROVE Inv' /\ Lawful
  BY <1>7, QuorumExitStep
<1>8. ASSUME NEW m \in Mon, quorum_enter(m) PROVE Inv' /\ Lawful
  BY <1>8, QuorumEnterStep
<1>9. ASSUME NEW m \in Mon, crash(m) PROVE Inv' /\ Lawful
  BY <1>9, CrashStep
<1>10. ASSUME NEW m \in Mon, restart(m) PROVE Inv' /\ Lawful
  BY <1>10, RestartStep
<1> QED
  BY <1>1, <1>2, <1>3, <1>4, <1>5, <1>6, <1>7, <1>8, <1>9, <1>10
     DEF Next, Progress, Environment

(* The inductive invariant holds in every state that the election can      *)
(* reach: through messages in any interleaving, timers, crashes, restarts, *)
(* bootstraps and the admin commands.                                      *)
THEOREM Invariance == Spec => []Inv
<1>1. Init => Inv
  BY InitInv
<1>2. Inv /\ [Next]_vars => Inv'
  BY NextStep
<1> QED
  BY <1>1, <1>2, PTL DEF Spec

(* The variables keep their types: no handler leaves the records of        *)
(* ElectionLogic and Monitor, or a message, ill formed.                    *)
THEOREM TypeCorrect == Spec => []TypeOK
<1>1. Inv => TypeOK
  <2> SUFFICES ASSUME Inv PROVE TypeOK
    OBVIOUS
  <2>1. ASSUME NEW i \in Mon, NEW j \in Mon, NEW k \in DOMAIN net[i][j]
        PROVE  net[i][j][k] \in Message
    <3>1. net[i][j] \in Seq(Message)
      BY DEF Inv, Network
    <3> QED
      BY <3>1
  <2> QED
    BY <2>1 DEF Inv, TypeOK, HistoryOK, BudgetOK
<1> QED
  BY <1>1, Invariance, PTL

(* A participating monitor in STATE_ELECTING always has its timer armed,   *)
(* although bump_epoch keeps the timer and the leader_acked of the epoch   *)
(* before and receive_propose arms nothing when it defers to nobody new.   *)
THEOREM ElectingHasTimerAlways == Spec => []ElectingHasTimer
<1>1. Inv => ElectingHasTimer
  BY DEF Inv, Local, Timed, Dispatching, ElectingHasTimer
<1> QED
  BY <1>1, Invariance, PTL

(* None of the ceph_asserts of handle_propose, receive_ack, handle_victory *)
(* and receive_victory_claim fires, whatever crashed, restarted or was     *)
(* delayed before.                                                         *)
THEOREM AssertsHoldAlways == Spec => []AssertsHold
<1>1. Inv => AssertsHold
  <2> SUFFICES ASSUME Inv PROVE AssertsHold
    OBVIOUS
  <2>1. \A m \in Mon : mon[m].electing_me => mon[m].epoch % 2 = 1
    BY DEF Inv, Local
  <2>2. ASSUME NEW m \in Mon, NEW from \in Mon, dispatches(m), net[from][m] # <<>>,
               NEW msg, msg = Head(net[from][m])
        PROVE  /\ msg.op = "propose" =>
                     /\ msg.epoch % 2 = 1
                     /\ (m < from /\ mon[m].leader_acked >= 0) => mon[m].leader_acked < from
               /\ msg.op = "ack" /\ msg.epoch >= mon[m].epoch =>
                     /\ msg.epoch = mon[m].epoch
                     /\ mon[m].electing_me \/ mon[m].leader_acked >= 0
               /\ msg.op = "victory" => from < m /\ msg.epoch % 2 = 0
    <3>1. MessageOK(from, m, msg) /\ msg.epoch \in Nat
      BY <2>2, MessageTaken
    <3>2. mon[m] \in MonRecord /\ Local(m, mon[m])
          /\ mon[m].epoch = Reached(mon[m]) /\ mon[m].epoch \in Nat
      BY <2>2, DispatchingFacts
    <3>3. mon[m].leader_acked < m /\ mon[m].leader_acked \in Int /\ m \in Int /\ from \in Int
      BY <3>2, RecordFields, NAssumption DEF Local, Mon
    <3>4. (m < from /\ mon[m].leader_acked >= 0) => mon[m].leader_acked < from
      BY <3>3
    <3> QED
      BY <3>1, <3>2, <3>4 DEF MessageOK, ProposalOK, AckOK, VictoryOK, Stands
  <2> QED
    BY <2>1, <2>2 DEF AssertsHold
<1> QED
  BY <1>1, Invariance, PTL

(* The election as the code runs it, with its messages and timers,         *)
(* implements MonElection: no epoch is entered twice, a victory takes a    *)
(* majority that has reached its epoch, and it is accepted only by a       *)
(* monitor still in the election that it closes.                           *)
THEOREM Implements == Spec => ImplementsElection
<1>1. Init => Abstract!ElectionInit
  BY InitInv
<1>2. Inv /\ [Next]_vars => [Abstract!ElectionNext]_(Abstract!electionVars)
  BY NextStep DEF Lawful, AbstractStep
<1> QED
  BY <1>1, <1>2, Invariance, PTL DEF Spec, ImplementsElection, Abstract!ElectionSpec

(* The proofs about the abstract election, for this one.                   *)
P == INSTANCE MonElection_proofs
    WITH epoch <- [m \in Mon |-> IF mon[m].stored = 0 THEN 1 ELSE mon[m].stored],
         role  <- [m \in Mon |-> IF mon[m].state \in {"leader", "peon"}
                                 THEN mon[m].state ELSE "out"]

(* The instance is the abstract specification that Elector refers to.      *)
LEMMA SameMajority ==
  ASSUME NEW q
  PROVE  P!IsMajority(q) <=> Abstract!IsMajority(q)
<1>1. P!Cardinality(q) = Abstract!Cardinality(q)
  BY DEF P!Cardinality, Abstract!Cardinality
<1> QED
  BY <1>1 DEF P!IsMajority, Abstract!IsMajority

LEMMA SameSteps ==
  /\ P!ElectionInit <=> Abstract!ElectionInit
  /\ P!ElectionNext <=> Abstract!ElectionNext
  /\ P!electionVars = Abstract!electionVars
  /\ P!electionVars' = Abstract!electionVars'
<1>1. P!Mon = Abstract!Mon
  BY DEF P!Mon, Abstract!Mon
<1>2. P!ElectionInit <=> Abstract!ElectionInit
  BY <1>1 DEF P!ElectionInit, Abstract!ElectionInit
<1>3. \A m, e : P!Leave(m, e) <=> Abstract!Leave(m, e)
  BY DEF P!Leave, Abstract!Leave
<1>4. \A m, q : P!Win(m, q) <=> Abstract!Win(m, q)
  BY SameMajority DEF P!Win, Abstract!Win
<1>5. \A m, c : P!Follow(m, c) <=> Abstract!Follow(m, c)
  BY DEF P!Follow, Abstract!Follow
<1>6. P!ElectionNext <=> Abstract!ElectionNext
  BY <1>1, <1>3, <1>4, <1>5 DEF P!ElectionNext, Abstract!ElectionNext
<1>7. P!electionVars = Abstract!electionVars /\ P!electionVars' = Abstract!electionVars'
  BY DEF P!electionVars, Abstract!electionVars
<1> QED
  BY <1>2, <1>6, <1>7

LEMMA AbstractProofs == ImplementsElection => P!ElectionSpec
<1>1. P!ElectionInit <=> Abstract!ElectionInit
  BY SameSteps
<1>2. [Abstract!ElectionNext]_(Abstract!electionVars) => [P!ElectionNext]_(P!electionVars)
  BY SameSteps
<1> QED
  BY <1>1, <1>2, PTL DEF ImplementsElection, Abstract!ElectionSpec, P!ElectionSpec

(* Of the victories that the monitors declare in one epoch, at most one is *)
(* followed by its whole quorum: handle_propose may ack several candidates *)
(* of an epoch, but receive_victory_claim accepts one victory in it.       *)
THEOREM UniqueEffectiveLeaderAlways == Spec => []UniqueEffectiveLeader
<1>1. P!NAssumption
  BY NAssumption DEF P!NAssumption
<1>2. P!MaxEpochAssumption
  BY BoundsAssumption DEF P!MaxEpochAssumption
<1>3. P!ElectionSpec => []P!UniqueEffectiveLeader
  BY <1>1, <1>2, P!UniqueEffectiveLeaderAlways, PTL
<1>4. P!UniqueEffectiveLeader => UniqueEffectiveLeader
  BY DEF UniqueEffectiveLeader, P!UniqueEffectiveLeader, Abstract!UniqueEffectiveLeader,
         P!Effective, Abstract!Effective
<1> QED
  BY <1>3, <1>4, Implements, AbstractProofs, PTL

(* Once a later victory is followed by its quorum, every earlier quorum    *)
(* has a member that has moved on: the old leader's Paxos rounds, which    *)
(* need all of its quorum, stall.                                          *)
THEOREM OldQuorumBrokenAlways == Spec => []Abstract!OldQuorumBroken
<1>1. P!NAssumption
  BY NAssumption DEF P!NAssumption
<1>2. P!MaxEpochAssumption
  BY BoundsAssumption DEF P!MaxEpochAssumption
<1>3. P!ElectionSpec => []P!OldQuorumBroken
  BY <1>1, <1>2, P!OldQuorumBrokenAlways, PTL
<1>4. P!OldQuorumBroken => Abstract!OldQuorumBroken
  BY DEF P!OldQuorumBroken, Abstract!OldQuorumBroken, P!Effective, Abstract!Effective
<1> QED
  BY <1>3, <1>4, Implements, AbstractProofs, PTL

----------------------------------------------------------------------------
(* A monitor without the required features leads nobody: what is inductive *)
(* about that, next to the invariant above.                                *)

Lacking == LacksConn \union LacksMon

(* The epochs in which l takes acks: the one that it takes part in; epoch  *)
(* 1, which is not stored and may be entered again, is left out.           *)
Live(l) == {e \in Nat : e > 1 /\ dispatches(l) /\ mon[l].epoch = e}

(* Every ack of an epoch in E comes after the nak of that epoch.           *)
Covered(q, E) ==
    \A k \in 1 .. Len(q) :
        q[k].op = "ack" /\ q[k].epoch \in E => \E h \in 1 .. k - 1 : q[h] = Nak(q[k].epoch)

(* Nobody has acked l yet.                                                 *)
Alone(l, s) == s.electing_me /\ s.epoch > 1 => s.acked_me = {l}

NaksFirst == \A i \in Mon, l \in Lacking : Covered(net[i][l], Live(l))

Unled ==
    /\ \A c \in claims : c.leader \in Lacking => c.epoch <= 2
    /\ \A f \in follows : f.leader \in Lacking => f.epoch <= 2

FeatureInv ==
    /\ \A l \in Lacking : Alone(l, mon[l])
    /\ NaksFirst
    /\ Unled

LEMMA LackingMon == Lacking \subseteq Mon
BY BoundsAssumption DEF Lacking, Mon

----------------------------------------------------------------------------
(* What keeps a queue covered.                                             *)

LEMMA CoveredTail ==
  ASSUME NEW q \in Seq(Message), q # <<>>, NEW E, Covered(q, E),
         Head(q).op = "nak" => Head(q).epoch \notin E
  PROVE  Covered(Tail(q), E)
<1> DEFINE t == Tail(q)
<1>1. /\ t \in Seq(Message) /\ Len(q) \in Nat \ {0} /\ Len(t) = Len(q) - 1
      /\ Head(q) = q[1]
      /\ \A k \in 1 .. Len(t) : t[k] = q[k + 1]
  BY HeadTailProperties, LenProperties, EmptySeq
<1> HIDE DEF t
<1> SUFFICES ASSUME NEW k \in 1 .. Len(t), t[k].op = "ack", t[k].epoch \in E
             PROVE  \E h \in 1 .. k - 1 : t[h] = Nak(t[k].epoch)
  BY DEF Covered, t
<1>2. k + 1 \in 1 .. Len(q) /\ q[k + 1] = t[k]
  BY <1>1
<1>3. PICK h \in 1 .. (k + 1) - 1 : q[h] = Nak(t[k].epoch)
  BY <1>2 DEF Covered
<1>4. h # 1
  <2>1. Nak(t[k].epoch).op = "nak" /\ Nak(t[k].epoch).epoch = t[k].epoch
    BY DEF Nak
  <2> QED
    BY <1>1, <1>3, <2>1
<1>5. h - 1 \in 1 .. k - 1 /\ h - 1 \in 1 .. Len(t) /\ (h - 1) + 1 = h
  BY <1>1, <1>3, <1>4
<1>6. t[h - 1] = Nak(t[k].epoch)
  BY <1>1, <1>3, <1>5
<1> QED
  BY <1>5, <1>6

LEMMA CoveredAppend ==
  ASSUME NEW q \in Seq(Message), NEW E, Covered(q, E), NEW x \in Message,
         x.op = "ack" => x.epoch \notin E \/ \E h \in 1 .. Len(q) : q[h] = Nak(x.epoch)
  PROVE  Covered(Append(q, x), E)
<1> DEFINE t == Append(q, x)
<1>1. /\ Len(q) \in Nat /\ Len(t) = Len(q) + 1
      /\ \A k \in 1 .. Len(q) : t[k] = q[k]
      /\ t[Len(q) + 1] = x
  BY AppendProperties, LenProperties
<1> HIDE DEF t
<1> SUFFICES ASSUME NEW k \in 1 .. Len(t), t[k].op = "ack", t[k].epoch \in E
             PROVE  \E h \in 1 .. k - 1 : t[h] = Nak(t[k].epoch)
  BY DEF Covered, t
<1>2. CASE k \in 1 .. Len(q)
  <2>1. PICK h \in 1 .. k - 1 : q[h] = Nak(q[k].epoch)
    BY <1>1, <1>2 DEF Covered
  <2>2. h \in 1 .. Len(q)
    BY <1>1, <1>2, <2>1
  <2> QED
    BY <1>1, <1>2, <2>1, <2>2
<1>3. CASE k = Len(q) + 1
  <2>1. PICK h \in 1 .. Len(q) : q[h] = Nak(x.epoch)
    BY <1>1, <1>3
  <2>2. h \in 1 .. k - 1
    BY <1>1, <1>3, <2>1
  <2> QED
    BY <1>1, <1>3, <2>1, <2>2
<1> QED
  BY <1>1, <1>2, <1>3

(* Every queue of the network n to a monitor that lacks features will be   *)
(* covered.                                                                *)
Clean(n) ==
    /\ n \in Network
    /\ \A i \in Mon, l \in Lacking : Covered(n[i][l], Live(l)')

(* An epoch that is live after a step, and that an ack in flight is of,    *)
(* was live before it.                                                     *)
LEMMA NetClean ==
  ASSUME Inv, FeatureInv, Reenter
  PROVE  Clean(net)
<1>1. net \in Network
  BY DEF Inv
<1>2. ASSUME NEW i \in Mon, NEW l \in Lacking PROVE Covered(net[i][l], Live(l)')
  <2>1. PICK q : q = net[i][l]
    OBVIOUS
  <2>2. l \in Mon /\ Covered(q, Live(l))
    BY <2>1, LackingMon DEF FeatureInv, NaksFirst
  <2>3. ASSUME NEW k \in 1 .. Len(q), q[k].op = "ack", q[k].epoch \in Live(l)'
        PROVE  q[k].epoch \in Live(l)
    <3>1. q[k] \in Flight(net, i, l)
      BY <2>1 DEF Flight
    <3>2. q[k].epoch <= Reached(mon[l])
      BY <2>2, <2>3, <3>1 DEF Inv, MessageOK, AckOK
    <3>3. /\ q[k].epoch \in Nat /\ q[k].epoch > 1 /\ mon'[l].epoch = q[k].epoch
          /\ mon'[l].state \in Dispatching /\ mon'[l].participating
      BY <2>3 DEF Live, dispatches, Dispatching
    <3>4. Reached(mon[l]) \in Nat
      BY <2>2, RecordFields DEF Inv
    <3>5. Reenters(l, mon'[l])
      BY <2>2 DEF Reenter
    <3>6. dispatches(l) /\ mon[l].epoch = q[k].epoch
      BY <3>2, <3>3, <3>4, <3>5 DEF Reenters
    <3> QED
      BY <3>3, <3>6 DEF Live
  <2>4. Covered(q, Live(l)')
    BY <2>2, <2>3 DEF Covered
  <2> QED
    BY <2>1, <2>4
<1> QED
  BY <1>1, <1>2 DEF Clean

LEMMA ConsumedQueues ==
  ASSUME net \in Network, NEW from \in Mon, NEW m \in Mon, net[from][m] # <<>>
  PROVE  /\ Consumed(from, m) \in Network
         /\ \A i, j \in Mon : Consumed(from, m)[i][j] =
                IF i = from /\ j = m THEN Tail(net[i][j]) ELSE net[i][j]
<1>1. Consumed(from, m) \in Network
  BY ConsumedHarmless DEF Harmless
<1>2. Consumed(from, m) = [net EXCEPT ![from] = [net[from] EXCEPT ![m] = Tail(net[from][m])]]
  BY DEF Consumed, Network
<1> QED
  BY <1>1, <1>2 DEF Network

LEMMA ConsumedClean ==
  ASSUME Clean(net), NEW from \in Mon, NEW m \in Mon, net[from][m] # <<>>,
         Head(net[from][m]).op = "nak" => Head(net[from][m]).epoch \notin Live(m)'
  PROVE  Clean(Consumed(from, m))
<1> DEFINE n == Consumed(from, m)
<1>1. /\ net \in Network /\ n \in Network
      /\ \A i, j \in Mon : n[i][j] = IF i = from /\ j = m THEN Tail(net[i][j]) ELSE net[i][j]
  BY ConsumedQueues DEF Clean
<1> HIDE DEF n
<1>2. ASSUME NEW i \in Mon, NEW l \in Lacking PROVE Covered(n[i][l], Live(l)')
  <2>1. l \in Mon /\ Covered(net[i][l], Live(l)') /\ net[i][l] \in Seq(Message)
    BY <1>1, LackingMon DEF Clean, Network
  <2>2. CASE i = from /\ l = m
    <3>1. PICK E : E = Live(l)'
      OBVIOUS
    <3>2. Covered(Tail(net[i][l]), E)
      BY <2>1, <2>2, <3>1, CoveredTail
    <3> QED
      BY <1>1, <2>1, <2>2, <3>1, <3>2
  <2>3. CASE ~(i = from /\ l = m)
    BY <1>1, <2>1, <2>3
  <2> QED
    BY <2>2, <2>3
<1> QED
  BY <1>1, <1>2 DEF Clean, n

(* With synchrony nothing is queued for a monitor that is down.            *)
Reachable(j) == ~(Synchronous /\ mon[j].state = "down")

LEMMA SentQueues ==
  ASSUME NEW n \in Network, NEW m \in Mon, NEW dests, NEW msg \in Message
  PROVE  /\ Sent(n, m, dests, msg) \in Network
         /\ \A i, j \in Mon : Sent(n, m, dests, msg)[i][j] =
                IF i = m /\ j \in dests /\ Reachable(j) THEN Append(n[i][j], msg) ELSE n[i][j]
<1> DEFINE t == Sent(n, m, dests, msg)
           lost == {j \in Mon : Synchronous /\ mon[j].state = "down"}
           row == [j \in Mon |-> IF j \in dests \ lost THEN Append(n[m][j], msg) ELSE n[m][j]]
<1>1. t \in Network
  BY SentFlight
<1>2. t = [n EXCEPT ![m] = row]
  BY DEF Sent
<1>3. \A i \in Mon : t[i] = IF i = m THEN row ELSE n[i]
  BY <1>2 DEF Network
<1>4. \A j \in Mon : row[j] = IF j \in dests /\ Reachable(j) THEN Append(n[m][j], msg)
                              ELSE n[m][j]
  BY DEF Reachable
<1> HIDE DEF row
<1> QED
  BY <1>1, <1>3, <1>4

LEMMA SentClean ==
  ASSUME NEW n, Clean(n), NEW m \in Mon, NEW dests, NEW msg \in Message,
         msg.op = "ack" => \A l \in dests \cap Lacking :
             Reachable(l) => \E h \in 1 .. Len(n[m][l]) : n[m][l][h] = Nak(msg.epoch)
  PROVE  Clean(Sent(n, m, dests, msg))
<1> DEFINE t == Sent(n, m, dests, msg)
<1>1. /\ n \in Network /\ t \in Network
      /\ \A i, j \in Mon : t[i][j] = IF i = m /\ j \in dests /\ Reachable(j)
                                     THEN Append(n[i][j], msg) ELSE n[i][j]
  BY SentQueues DEF Clean
<1> HIDE DEF t
<1>2. ASSUME NEW i \in Mon, NEW l \in Lacking PROVE Covered(t[i][l], Live(l)')
  <2>1. l \in Mon /\ Covered(n[i][l], Live(l)') /\ n[i][l] \in Seq(Message)
    BY <1>1, LackingMon DEF Clean, Network
  <2>2. CASE i = m /\ l \in dests /\ Reachable(l)
    <3>1. PICK E : E = Live(l)'
      OBVIOUS
    <3>2. PICK q : q = n[i][l]
      OBVIOUS
    <3>3. q \in Seq(Message) /\ Covered(q, E)
          /\ (msg.op = "ack" => \E h \in 1 .. Len(q) : q[h] = Nak(msg.epoch))
      BY <2>1, <2>2, <3>1, <3>2
    <3>4. Covered(Append(q, msg), E)
      BY <3>3, CoveredAppend
    <3>5. t[i][l] = Append(q, msg)
      BY <1>1, <2>1, <2>2, <3>2
    <3> QED
      BY <3>1, <3>4, <3>5
  <2>3. CASE ~(i = m /\ l \in dests /\ Reachable(l))
    BY <1>1, <2>1, <2>3
  <2> QED
    BY <2>2, <2>3
<1> QED
  BY <1>1, <1>2 DEF Clean, t

(* handle_propose naks before it acks.                                     *)
LEMMA NakThenAck ==
  ASSUME NEW n, Clean(n), NEW m \in Mon, NEW from \in Mon, NEW e \in Nat
  PROVE  LET naked == Sent(n, m, {from}, Nak(e)) IN
         /\ Clean(naked)
         /\ Clean(Sent(naked, m, {from}, Ack(e)))
         /\ from \notin Lacking => Clean(Sent(n, m, {from}, Ack(e)))
<1> DEFINE naked == Sent(n, m, {from}, Nak(e))
<1>1. /\ Nak(e) \in Message /\ Nak(e).op = "nak"
      /\ Ack(e) \in Message /\ Ack(e).op = "ack" /\ Ack(e).epoch = e
  BY DEF Nak, Ack, Message
<1>2. Clean(naked)
  BY <1>1, SentClean
<1>3. ASSUME Reachable(from)
      PROVE  \E h \in 1 .. Len(naked[m][from]) : naked[m][from][h] = Nak(e)
  <2>1. PICK q : q = n[m][from]
    OBVIOUS
  <2>2. q \in Seq(Message) /\ naked[m][from] = Append(q, Nak(e))
    <3>1. n \in Network
      BY DEF Clean
    <3>2. \A i, j \in Mon : naked[i][j] =
              IF i = m /\ j \in {from} /\ Reachable(j) THEN Append(n[i][j], Nak(e)) ELSE n[i][j]
      BY <1>1, <3>1, SentQueues
    <3> HIDE DEF naked
    <3> QED
      BY <1>3, <2>1, <3>1, <3>2 DEF Network
  <2>3. Len(Append(q, Nak(e))) = Len(q) + 1 /\ Append(q, Nak(e))[Len(q) + 1] = Nak(e)
        /\ Len(q) \in Nat
    BY <1>1, <2>2, AppendProperties, LenProperties
  <2>4. Len(q) + 1 \in 1 .. Len(Append(q, Nak(e)))
    BY <2>3
  <2> QED
    BY <2>2, <2>3, <2>4
<1> HIDE DEF naked
<1>4. \A l \in {from} \cap Lacking :
          Reachable(l) => \E h \in 1 .. Len(naked[m][l]) : naked[m][l][h] = Nak(Ack(e).epoch)
  BY <1>1, <1>3
<1>5. Clean(Sent(naked, m, {from}, Ack(e)))
  BY <1>1, <1>2, <1>4, SentClean
<1>6. from \notin Lacking => Clean(Sent(n, m, {from}, Ack(e)))
  BY <1>1, SentClean
<1> QED
  BY <1>2, <1>5, <1>6 DEF naked

----------------------------------------------------------------------------
(* The actions.                                                            *)

LEMMA AloneStart ==
  ASSUME NEW m \in Mon, NEW s \in MonRecord,
         s.state \in {"leader", "peon"} => s.stored # 0
  PROVE  start(m, s).epoch \in Nat /\ (Alone(m, s) => Alone(m, start(m, s)))
<1>1. CASE s.participating
  <2>1. PICK t : t = start(m, s)
    OBVIOUS
  <2>2. t \in MonRecord /\ t.acked_me = {m}
    BY <1>1, <2>1, StartCampaigns DEF Local
  <2>3. t.epoch \in Nat
    BY <2>2, RecordFields
  <2> QED
    BY <2>1, <2>2, <2>3 DEF Alone
<1>2. CASE ~s.participating
  BY <1>2, RecordFields DEF start
<1> QED
  BY <1>1, <1>2

LEMMA AloneStartElection ==
  ASSUME NEW m \in Mon, NEW s \in MonRecord
  PROVE  /\ start_election(m, s).epoch \in Nat
         /\ Alone(m, s) => Alone(m, start_election(m, s))
<1>1. PICK j : j = join_election(s)
  OBVIOUS
<1>2. j \in MonRecord /\ (Alone(m, s) => Alone(m, j)) /\ j.state = "electing"
  BY <1>1, JoinFields DEF Alone
<1>3. start(m, j).epoch \in Nat /\ (Alone(m, j) => Alone(m, start(m, j)))
  BY <1>2, AloneStart
<1> QED
  BY <1>1, <1>2, <1>3 DEF start_election

(* m goes on as s, with a clean network and no new victory.                *)
LEMMA FeatureStep ==
  ASSUME Inv, FeatureInv, NEW m \in Mon, NEW s, mon' = [mon EXCEPT ![m] = s],
         m \in Lacking => Alone(m, s), Clean(net'), Unled'
  PROVE  FeatureInv'
<1>1. ASSUME NEW l \in Lacking PROVE Alone(l, mon'[l])
  <2>1. l \in Mon /\ mon'[l] = IF l = m THEN s ELSE mon[l]
    BY LackingMon DEF Inv
  <2> QED
    BY <2>1 DEF FeatureInv
<1>2. NaksFirst'
  BY DEF Clean, NaksFirst, Lacking
<1> QED
  BY <1>1, <1>2 DEF FeatureInv, Lacking, Alone

LEMMA BecomeFeature ==
  ASSUME Inv, FeatureInv, NEW m \in Mon, NEW s, NEW n, Become(m, s, n),
         m \in Lacking => Alone(m, s), Clean(n)
  PROVE  FeatureInv'
<1>1. /\ mon' = [mon EXCEPT ![m] = s] /\ net' = n
      /\ claims' = claims /\ follows' = follows
  BY DEF Become, NoHistory
<1>2. Unled'
  BY <1>1 DEF FeatureInv, Unled, Lacking
<1> QED
  BY <1>1, <1>2, FeatureStep

LEMMA CampaignFeature ==
  ASSUME Inv, FeatureInv, NEW m \in Mon, NEW s, NEW n, Campaign(m, s, n),
         s.epoch \in Nat, m \in Lacking => Alone(m, s), Clean(n)
  PROVE  FeatureInv'
<1>1. PICK msg : msg = Propose(s.epoch)
  OBVIOUS
<1>2. msg \in Message /\ msg.op = "propose"
  BY <1>1 DEF Propose, Message
<1>3. Clean(Sent(n, m, Mon \ {m}, msg))
  BY <1>2, SentClean
<1>4. Become(m, s, n) \/ Become(m, s, Sent(n, m, Mon \ {m}, msg))
  BY <1>1 DEF Campaign
<1> QED
  BY <1>3, <1>4, BecomeFeature

(* Nobody wins alone.                                                      *)
LEMMA NoLoneMajority ==
  ASSUME NEW m \in Mon
  PROVE  ~IsMajority({m}) /\ {m} # Mon
<1>1. Cardinality({m}) = 1
  BY FS_Singleton
<1>2. N \in Nat /\ N >= 2 /\ N \div 2 >= 1
  BY NAssumption
<1>3. Cardinality(Mon) = N
  BY MonFinite
<1> QED
  BY <1>1, <1>2, <1>3 DEF IsMajority

LEMMA VictoryFeature ==
  ASSUME Inv, FeatureInv, NEW m \in Mon, NEW s \in MonRecord, NEW n, DeclareVictory(m, s, n),
         m \in Lacking => s.epoch <= 1, Clean(n)
  PROVE  FeatureInv'
<1> DEFINE q == s.acked_me
           e == s.epoch + 1
           w == declare_victory(m, s)
<1>1. q \in SUBSET Mon /\ s.epoch \in Nat /\ e \in Nat
  <2>1. q \in SUBSET Mon /\ s.epoch \in Nat
    BY RecordFields
  <2> QED
    BY <2>1
<1>2. w.epoch = e /\ w.quorum = q /\ w.electing_me = FALSE
  <2> DEFINE a == [s EXCEPT !.leader_acked = None, !.electing_me = FALSE]
             b == bump_epoch(a, e)
  <2>1. a \in MonRecord
    BY DEF MonRecord
  <2> HIDE DEF a
  <2>2. b \in MonRecord /\ b.epoch = e /\ b.electing_me = FALSE
    BY <1>1, <2>1, BumpFields
  <2>3. w = [b EXCEPT !.expire_event = 0, !.state = "leader", !.leader = m, !.quorum = q]
    BY <2>2 DEF declare_victory, win_election, a, MonRecord
  <2> HIDE DEF b, w, e, q
  <2> QED
    BY <2>2, <2>3 DEF MonRecord
<1> DEFINE c == [epoch |-> e, leader |-> m, quorum |-> q]
           f == [mon |-> m, epoch |-> e, leader |-> m]
<1>3. /\ mon' = [mon EXCEPT ![m] = w]
      /\ net' = Sent(n, m, q \ {m}, Victory(e, q))
      /\ claims' = claims \union {c} /\ follows' = follows \union {f}
  BY <1>2 DEF DeclareVictory
<1>4. Victory(e, q) \in Message /\ Victory(e, q).op = "victory"
  BY <1>1 DEF Victory, Message
<1> HIDE DEF w
<1>5. Clean(net')
  <2>1. PICK msg : msg = Victory(e, q)
    OBVIOUS
  <2>2. Clean(Sent(n, m, q \ {m}, msg))
    BY <1>4, <2>1, SentClean
  <2> QED
    BY <1>3, <2>1, <2>2
<1>6. c.leader = m /\ c.epoch = e /\ f.leader = m /\ f.epoch = e
  OBVIOUS
<1>7. m \in Lacking => e <= 2
  BY <1>1
<1> HIDE DEF c, f, e
<1>8. Unled'
  BY <1>3, <1>6, <1>7 DEF FeatureInv, Unled, Lacking
<1> QED
  BY <1>2, <1>3, <1>5, <1>8, FeatureStep DEF Alone

LEMMA ProposeFeature ==
  ASSUME Inv, FeatureInv, Clean(net), NEW m \in Mon, NEW from \in Mon, dispatches(m),
         net[from][m] # <<>>, handle_propose(m, from)
  PROVE  FeatureInv'
<1>1. PICK msg : msg = Head(net[from][m])
  OBVIOUS
<1>2. PICK e : e = msg.epoch
  OBVIOUS
<1>3. PICK n : n = Consumed(from, m)
  OBVIOUS
<1>4. PICK naked : naked = Sent(n, m, {from}, Nak(e))
  OBVIOUS
<1>5. msg.op = "propose" /\ e \in Nat
  BY <1>1, <1>2, MessageTaken DEF handle_propose
<1>6. Clean(n)
  BY <1>1, <1>3, <1>5, ConsumedClean
<1>7. /\ Clean(naked) /\ Clean(Sent(naked, m, {from}, Ack(e)))
      /\ from \notin Lacking => Clean(Sent(n, m, {from}, Ack(e)))
  BY <1>4, <1>5, <1>6, NakThenAck
<1>8. PICK s : s = mon[m]
  OBVIOUS
<1>9. s \in MonRecord /\ s.epoch \in Nat /\ (m \in Lacking => Alone(m, s))
  BY <1>8, RecordFields DEF Inv, FeatureInv
<1>10. CASE Become(m, s, naked)
  BY <1>7, <1>9, <1>10, BecomeFeature
<1>11. ASSUME NEW k, Clean(k), Clean(Sent(k, m, {from}, Ack(e))),
              receive_propose(m, from, e, s, k)
       PROVE  FeatureInv'
  <2>1. PICK b : b = IF e > s.epoch THEN bump_epoch(s, e) ELSE s
    OBVIOUS
  <2>2. b \in MonRecord /\ (Alone(m, s) => Alone(m, b)) /\ (e >= s.epoch => b.epoch = e)
    <3>1. CASE e > s.epoch
      BY <1>5, <1>9, <2>1, <3>1, BumpFields DEF Alone
    <3>2. CASE ~(e > s.epoch)
      BY <1>5, <1>9, <2>1, <3>2
    <3> QED
      BY <3>1, <3>2
  <2>3. \/ Become(m, s, k)
        \/ Campaign(m, start_election(m, s), k)
        \/ Campaign(m, start_election(m, b), k)
        \/ Become(m, b, k)
        \/ e >= s.epoch /\ Become(m, defer(b, from), Sent(k, m, {from}, Ack(b.epoch)))
    BY <1>11, <2>1 DEF receive_propose
  <2>4. ASSUME NEW t \in MonRecord, m \in Lacking => Alone(m, t),
               Campaign(m, start_election(m, t), k)
        PROVE  FeatureInv'
    <3>1. PICK u : u = start_election(m, t)
      OBVIOUS
    <3>2. u.epoch \in Nat /\ (m \in Lacking => Alone(m, u))
      BY <2>4, <3>1, AloneStartElection
    <3> QED
      BY <1>11, <2>4, <3>1, <3>2, CampaignFeature
  <2>5. CASE e >= s.epoch /\ Become(m, defer(b, from), Sent(k, m, {from}, Ack(b.epoch)))
    <3>1. PICK t : t = defer(b, from)
      OBVIOUS
    <3>2. Alone(m, t)
      BY <2>2, <3>1, DeferFields DEF Alone
    <3>3. PICK r : r = Sent(k, m, {from}, Ack(e))
      OBVIOUS
    <3>4. Become(m, t, r) /\ Clean(r)
      BY <1>11, <2>2, <2>5, <3>1, <3>3
    <3> QED
      BY <3>2, <3>4, BecomeFeature
  <2> QED
    BY <1>9, <1>11, <2>2, <2>3, <2>4, <2>5, BecomeFeature
<1>12. \/ Become(m, s, naked)
       \/ /\ from \in LacksMon
          /\ receive_propose(m, from, e, s, naked)
       \/ /\ from \notin Lacking
          /\ receive_propose(m, from, e, s, n)
  BY <1>1, <1>2, <1>3, <1>4, <1>8 DEF handle_propose, Lacking
<1> QED
  BY <1>6, <1>7, <1>10, <1>11, <1>12

(* The ack of a live epoch that no nak precedes does not exist.            *)
LEMMA AckFeature ==
  ASSUME Inv, FeatureInv, Clean(net), NEW m \in Mon, NEW from \in Mon, dispatches(m),
         net[from][m] # <<>>, handle_ack(m, from)
  PROVE  FeatureInv'
<1>1. PICK msg : msg = Head(net[from][m])
  OBVIOUS
<1>2. PICK n : n = Consumed(from, m)
  OBVIOUS
<1>3. PICK o : o = mon[m]
  OBVIOUS
<1>4. PICK s : s = [o EXCEPT !.acked_me = o.acked_me \union {from}]
  OBVIOUS
<1>5. /\ msg.op = "ack" /\ msg.epoch \in Nat /\ msg.epoch >= o.epoch
      /\ AckOK(from, m, msg)
  BY <1>1, <1>3, MessageTaken DEF handle_ack, MessageOK
<1>6. Clean(n)
  BY <1>1, <1>2, <1>5, ConsumedClean
<1>7. o \in MonRecord /\ o.epoch = Reached(o) /\ o.epoch \in Nat
      /\ (m \in Lacking => Alone(m, o))
  BY <1>3, DispatchingFacts DEF Inv, FeatureInv
<1>8. m \in Lacking => o.epoch <= 1
  <2>1. msg.epoch = o.epoch
    BY <1>3, <1>5, <1>7 DEF AckOK
  <2>2. PICK q : q = net[from][m]
    OBVIOUS
  <2>3. q \in Seq(Message) /\ q # <<>>
    BY <2>2 DEF Inv, Network
  <2>4. Len(q) \in Nat \ {0} /\ q[1] = msg
    BY <1>1, <2>2, <2>3, HeadTailProperties, LenProperties, EmptySeq
  <2>5. ASSUME m \in Lacking, msg.epoch \in Live(m) PROVE FALSE
    <3>1. Covered(q, Live(m))
      BY <2>2, <2>5 DEF FeatureInv, NaksFirst
    <3>2. 1 \in 1 .. Len(q) /\ 1 - 1 = 0
      BY <2>4
    <3>3. PICK h \in 1 .. 1 - 1 : q[h] = Nak(q[1].epoch)
      BY <1>5, <2>4, <2>5, <3>1, <3>2 DEF Covered
    <3> QED
      BY <3>3
  <2>6. o.epoch > 1 => msg.epoch \in Live(m)
    BY <1>3, <1>7, <2>1 DEF Live
  <2> QED
    BY <1>7, <2>5, <2>6
<1>9. s \in MonRecord /\ s.epoch = o.epoch
  <2>1. o.acked_me \union {from} \in SUBSET Mon
    BY <1>7, RecordFields
  <2> QED
    BY <1>4, <1>7, <2>1 DEF MonRecord
<1>10. Become(m, o, n) \/ DeclareVictory(m, s, n) \/ Become(m, s, n)
  BY <1>1, <1>2, <1>3, <1>4 DEF handle_ack
<1>11. m \in Lacking => Alone(m, s) /\ s.epoch <= 1
  BY <1>7, <1>8, <1>9 DEF Alone
<1> QED
  BY <1>6, <1>7, <1>9, <1>10, <1>11, BecomeFeature, VictoryFeature

LEMMA VictoryTakenFeature ==
  ASSUME Inv, FeatureInv, Clean(net), NEW m \in Mon, NEW from \in Mon, dispatches(m),
         net[from][m] # <<>>, handle_victory(m, from)
  PROVE  FeatureInv'
<1>1. PICK msg : msg = Head(net[from][m])
  OBVIOUS
<1>2. PICK n : n = Consumed(from, m)
  OBVIOUS
<1>3. PICK o : o = mon[m]
  OBVIOUS
<1>4. PICK b : b = bump_epoch([o EXCEPT !.leader_acked = None], msg.epoch)
  OBVIOUS
<1>5. msg.op = "victory" /\ msg.epoch \in Nat /\ VictoryOK(from, m, msg)
  BY <1>1, MessageTaken DEF handle_victory, MessageOK
<1>6. Clean(n)
  BY <1>1, <1>2, <1>5, ConsumedClean
<1>7. b \in MonRecord /\ b.electing_me = FALSE /\ b.state = "electing"
  <2> DEFINE a == [o EXCEPT !.leader_acked = None]
  <2>1. o \in MonRecord
    BY <1>3 DEF Inv
  <2>2. a \in MonRecord
    BY <2>1 DEF MonRecord
  <2> HIDE DEF a
  <2> QED
    BY <1>4, <1>5, <2>2, BumpFields DEF a
<1>8. Alone(m, b)
  BY <1>7 DEF Alone
<1>9. CASE Campaign(m, start(m, b), n)
  <2>1. PICK t : t = start(m, b)
    OBVIOUS
  <2>2. t.epoch \in Nat /\ Alone(m, t)
    BY <1>7, <1>8, <2>1, AloneStart
  <2> QED
    BY <1>6, <1>9, <2>1, <2>2, CampaignFeature
<1>10. CASE /\ mon' = [mon EXCEPT ![m] = [lose_election(b, msg.quorum, from)
                                            EXCEPT !.expire_event = 0]]
            /\ net' = n /\ claims' = claims
            /\ follows' = follows \union {[mon |-> m, epoch |-> msg.epoch, leader |-> from]}
  <2>1. PICK s : s = [lose_election(b, msg.quorum, from) EXCEPT !.expire_event = 0]
    OBVIOUS
  <2>2. s.electing_me = FALSE
    <3>1. s = [b EXCEPT !.state = "peon", !.leader = from, !.quorum = msg.quorum,
                        !.expire_event = 0]
      BY <1>7, <2>1 DEF lose_election, MonRecord
    <3> QED
      BY <1>7, <3>1 DEF MonRecord
  <2> DEFINE c == [epoch |-> msg.epoch, leader |-> from, quorum |-> msg.quorum]
             f == [mon |-> m, epoch |-> msg.epoch, leader |-> from]
  <2>3. c \in claims /\ c.epoch = msg.epoch /\ c.leader = from
        /\ f.epoch = msg.epoch /\ f.leader = from
    BY <1>5 DEF VictoryOK
  <2> HIDE DEF c
  <2>4. from \in Lacking => msg.epoch <= 2
    BY <2>3 DEF FeatureInv, Unled
  <2>5. follows' = follows \union {f} /\ claims' = claims
    BY <1>10
  <2> HIDE DEF f
  <2>6. Unled'
    BY <2>3, <2>4, <2>5 DEF FeatureInv, Unled, Lacking
  <2> QED
    BY <1>6, <1>10, <2>1, <2>2, <2>6, FeatureStep DEF Alone
<1>11. \/ Campaign(m, start(m, b), n)
       \/ /\ mon' = [mon EXCEPT ![m] = [lose_election(b, msg.quorum, from)
                                          EXCEPT !.expire_event = 0]]
          /\ net' = n /\ claims' = claims
          /\ follows' = follows \union {[mon |-> m, epoch |-> msg.epoch, leader |-> from]}
  BY <1>1, <1>2, <1>3, <1>4 DEF handle_victory
<1> QED
  BY <1>9, <1>10, <1>11

(* Nobody is a candidate when it boots.                                    *)
LEMMA AloneBoot ==
  ASSUME NEW m \in Mon, NEW stored, NEW joined, NEW s, s.stored = stored,
         s.has_ever_joined = joined
  PROVE  /\ Alone(m, Exited(s)) /\ Exited(s).state = "down"
         /\ Alone(m, Boot(stored, joined))
<1>1. Boot(stored, joined).electing_me = FALSE
  BY DEF Boot
<1>2. Exited(s).electing_me = FALSE /\ Exited(s).state = "down"
  BY DEF Exited, Boot
<1> QED
  BY <1>1, <1>2 DEF Alone

LEMMA DispatchFeature ==
  ASSUME Inv, FeatureInv, Clean(net), NEW m \in Mon, NEW from \in Mon, dispatch(m, from)
  PROVE  FeatureInv'
<1>1. net[from][m] # <<>>
  BY DEF dispatch
<1>2. mon[m] \in MonRecord /\ mon[m].epoch \in Nat /\ mon \in [Mon -> MonRecord]
      /\ (m \in Lacking => Alone(m, mon[m]))
  BY RecordFields DEF Inv, FeatureInv
<1>3. CASE /\ Become(m, mon[m], Consumed(from, m))
           /\ dispatches(m) => Head(net[from][m]).epoch < mon[m].epoch
  <2>1. mon' = mon
    BY <1>2, <1>3 DEF Become
  <2>2. Head(net[from][m]).epoch \in Nat
    BY <1>1, MessageTaken
  <2>3. Head(net[from][m]).epoch \notin Live(m)'
    BY <1>2, <1>3, <2>1, <2>2 DEF Live, dispatches
  <2>4. Clean(Consumed(from, m))
    BY <1>1, <2>3, ConsumedClean
  <2> QED
    BY <1>2, <1>3, <2>4, BecomeFeature
<1>4. CASE Become(m, Exited(mon[m]), Consumed(from, m))
  <2>1. PICK t : t = Exited(mon[m])
    OBVIOUS
  <2>2. Alone(m, t) /\ t.state = "down"
    BY <2>1, AloneBoot
  <2>3. mon'[m] = t
    BY <1>2, <1>4, <2>1 DEF Become
  <2>4. Head(net[from][m]).epoch \notin Live(m)'
    BY <2>2, <2>3 DEF Live, dispatches
  <2>5. Clean(Consumed(from, m))
    BY <1>1, <2>4, ConsumedClean
  <2> QED
    BY <1>4, <2>1, <2>2, <2>5, BecomeFeature
<1>5. CASE dispatches(m) /\ handle_propose(m, from)
  BY <1>1, <1>5, ProposeFeature
<1>6. CASE dispatches(m) /\ handle_ack(m, from)
  BY <1>1, <1>6, AckFeature
<1>7. CASE dispatches(m) /\ handle_victory(m, from)
  BY <1>1, <1>7, VictoryTakenFeature
<1> QED
  BY <1>3, <1>4, <1>5, <1>6, <1>7 DEF dispatch, drop_old, handle_nak

LEMMA TickFeature ==
  ASSUME Inv, FeatureInv, Clean(net), tick
  PROVE  FeatureInv'
<1>1. mon \in [Mon -> MonRecord]
      /\ mon' = [m \in Mon |-> [mon[m] EXCEPT !.expire_event = IF @ > 1 THEN @ - 1 ELSE @]]
      /\ net' = net /\ claims' = claims /\ follows' = follows
  BY DEF Inv, tick
<1>2. ASSUME NEW l \in Lacking PROVE Alone(l, mon'[l])
  <2>1. PICK s : s = mon[l]
    OBVIOUS
  <2>2. PICK x : x = IF s.expire_event > 1 THEN s.expire_event - 1 ELSE s.expire_event
    OBVIOUS
  <2>3. s \in MonRecord /\ mon'[l] = [s EXCEPT !.expire_event = x] /\ Alone(l, s)
    BY <1>1, <2>1, <2>2, LackingMon DEF FeatureInv
  <2>4. mon'[l].electing_me = s.electing_me /\ mon'[l].epoch = s.epoch
        /\ mon'[l].acked_me = s.acked_me
    BY <2>3 DEF MonRecord
  <2> QED
    BY <2>3, <2>4 DEF Alone
<1>3. NaksFirst'
  BY <1>1 DEF Clean, NaksFirst, Lacking
<1>4. Unled'
  BY <1>1 DEF FeatureInv, Unled, Lacking
<1> QED
  BY <1>2, <1>3, <1>4 DEF FeatureInv, Lacking, Alone

LEMMA EndElectionPeriodFeature ==
  ASSUME Inv, FeatureInv, Clean(net), NEW m \in Mon, end_election_period(m)
  PROVE  FeatureInv'
<1>1. PICK o : o = mon[m]
  OBVIOUS
<1>2. PICK s : s = [o EXCEPT !.expire_event = 0]
  OBVIOUS
<1>3. o \in MonRecord /\ Local(m, o) /\ (m \in Lacking => Alone(m, o))
  BY <1>1 DEF Inv, FeatureInv
<1>4. /\ s \in MonRecord
      /\ s.epoch = o.epoch /\ s.stored = o.stored /\ s.state = o.state
      /\ s.electing_me = o.electing_me /\ s.acked_me = o.acked_me
  <2>1. 0 \in 0 .. ElectionTimeout + 1
    BY BoundsAssumption
  <2> QED
    BY <1>2, <1>3, <2>1 DEF MonRecord
<1>5. /\ s.state \in {"leader", "peon"} => s.stored # 0
      /\ m \in Lacking => Alone(m, s)
      /\ s.epoch \in Nat
  BY <1>3, <1>4, RecordFields DEF Local, Alone
<1>6. CASE s.electing_me /\ IsMajority(s.acked_me) /\ DeclareVictory(m, s, net)
  <2>1. m \in Lacking => s.epoch <= 1
    BY <1>5, <1>6, NoLoneMajority DEF Alone
  <2> QED
    BY <1>4, <1>6, <2>1, VictoryFeature
<1>7. CASE Campaign(m, start(m, s), net)
  <2>1. PICK t : t = start(m, s)
    OBVIOUS
  <2>2. t.epoch \in Nat /\ (m \in Lacking => Alone(m, t))
    BY <1>4, <1>5, <2>1, AloneStart
  <2> QED
    BY <1>7, <2>1, <2>2, CampaignFeature
<1>8. CASE Become(m, bootstrap(s), net)
  <2>1. PICK t : t = bootstrap(s)
    OBVIOUS
  <2>2. t.epoch = s.epoch /\ t.electing_me = s.electing_me /\ t.acked_me = s.acked_me
    BY <1>4, <2>1 DEF bootstrap, MonRecord
  <2>3. m \in Lacking => Alone(m, t)
    BY <1>5, <2>2 DEF Alone
  <2> QED
    BY <1>8, <2>1, <2>3, BecomeFeature
<1> QED
  BY <1>1, <1>2, <1>6, <1>7, <1>8 DEF end_election_period

LEMMA CommandFeature ==
  ASSUME Inv, FeatureInv, Clean(net), NEW m \in Mon,
         probe_done(m) \/ quorum_exit(m) \/ quorum_enter(m)
  PROVE  FeatureInv'
<1>1. PICK o : o = mon[m]
  OBVIOUS
<1>2. o \in MonRecord /\ (m \in Lacking => Alone(m, o))
  BY <1>1 DEF Inv, FeatureInv
<1>3. CASE probe_done(m)
  <2>1. PICK t : t = start_election(m, o)
    OBVIOUS
  <2>2. t.epoch \in Nat /\ (m \in Lacking => Alone(m, t))
    BY <1>2, <2>1, AloneStartElection
  <2> QED
    BY <1>1, <1>3, <2>1, <2>2, CampaignFeature DEF probe_done
<1>4. CASE quorum_enter(m)
  <2>1. PICK s : s = [o EXCEPT !.participating = TRUE]
    OBVIOUS
  <2>2. s \in MonRecord /\ s.epoch = o.epoch /\ s.electing_me = o.electing_me
        /\ s.acked_me = o.acked_me
    BY <1>2, <2>1 DEF MonRecord
  <2>3. PICK t : t = start_election(m, s)
    OBVIOUS
  <2>4. m \in Lacking => Alone(m, s)
    BY <1>2, <2>2 DEF Alone
  <2>5. t.epoch \in Nat /\ (m \in Lacking => Alone(m, t))
    BY <2>2, <2>3, <2>4, AloneStartElection
  <2> QED
    BY <1>1, <1>4, <2>1, <2>3, <2>5, CampaignFeature DEF quorum_enter
<1>5. CASE quorum_exit(m)
  <2>1. PICK s : s = start_election(m, o)
    OBVIOUS
  <2>2. PICK t : t = [s EXCEPT !.participating = FALSE]
    OBVIOUS
  <2>3. s \in MonRecord
    BY <1>1, <2>1, StartElection DEF Moves, Advances, Local
  <2>4. s.epoch \in Nat /\ (m \in Lacking => Alone(m, s))
    BY <1>2, <2>1, AloneStartElection
  <2>5. t.epoch = s.epoch /\ t.electing_me = s.electing_me /\ t.acked_me = s.acked_me
    BY <2>2, <2>3 DEF MonRecord
  <2>6. m \in Lacking => Alone(m, t)
    BY <2>4, <2>5 DEF Alone
  <2>7. PICK msg : msg = Propose(s.epoch)
    OBVIOUS
  <2>8. msg \in Message /\ msg.op = "propose"
    BY <2>4, <2>7 DEF Propose, Message
  <2>9. PICK n : n = Sent(net, m, Mon \ {m}, msg)
    OBVIOUS
  <2>10. Clean(n)
    BY <2>8, <2>9, SentClean
  <2>11. Become(m, t, n) \/ Become(m, t, net)
    BY <1>1, <1>5, <2>1, <2>2, <2>7, <2>9 DEF quorum_exit
  <2> QED
    BY <2>6, <2>10, <2>11, BecomeFeature
<1> QED
  BY <1>3, <1>4, <1>5

LEMMA AsideFeature ==
  ASSUME Inv, FeatureInv, Clean(net), NEW m \in Mon,
         paxos_timeout(m) \/ paxos_bootstrap(m) \/ on_active(m)
  PROVE  FeatureInv'
<1>1. PICK o : o = mon[m]
  OBVIOUS
<1>2. PICK t : (t = bootstrap(o) \/ t = [o EXCEPT !.has_ever_joined = TRUE])
                  /\ Become(m, t, net)
  BY <1>1 DEF paxos_timeout, paxos_bootstrap, on_active
<1>3. o \in MonRecord /\ (m \in Lacking => Alone(m, o))
  BY <1>1 DEF Inv, FeatureInv
<1>4. t.epoch = o.epoch /\ t.electing_me = o.electing_me /\ t.acked_me = o.acked_me
  BY <1>2, <1>3, AsideFields
<1>5. m \in Lacking => Alone(m, t)
  BY <1>3, <1>4 DEF Alone
<1> QED
  BY <1>2, <1>5, BecomeFeature

(* A session is lost as a whole, the naks with the acks.                   *)
LEMMA LostClean ==
  ASSUME Clean(net), NEW n \in Network,
         \A i, j \in Mon : n[i][j] = net[i][j] \/ n[i][j] = <<>>
  PROVE  Clean(n)
<1>1. ASSUME NEW i \in Mon, NEW l \in Lacking PROVE Covered(n[i][l], Live(l)')
  <2>1. l \in Mon /\ Covered(net[i][l], Live(l)')
    BY LackingMon DEF Clean
  <2>2. CASE n[i][l] = net[i][l]
    BY <2>1, <2>2
  <2>3. CASE n[i][l] = <<>>
    <3>1. Len(n[i][l]) = 0
      BY <2>3
    <3> QED
      BY <3>1 DEF Covered
  <2> QED
    BY <2>1, <2>2, <2>3
<1> QED
  BY <1>1 DEF Clean

LEMMA CrashFeature ==
  ASSUME Inv, FeatureInv, Clean(net), NEW m \in Mon, crash(m) \/ restart(m)
  PROVE  FeatureInv'
<1>1. net \in [Mon -> [Mon -> Seq(Message)]] /\ <<>> \in Seq(Message)
  BY DEF Inv, Network
<1>2. CASE crash(m)
  <2>1. PICK lost \in SUBSET (Mon \ {m}) :
            Become(m, Exited(mon[m]),
                   [net EXCEPT ![m] = [j \in Mon |-> IF j \in lost THEN <<>> ELSE @[j]]])
    BY <1>2 DEF crash
  <2> DEFINE row == [j \in Mon |-> IF j \in lost THEN <<>> ELSE net[m][j]]
  <2>2. PICK n : n = [net EXCEPT ![m] = row]
    OBVIOUS
  <2>3. PICK t : t = Exited(mon[m])
    OBVIOUS
  <2>4. Become(m, t, n) /\ Alone(m, t)
    BY <2>1, <2>2, <2>3, AloneBoot
  <2>5. row \in [Mon -> Seq(Message)]
    BY <1>1
  <2>6. n \in Network
    BY <1>1, <2>2, <2>5 DEF Network
  <2>7. \A i, j \in Mon : n[i][j] = net[i][j] \/ n[i][j] = <<>>
    BY <1>1, <2>2
  <2> QED
    BY <2>4, <2>6, <2>7, LostClean, BecomeFeature
<1>3. CASE restart(m)
  <2>1. PICK reset \in SUBSET (Mon \ {m}) :
            Become(m, Boot(mon[m].stored, mon[m].has_ever_joined),
                   [i \in Mon |-> IF i \in reset THEN [net[i] EXCEPT ![m] = <<>>] ELSE net[i]])
    BY <1>3 DEF restart
  <2>2. PICK n : n = [i \in Mon |-> IF i \in reset THEN [net[i] EXCEPT ![m] = <<>>] ELSE net[i]]
    OBVIOUS
  <2>3. PICK t : t = Boot(mon[m].stored, mon[m].has_ever_joined)
    OBVIOUS
  <2>4. Become(m, t, n) /\ Alone(m, t)
    BY <2>1, <2>2, <2>3, AloneBoot
  <2>5. \A i \in Mon : [net[i] EXCEPT ![m] = <<>>] \in [Mon -> Seq(Message)]
    BY <1>1
  <2>6. n \in Network
    BY <1>1, <2>2, <2>5 DEF Network
  <2>7. \A i, j \in Mon : n[i][j] = net[i][j] \/ n[i][j] = <<>>
    BY <1>1, <2>2
  <2> QED
    BY <2>4, <2>6, <2>7, LostClean, BecomeFeature
<1> QED
  BY <1>2, <1>3

----------------------------------------------------------------------------
(* Every behaviour.                                                        *)

LEMMA InitFeature ==
  ASSUME Init
  PROVE  FeatureInv
<1>1. ASSUME NEW l \in Lacking PROVE Alone(l, mon[l])
  <2>1. mon[l] = Boot(0, FALSE) \/ mon[l] = Boot(2, TRUE)
    BY LackingMon DEF Init
  <2> QED
    BY <2>1 DEF Boot, Alone
<1>2. NaksFirst
  <2>1. \A i \in Mon, l \in Lacking : net[i][l] = <<>>
    BY LackingMon DEF Init
  <2>2. \A i \in Mon, l \in Lacking : Len(net[i][l]) = 0
    BY <2>1
  <2> QED
    BY <2>2 DEF NaksFirst, Covered
<1>3. Unled
  BY DEF Init, Unled
<1> QED
  BY <1>1, <1>2, <1>3 DEF FeatureInv

LEMMA NextFeature ==
  ASSUME Inv, FeatureInv, [Next]_vars
  PROVE  FeatureInv'
<1>1. Clean(net)
  BY NextStep, NetClean DEF Lawful
<1>2. CASE UNCHANGED vars
  BY <1>2 DEF vars, FeatureInv, Lacking, Alone, NaksFirst, Live, dispatches, Unled
<1>3. CASE tick
  BY <1>1, <1>3, TickFeature
<1>4. ASSUME NEW m \in Mon, NEW from \in Mon, dispatch(m, from) PROVE FeatureInv'
  BY <1>1, <1>4, DispatchFeature
<1>5. ASSUME NEW m \in Mon, end_election_period(m) PROVE FeatureInv'
  BY <1>1, <1>5, EndElectionPeriodFeature
<1>6. ASSUME NEW m \in Mon, probe_done(m) \/ quorum_exit(m) \/ quorum_enter(m)
      PROVE  FeatureInv'
  BY <1>1, <1>6, CommandFeature
<1>7. ASSUME NEW m \in Mon, paxos_timeout(m) \/ paxos_bootstrap(m) \/ on_active(m)
      PROVE  FeatureInv'
  BY <1>1, <1>7, AsideFeature
<1>8. ASSUME NEW m \in Mon, crash(m) \/ restart(m) PROVE FeatureInv'
  BY <1>1, <1>8, CrashFeature
<1> QED
  BY <1>2, <1>3, <1>4, <1>5, <1>6, <1>7, <1>8 DEF Next, Progress, Environment

(* No monitor that lacks the required features declares victory or is      *)
(* followed, once the cluster is past its first election: handle_propose   *)
(* answers a proposal of such a monitor with a NAK before it goes on to    *)
(* ACK it, the session delivers them in this order, handle_nak exits, and  *)
(* the epoch of that ACK, which is stored, is never entered again.         *)
THEOREM LackingNeverLeadsAlways == Spec => []LackingNeverLeads
<1>1. Init => FeatureInv
  BY InitFeature
<1>2. Inv /\ FeatureInv /\ [Next]_vars => FeatureInv'
  BY NextFeature
<1>3. FeatureInv => LackingNeverLeads
  BY DEF LackingNeverLeads, FeatureInv, Unled, Lacking
<1> QED
  BY <1>1, <1>2, <1>3, Invariance, PTL DEF Spec
===========================================================================
