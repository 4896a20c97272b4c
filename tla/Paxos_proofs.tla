---------------------------- MODULE Paxos_proofs ----------------------------
(* Proofs about the monitors' Paxos: who may send what to whom in an epoch, *)
(* where the peers of a leader are in its rounds, that no assert on roles   *)
(* and rounds fails and that every wait is timed, for any number of         *)
(* monitors and all bounds.                                                 *)
EXTENDS Paxos, SequenceTheorems, FiniteSetTheorems, WellFoundedInduction, TLAPS

----------------------------------------------------------------------------
(* The inductive invariant.                                                *)

Role == {"probing", "electing", "leader", "peon"}
InQuorum == {"leader", "peon"}

LeaderOp == {"collect", "begin", "commit", "lease"}
ReplyOp == {"last", "accept", "lease_ack"}

(* Where a monitor stands in the elections; v[j] is the place of j in the  *)
(* view v.                                                                 *)
Place == [epoch : Nat, role : Role, leader : Mon \union {None}, quorum : SUBSET Mon,
          flushing : BOOLEAN]

At(j) == [epoch |-> epoch[j], role |-> role[j], leader |-> leader[j],
          quorum |-> quorum[j], flushing |-> flushing[j]]

View == [j \in Mon |-> At(j)]

(* w has dealt with the victory of i in epoch e: it is its peon, or will   *)
(* never take part in that epoch (again).                                  *)
Bound(w, i, e) ==
    \/ w.epoch > e
    \/ w.epoch = e /\ w.role # "leader" /\ (w.role = "peon" => w.leader = i)
    \/ w.epoch = e - 1 /\ w.role = "probing"

(* w has won epoch e with j in its quorum: it still leads, or has left.    *)
Leads(w, j, e) ==
    \/ w.epoch > e
    \/ w.epoch = e /\ w.role # "peon" /\ (w.role = "leader" => j \in w.quorum)

(* The victory of epoch e is in q before position k.                       *)
Announced(q, k, e) == \E h \in 1 .. k - 1 : q[h].op = "victory" /\ q[h].epoch = e

(* Quorums have even epochs.  (A leader that has been called to an         *)
(* election and still finishes a write sends messages of an odd one, which *)
(* nobody handles.)                                                        *)
MessageOK(v, q, k, i, j) ==
    LET msg == q[k]
        e == q[k].epoch
    IN  /\ i # j /\ e \in Nat /\ msg.op \in {"victory"} \union LeaderOp \union ReplyOp
        /\ msg.op = "victory" =>
               /\ e % 2 = 0 /\ v[j].epoch >= e - 1
               /\ msg.quorum \in SUBSET Mon /\ Leads(v[i], j, e)
        /\ msg.op \in LeaderOp /\ e % 2 = 0 => Announced(q, k, e) \/ Bound(v[j], i, e)
        /\ msg.op \in ReplyOp /\ e % 2 = 0 => Leads(v[j], i, e)

IsSeq(q) == Len(q) \in Nat /\ q = [k \in 1 .. Len(q) |-> q[k]]

(* Every peer of a leader has heard of its victory, or will before it      *)
(* hears anything else of that epoch.                                      *)
Told(v, q, i, j) ==
    v[i].role = "leader" /\ ~v[i].flushing /\ j \in v[i].quorum \ {i} =>
        Announced(q, Len(q) + 1, v[i].epoch) \/ Bound(v[j], i, v[i].epoch)

SessionOK(v, q, i, j) ==
    /\ IsSeq(q)
    /\ \A k \in 1 .. Len(q) : MessageOK(v, q, k, i, j)
    /\ Told(v, q, i, j)

NetOK(v, n) ==
    /\ n = [i \in Mon |-> [j \in Mon |-> n[i][j]]]
    /\ \A i, j \in Mon : SessionOK(v, n[i][j], i, j)

FirstHeard(v, n) ==
    \A i, j \in Mon :
        n[i][j] # <<>> /\ ~v[j].flushing => Heard(n[i][j][1], v[j].epoch, v[j].role)

PlaceOK(v, m) ==
    /\ v[m].role = "electing" => v[m].epoch % 2 = 1
    /\ v[m].flushing => v[m].role = "leader" /\ v[m].epoch % 2 = 1
    /\ v[m].role \in InQuorum /\ ~v[m].flushing => v[m].epoch % 2 = 0
    /\ v[m].role = "peon" => /\ v[m].leader \in Mon \ {m}
                             /\ Leads(v[v[m].leader], m, v[m].epoch)

IsMem(s) ==
    /\ DOMAIN s = {"state", "accepted_pn", "last_committed", "first_committed",
                   "uncommitted_v", "uncommitted_pn", "uncommitted_value", "num_last",
                   "peer_last_committed", "new_value", "accepted", "lease", "acked_lease",
                   "timers", "pending"}
    /\ s.state \in State
    /\ DOMAIN s.peer_last_committed = Mon

(* A monitor in a quorum has a timer armed, or is writing; and a timer that *)
(* is armed is one of m's role.                                            *)
TimedWait(r, s) ==
    /\ \A t \in s.timers : r = IF t = "lease" THEN "peon" ELSE "leader"
    /\ r = "peon" => "lease" \in s.timers
    /\ r = "leader" =>
           /\ s.state = "recovering" => "collect" \in s.timers
           /\ Updating(s) => "accept" \in s.timers
           /\ s.state = "active" => "lease_renew" \in s.timers

(* Only a leader writes, and it has only been answered by its peers.       *)
MemOK(w, m, s) ==
    /\ IsMem(s)
    /\ TimedWait(w.role, s)
    /\ Writing(s) => w.role = "leader"
    /\ \A p \in Mon : s.peer_last_committed[p] # None => p \in w.quorum \ {m}

Inv ==
    /\ View \in [Mon -> Place]
    /\ epoch \in [Mon -> Nat] /\ role \in [Mon -> Role] /\ flushing \in [Mon -> BOOLEAN]
    /\ leader \in [Mon -> Mon \union {None}] /\ quorum \in [Mon -> SUBSET Mon]
    /\ DOMAIN mem = Mon /\ DOMAIN store = Mon
    /\ NetOK(View, net)
    /\ FirstHeard(View, net)
    /\ \A m \in Mon : PlaceOK(View, m) /\ MemOK(View[m], m, mem[m])

----------------------------------------------------------------------------
(* Sequences.                                                              *)

LEMMA NatMin ==
  ASSUME NEW T \in SUBSET Nat, T # {}
  PROVE  \E x \in T : \A y \in T : x <= y
<1> DEFINE R == OpToRel(<, Nat)
<1>1. IsWellFoundedOn(R, Nat)
  BY NatLessThanWellFounded
<1>2. R = {ss \in Nat \X Nat : ss[1] < ss[2]}
  BY DEF OpToRel
<1> HIDE DEF R
<1>3. PICK x \in T : \A y \in T : ~ (<<y, x>> \in R)
  BY <1>1, WFMin
<1>4. ASSUME NEW y \in T PROVE x <= y
  <2>1. x \in Nat /\ y \in Nat
    OBVIOUS
  <2>2. y < x => <<y, x>> \in {ss \in Nat \X Nat : ss[1] < ss[2]}
    BY <2>1
  <2> QED
    BY <1>2, <1>3, <2>1, <2>2
<1> QED
  BY <1>4

LEMMA SeqIs ==
  ASSUME NEW q
  PROVE  IsSeq(q) <=> q \in Seq({q[k] : k \in 1 .. Len(q)})
<1> DEFINE S == {q[k] : k \in 1 .. Len(q)}
<1>1. ASSUME IsSeq(q) PROVE q \in Seq(S)
  <2>1. Len(q) \in Nat /\ q \in [1 .. Len(q) -> S]
    BY <1>1 DEF IsSeq
  <2> HIDE DEF S
  <2> QED
    BY <2>1, SeqDef
<1>2. ASSUME q \in Seq(S) PROVE IsSeq(q)
  <2> HIDE DEF S
  <2>1. Len(q) \in Nat /\ q \in [1 .. Len(q) -> S]
    BY <1>2, LenProperties
  <2> QED
    BY <2>1 DEF IsSeq
<1> QED
  BY <1>1, <1>2

LEMMA SeqOfIs ==
  ASSUME NEW S, NEW q \in Seq(S)
  PROVE  IsSeq(q)
<1>1. Len(q) \in Nat /\ q \in [1 .. Len(q) -> S]
  BY LenProperties
<1> QED
  BY <1>1 DEF IsSeq

LEMMA EmptyIs == IsSeq(<<>>) /\ Len(<<>>) = 0
<1>1. <<>> \in Seq({}) /\ Len(<<>>) = 0
  BY EmptySeq
<1> QED
  BY <1>1, SeqOfIs

LEMMA AppendIs ==
  ASSUME NEW q, IsSeq(q), NEW x
  PROVE  LET t == Append(q, x) IN
         /\ IsSeq(t) /\ Len(t) = Len(q) + 1 /\ t[Len(q) + 1] = x
         /\ \A k \in 1 .. Len(q) : t[k] = q[k]
<1> DEFINE S == {q[k] : k \in 1 .. Len(q)} \union {x}
<1>1. Len(q) \in Nat /\ q \in [1 .. Len(q) -> S]
  BY DEF IsSeq
<1>2. x \in S
  OBVIOUS
<1> HIDE DEF S
<1>3. q \in Seq(S)
  BY <1>1, SeqDef
<1>4. /\ Append(q, x) \in Seq(S) /\ Len(Append(q, x)) = Len(q) + 1
      /\ \A k \in 1 .. Len(q) : Append(q, x)[k] = q[k]
      /\ Append(q, x)[Len(q) + 1] = x
  BY <1>2, <1>3, AppendProperties
<1>5. IsSeq(Append(q, x))
  BY <1>4, SeqOfIs
<1> QED
  BY <1>4, <1>5

LEMMA ConcatIs ==
  ASSUME NEW q, IsSeq(q), NEW r, IsSeq(r)
  PROVE  LET t == q \o r IN
         /\ IsSeq(t) /\ Len(t) = Len(q) + Len(r)
         /\ \A k \in 1 .. Len(q) : t[k] = q[k]
         /\ \A k \in 1 .. Len(r) : t[Len(q) + k] = r[k]
<1> DEFINE S == {q[k] : k \in 1 .. Len(q)} \union {r[k] : k \in 1 .. Len(r)}
<1>1. /\ Len(q) \in Nat /\ q \in [1 .. Len(q) -> S]
      /\ Len(r) \in Nat /\ r \in [1 .. Len(r) -> S]
  BY DEF IsSeq
<1> HIDE DEF S
<1>2. q \in Seq(S) /\ r \in Seq(S)
  BY <1>1, SeqDef
<1>3. /\ q \o r \in Seq(S) /\ Len(q \o r) = Len(q) + Len(r)
      /\ \A k \in 1 .. Len(q) + Len(r) :
             (q \o r)[k] = IF k <= Len(q) THEN q[k] ELSE r[k - Len(q)]
  BY <1>2, ConcatProperties
<1>4. \A k \in 1 .. Len(r) : (q \o r)[Len(q) + k] = r[k]
  <2> SUFFICES ASSUME NEW k \in 1 .. Len(r) PROVE (q \o r)[Len(q) + k] = r[k]
    OBVIOUS
  <2>1. Len(q) + k \in 1 .. Len(q) + Len(r) /\ ~(Len(q) + k <= Len(q)) /\ (Len(q) + k) - Len(q) = k
    BY <1>1
  <2> QED
    BY <1>3, <2>1
<1>5. \A k \in 1 .. Len(q) : (q \o r)[k] = q[k]
  BY <1>1, <1>3
<1> QED
  BY <1>3, <1>4, <1>5, SeqOfIs

(* p is q without its first d elements.                                    *)
DropIs(p, q, d) ==
    /\ d \in 0 .. Len(q) /\ IsSeq(p) /\ Len(p) = Len(q) - d
    /\ \A k \in 1 .. Len(p) : p[k] = q[k + d]

LEMMA TailIs ==
  ASSUME NEW q, IsSeq(q), q # <<>>
  PROVE  DropIs(Tail(q), q, 1) /\ Len(q) >= 1 /\ Head(q) = q[1]
<1> DEFINE S == {q[k] : k \in 1 .. Len(q)}
<1>1. q \in Seq(S)
  BY SeqIs
<1> HIDE DEF S
<1>2. /\ Len(q) \in Nat /\ Len(q) # 0 /\ Tail(q) \in Seq(S) /\ Len(Tail(q)) = Len(q) - 1
      /\ Head(q) = q[1]
      /\ \A k \in 1 .. Len(Tail(q)) : Tail(q)[k] = q[k + 1]
  BY <1>1, HeadTailProperties, LenProperties, EmptySeq
<1>3. IsSeq(Tail(q))
  BY <1>2, SeqOfIs
<1> QED
  BY <1>2, <1>3 DEF DropIs

(* Only messages that are not heard are dropped, and the first one left is *)
(* heard.                                                                  *)
LEMMA PendingIs ==
  ASSUME NEW q, IsSeq(q), NEW e, NEW r
  PROVE  \E d \in 0 .. Len(q) :
            /\ DropIs(Pending(q, e, r), q, d)
            /\ \A k \in 1 .. d : ~Heard(q[k], e, r)
            /\ Pending(q, e, r) # <<>> => Heard(Pending(q, e, r)[1], e, r)
<1> DEFINE H == {k \in DOMAIN q : Heard(q[k], e, r)}
           p == Pending(q, e, r)
<1>1. Len(q) \in Nat /\ DOMAIN q = 1 .. Len(q)
  BY DEF IsSeq
<1>2. CASE H = {}
  <2>1. p = <<>>
    BY <1>2 DEF Pending
  <2>2. Len(q) \in 0 .. Len(q) /\ \A k \in 1 .. Len(q) : ~Heard(q[k], e, r)
    BY <1>1, <1>2
  <2>3. DropIs(p, q, Len(q))
    BY <1>1, <2>1, <2>2, EmptyIs DEF DropIs
  <2> QED
    BY <2>1, <2>2, <2>3
<1>3. CASE H # {}
  <2>1. H \in SUBSET Nat
    BY <1>1
  <2>2. PICK x \in H : \A y \in H : x <= y
    BY <1>3, <2>1, NatMin
  <2>3. Min(H) \in H /\ \A y \in H : Min(H) <= y
    BY <2>2 DEF Min
  <2>4. PICK a : a = Min(H)
    OBVIOUS
  <2>5. p = SubSeq(q, a, Len(q))
    BY <1>3, <2>4 DEF Pending
  <2>6. a \in 1 .. Len(q) /\ Heard(q[a], e, r)
    BY <1>1, <2>3, <2>4
  <2>7. \A k \in 1 .. a - 1 : ~Heard(q[k], e, r)
    <3> SUFFICES ASSUME NEW k \in 1 .. a - 1, Heard(q[k], e, r) PROVE FALSE
      OBVIOUS
    <3>1. k \in H
      BY <1>1, <2>6
    <3>2. a <= k
      BY <2>3, <2>4, <3>1
    <3> QED
      BY <1>1, <2>6, <3>2
  <2> HIDE DEF H, p
  <2>8. /\ IsSeq(p) /\ Len(p) = Len(q) - a + 1
        /\ \A k \in 1 .. Len(p) : p[k] = q[a + k - 1]
    <3> DEFINE S == {q[k] : k \in 1 .. Len(q)}
    <3>1. q \in Seq(S)
      BY SeqIs
    <3> HIDE DEF S
    <3>2. \A k \in a .. Len(q) : k \in 1 .. Len(q) /\ q[k] \in S
      BY <2>6, <3>1, LenProperties
    <3>3. /\ p \in Seq(S)
          /\ Len(p) = IF a <= Len(q) THEN Len(q) - a + 1 ELSE 0
          /\ \A i \in 1 .. Len(q) - a + 1 : p[i] = q[a + i - 1]
      BY <1>1, <2>5, <2>6, <3>1, <3>2, SubSeqProperties
    <3> QED
      BY <1>1, <2>6, <3>3, SeqOfIs
  <2>9. a - 1 \in 0 .. Len(q) /\ DropIs(p, q, a - 1) /\ p[1] = q[a]
    BY <1>1, <2>6, <2>8 DEF DropIs
  <2> QED
    BY <2>6, <2>7, <2>9 DEF p
<1> QED
  BY <1>2, <1>3

----------------------------------------------------------------------------
(* Sessions, while the monitors at both ends move on.                      *)

Evolves(w, x) ==
    \/ x = w
    \/ x.epoch > w.epoch /\ x.epoch % 2 = 1
    \/ /\ x.epoch = w.epoch /\ x.role \notin InQuorum
       /\ x.role = "probing" \/ w.role \in InQuorum
    \/ x.epoch = w.epoch + 1 /\ w.role = "electing"

LEMMA PlaceFields ==
  ASSUME NEW w \in Place
  PROVE  /\ w.epoch \in Nat /\ w.role \in Role /\ w.leader \in Mon \union {None}
         /\ w.quorum \in SUBSET Mon /\ w.flushing \in BOOLEAN
BY DEF Place

LEMMA BoundKept ==
  ASSUME NEW w \in Place, NEW x \in Place, Evolves(w, x),
         NEW i, NEW e \in Nat, e % 2 = 0, Bound(w, i, e)
  PROVE  Bound(x, i, e)
<1>1. w.epoch \in Nat /\ x.epoch \in Nat
  BY PlaceFields
<1>2. CASE x = w
  BY <1>2
<1>3. CASE x.epoch > w.epoch /\ x.epoch % 2 = 1
  <2>1. w.epoch >= e - 1
    BY <1>1 DEF Bound
  <2>2. x.epoch > e
    BY <1>1, <1>3, <2>1
  <2> QED
    BY <2>2 DEF Bound
<1>4. CASE /\ x.epoch = w.epoch /\ x.role \notin InQuorum
           /\ x.role = "probing" \/ w.role \in InQuorum
  BY <1>4 DEF Bound, InQuorum
<1>5. CASE x.epoch = w.epoch + 1 /\ w.role = "electing"
  BY <1>1, <1>5 DEF Bound
<1> QED
  BY <1>2, <1>3, <1>4, <1>5 DEF Evolves

LEMMA LeadsKept ==
  ASSUME NEW w \in Place, NEW x \in Place, Evolves(w, x),
         NEW j, NEW e \in Nat, Leads(w, j, e)
  PROVE  Leads(x, j, e)
<1>1. w.epoch \in Nat /\ x.epoch \in Nat
  BY PlaceFields
<1> QED
  BY <1>1 DEF Leads, Evolves, InQuorum

LEMMA EpochKept ==
  ASSUME NEW w \in Place, NEW x \in Place, Evolves(w, x)
  PROVE  x.epoch >= w.epoch
BY PlaceFields DEF Evolves

Views == [Mon -> Place]

Leading(w) == w.role = "leader" /\ ~w.flushing

MessagesOK(v, q, i, j) == IsSeq(q) /\ \A k \in 1 .. Len(q) : MessageOK(v, q, k, i, j)

LEMMA SessionIs ==
  ASSUME NEW v, NEW q, NEW i, NEW j
  PROVE  SessionOK(v, q, i, j) <=> MessagesOK(v, q, i, j) /\ Told(v, q, i, j)
BY DEF SessionOK, MessagesOK

LEMMA MessagesKept ==
  ASSUME NEW v \in Views, NEW w \in Views, \A p \in Mon : Evolves(v[p], w[p]),
         NEW i \in Mon, NEW j \in Mon, NEW q, MessagesOK(v, q, i, j)
  PROVE  MessagesOK(w, q, i, j)
<1>1. v[i] \in Place /\ w[i] \in Place /\ v[j] \in Place /\ w[j] \in Place
  BY DEF Views
<1>2. Evolves(v[i], w[i]) /\ Evolves(v[j], w[j])
  OBVIOUS
<1> SUFFICES ASSUME NEW k \in 1 .. Len(q) PROVE MessageOK(w, q, k, i, j)
  BY DEF MessagesOK
<1>3. MessageOK(v, q, k, i, j)
  BY DEF MessagesOK
<1> DEFINE e == q[k].epoch
<1>4. i # j /\ e \in Nat /\ q[k].op \in {"victory"} \union LeaderOp \union ReplyOp
  BY <1>3 DEF MessageOK
<1>5. ASSUME q[k].op = "victory"
      PROVE  /\ e % 2 = 0 /\ w[j].epoch >= e - 1
             /\ q[k].quorum \in SUBSET Mon /\ Leads(w[i], j, e)
  <2>1. /\ e % 2 = 0 /\ v[j].epoch >= e - 1
        /\ q[k].quorum \in SUBSET Mon /\ Leads(v[i], j, e)
    BY <1>3, <1>5 DEF MessageOK
  <2>2. w[j].epoch >= v[j].epoch
    BY <1>1, <1>2, EpochKept
  <2>3. Leads(w[i], j, e)
    BY <1>1, <1>2, <1>4, <2>1, LeadsKept
  <2> QED
    BY <1>1, <1>4, <2>1, <2>2, <2>3, PlaceFields
<1>6. ASSUME q[k].op \in LeaderOp, e % 2 = 0
      PROVE  Announced(q, k, e) \/ Bound(w[j], i, e)
  <2>1. Announced(q, k, e) \/ Bound(v[j], i, e)
    BY <1>3, <1>6 DEF MessageOK
  <2> QED
    BY <1>1, <1>2, <1>4, <1>6, <2>1, BoundKept
<1>7. ASSUME q[k].op \in ReplyOp, e % 2 = 0
      PROVE  Leads(w[j], i, e)
  <2>1. Leads(v[j], i, e)
    BY <1>3, <1>7 DEF MessageOK
  <2> QED
    BY <1>1, <1>2, <1>4, <2>1, LeadsKept
<1> QED
  BY <1>4, <1>5, <1>6, <1>7 DEF MessageOK

LEMMA ToldKept ==
  ASSUME NEW v \in Views, NEW w \in Views, \A p \in Mon : Evolves(v[p], w[p]),
         NEW i \in Mon, NEW j \in Mon, NEW q, Told(v, q, i, j),
         PlaceOK(v, i), Leading(w[i]) => w[i] = v[i]
  PROVE  Told(w, q, i, j)
<1> SUFFICES ASSUME Leading(w[i]), j \in w[i].quorum \ {i}
             PROVE  Announced(q, Len(q) + 1, w[i].epoch) \/ Bound(w[j], i, w[i].epoch)
  BY DEF Told, Leading
<1>1. v[i] \in Place /\ v[j] \in Place /\ w[j] \in Place /\ w[i] = v[i]
  BY DEF Views
<1>2. v[i].epoch \in Nat /\ v[i].epoch % 2 = 0
  BY <1>1, PlaceFields DEF PlaceOK, Leading, InQuorum
<1>3. Announced(q, Len(q) + 1, v[i].epoch) \/ Bound(v[j], i, v[i].epoch)
  BY <1>1 DEF Told, Leading
<1>4. Bound(v[j], i, v[i].epoch) => Bound(w[j], i, v[i].epoch)
  BY <1>1, <1>2, BoundKept
<1> QED
  BY <1>1, <1>3, <1>4

(* A session loses its first messages; the victories among them have been  *)
(* heard or came too late.                                                 *)
LEMMA MessagesDropped ==
  ASSUME NEW v, NEW i, NEW j, NEW q, MessagesOK(v, q, i, j), NEW p, NEW d, DropIs(p, q, d),
         \A k \in 1 .. d : q[k].op = "victory" => Bound(v[j], i, q[k].epoch)
  PROVE  /\ MessagesOK(v, p, i, j)
         /\ Told(v, q, i, j) => Told(v, p, i, j)
<1>1. /\ d \in 0 .. Len(q) /\ IsSeq(p) /\ Len(p) = Len(q) - d /\ Len(q) \in Nat
      /\ \A k \in 1 .. Len(p) : p[k] = q[k + d] /\ k + d \in 1 .. Len(q)
  BY DEF DropIs, MessagesOK, IsSeq
<1>2. ASSUME NEW l \in 1 .. Len(p) + 1, NEW e, Announced(q, l + d, e)
      PROVE  Announced(p, l, e) \/ Bound(v[j], i, e)
  <2>1. PICK h \in 1 .. (l + d) - 1 : q[h].op = "victory" /\ q[h].epoch = e
    BY <1>2 DEF Announced
  <2>2. CASE h <= d
    <3>1. h \in 1 .. d
      BY <1>1, <2>1, <2>2
    <3> QED
      BY <2>1, <3>1
  <2>3. CASE h > d
    <3>1. h - d \in 1 .. l - 1 /\ h - d \in 1 .. Len(p) /\ (h - d) + d = h
      BY <1>1, <2>1, <2>3
    <3>2. p[h - d] = q[h]
      BY <1>1, <3>1
    <3> QED
      BY <2>1, <3>1, <3>2 DEF Announced
  <2> QED
    BY <1>1, <2>1, <2>2, <2>3
<1>3. ASSUME NEW k \in 1 .. Len(p) PROVE MessageOK(v, p, k, i, j)
  <2>1. p[k] = q[k + d] /\ MessageOK(v, q, k + d, i, j) /\ k \in 1 .. Len(p) + 1
    BY <1>1 DEF MessagesOK
  <2>2. Announced(q, k + d, p[k].epoch) => Announced(p, k, p[k].epoch) \/ Bound(v[j], i, p[k].epoch)
    BY <1>2, <2>1
  <2> QED
    BY <2>1, <2>2 DEF MessageOK
<1>4. ASSUME Told(v, q, i, j) PROVE Told(v, p, i, j)
  <2>1. Len(p) + 1 \in 1 .. Len(p) + 1 /\ (Len(p) + 1) + d = Len(q) + 1
    BY <1>1
  <2>2. \A e : Announced(q, Len(q) + 1, e) => Announced(p, Len(p) + 1, e) \/ Bound(v[j], i, e)
    BY <1>2, <2>1
  <2> QED
    BY <1>4, <2>2 DEF Told
<1> QED
  BY <1>1, <1>3, <1>4 DEF MessagesOK

LEMMA MessagesAdded ==
  ASSUME NEW v, NEW i, NEW j, NEW q, MessagesOK(v, q, i, j), NEW s, IsSeq(s),
         \A k \in 1 .. Len(s) : MessageOK(v, q \o s, Len(q) + k, i, j)
  PROVE  /\ MessagesOK(v, q \o s, i, j)
         /\ Told(v, q, i, j) => Told(v, q \o s, i, j)
<1> DEFINE t == q \o s
<1>1. /\ IsSeq(q) /\ Len(q) \in Nat /\ Len(s) \in Nat
      /\ IsSeq(t) /\ Len(t) = Len(q) + Len(s)
      /\ \A k \in 1 .. Len(q) : t[k] = q[k]
  BY ConcatIs DEF MessagesOK, IsSeq
<1> HIDE DEF t
<1>2. ASSUME NEW l \in 1 .. Len(q) + 1, NEW e, Announced(q, l, e)
      PROVE  Announced(t, l, e) /\ Announced(t, Len(t) + 1, e)
  BY <1>1, <1>2 DEF Announced
<1>3. ASSUME NEW k \in 1 .. Len(t) PROVE MessageOK(v, t, k, i, j)
  <2>1. CASE k \in 1 .. Len(q)
    <3>1. t[k] = q[k] /\ MessageOK(v, q, k, i, j) /\ k \in 1 .. Len(q) + 1
      BY <1>1, <2>1 DEF MessagesOK
    <3>2. Announced(q, k, t[k].epoch) => Announced(t, k, t[k].epoch)
      BY <1>2, <3>1
    <3> QED
      BY <3>1, <3>2 DEF MessageOK
  <2>2. CASE k \notin 1 .. Len(q)
    <3>1. k - Len(q) \in 1 .. Len(s) /\ Len(q) + (k - Len(q)) = k
      BY <1>1, <2>2
    <3> QED
      BY <3>1 DEF t
  <2> QED
    BY <2>1, <2>2
<1>4. ASSUME Told(v, q, i, j) PROVE Told(v, t, i, j)
  <2>1. \A e : Announced(q, Len(q) + 1, e) => Announced(t, Len(t) + 1, e)
    BY <1>1, <1>2
  <2> QED
    BY <1>4, <2>1 DEF Told
<1> QED
  BY <1>1, <1>3, <1>4 DEF MessagesOK, t

LEMMA MessagesPending ==
  ASSUME NEW v \in Views, NEW i \in Mon, NEW j \in Mon, NEW q, SessionOK(v, q, i, j)
  PROVE  LET p == Pending(q, v[j].epoch, v[j].role) IN
         SessionOK(v, p, i, j) /\ (p # <<>> => Heard(p[1], v[j].epoch, v[j].role))
<1> DEFINE p == Pending(q, v[j].epoch, v[j].role)
<1>1. PICK d \in 0 .. Len(q) :
            /\ DropIs(p, q, d)
            /\ \A k \in 1 .. d : ~Heard(q[k], v[j].epoch, v[j].role)
            /\ p # <<>> => Heard(p[1], v[j].epoch, v[j].role)
  BY PendingIs DEF SessionOK
<1> HIDE DEF p
<1>2. ASSUME NEW k \in 1 .. d, q[k].op = "victory" PROVE Bound(v[j], i, q[k].epoch)
  <2>1. k \in 1 .. Len(q) /\ ~Heard(q[k], v[j].epoch, v[j].role)
    BY <1>1 DEF SessionOK, IsSeq
  <2>2. q[k].epoch \in Nat /\ v[j].epoch \in Nat
    BY <2>1, PlaceFields DEF SessionOK, MessageOK, Views
  <2> QED
    BY <2>1, <2>2 DEF Heard, Bound
<1>3. MessagesOK(v, p, i, j) /\ Told(v, p, i, j)
  BY <1>1, <1>2, MessagesDropped, SessionIs
<1> QED
  BY <1>1, <1>3, SessionIs DEF p

----------------------------------------------------------------------------
(* The calls of a leader.                                                  *)

(* c is a call of m that has sent nothing but leaders' messages to peers.  *)
IsCall(c) ==
    /\ DOMAIN c = {"s", "st", "epoch", "quorum", "sent"}
    /\ IsMem(c.s)
    /\ DOMAIN c.sent = Mon /\ \A j \in Mon : IsSeq(c.sent[j])

Speaks(m, c) ==
    \A j \in Mon : \A k \in 1 .. Len(c.sent[j]) :
        c.sent[j][k].op \in LeaderOp /\ c.sent[j][k].epoch = c.epoch /\ j \in c.quorum \ {m}

LeaderMem(m, c) ==
    /\ "lease" \notin c.s.timers
    /\ \A p \in Mon : c.s.peer_last_committed[p] # None => p \in c.quorum \ {m}

LeaderCall(m, c) == IsCall(c) /\ Speaks(m, c) /\ LeaderMem(m, c)

(* d comes from c by a call that stays in the quorum.                      *)
Continues(m, c, d) == LeaderCall(m, d) /\ d.epoch = c.epoch /\ d.quorum = c.quorum

LEMMA SentTo ==
  ASSUME NEW c, IsCall(c), NEW dest, NEW msg
  PROVE  LET d == SendTo(c, dest, msg) IN
         /\ IsCall(d) /\ d.s = c.s /\ d.st = c.st /\ d.epoch = c.epoch /\ d.quorum = c.quorum
         /\ \A j \in Mon : d.sent[j] = IF j \in dest THEN Append(c.sent[j], msg) ELSE c.sent[j]
<1> DEFINE d == SendTo(c, dest, msg)
<1>1. /\ DOMAIN d = {"s", "st", "epoch", "quorum", "sent"}
      /\ d.s = c.s /\ d.st = c.st /\ d.epoch = c.epoch /\ d.quorum = c.quorum
      /\ d.sent = [j \in Mon |-> IF j \in dest THEN Append(c.sent[j], msg) ELSE c.sent[j]]
  BY DEF SendTo, IsCall
<1> HIDE DEF d
<1>2. \A j \in Mon : IsSeq(d.sent[j])
  BY <1>1, AppendIs DEF IsCall
<1> QED
  BY <1>1, <1>2 DEF IsCall, d

LEMMA SentPeers ==
  ASSUME NEW m, NEW c, LeaderCall(m, c), NEW msg, msg.op \in LeaderOp, msg.epoch = c.epoch
  PROVE  LET d == SendTo(c, Peers(m, c), msg) IN
         Continues(m, c, d) /\ d.s = c.s /\ d.st = c.st
<1> DEFINE d == SendTo(c, Peers(m, c), msg)
<1>1. /\ IsCall(d) /\ d.s = c.s /\ d.st = c.st /\ d.epoch = c.epoch /\ d.quorum = c.quorum
      /\ \A j \in Mon : d.sent[j] = IF j \in Peers(m, c) THEN Append(c.sent[j], msg) ELSE c.sent[j]
  BY SentTo DEF LeaderCall
<1> HIDE DEF d
<1>2. ASSUME NEW j \in Mon, NEW k \in 1 .. Len(d.sent[j])
      PROVE  d.sent[j][k].op \in LeaderOp /\ d.sent[j][k].epoch = d.epoch /\ j \in d.quorum \ {m}
  <2>1. IsSeq(c.sent[j]) /\ Len(c.sent[j]) \in Nat
    BY DEF LeaderCall, IsCall, IsSeq
  <2>2. CASE j \in Peers(m, c)
    <3>1. /\ Len(d.sent[j]) = Len(c.sent[j]) + 1
          /\ d.sent[j][Len(c.sent[j]) + 1] = msg
          /\ \A l \in 1 .. Len(c.sent[j]) : d.sent[j][l] = c.sent[j][l]
      <4>1. d.sent[j] = Append(c.sent[j], msg)
        BY <1>1, <2>2
      <4>2. PICK q : q = c.sent[j]
        OBVIOUS
      <4> QED
        BY <2>1, <4>1, <4>2, AppendIs
    <3>2. CASE k \in 1 .. Len(c.sent[j])
      BY <1>1, <3>1, <3>2 DEF LeaderCall, Speaks
    <3>3. CASE k = Len(c.sent[j]) + 1
      BY <1>1, <2>2, <3>1, <3>3 DEF Peers
    <3> QED
      BY <2>1, <3>1, <3>2, <3>3
  <2>3. CASE j \notin Peers(m, c)
    BY <1>1, <2>3 DEF LeaderCall, Speaks
  <2> QED
    BY <2>2, <2>3
<1>3. Speaks(m, d) /\ LeaderMem(m, d)
  BY <1>1, <1>2 DEF Speaks, LeaderMem, LeaderCall
<1> QED
  BY <1>1, <1>3 DEF Continues, LeaderCall, d

(* A call that changes memory and store only.                              *)
LEMMA SameSent ==
  ASSUME NEW m, NEW c, LeaderCall(m, c), NEW d,
         DOMAIN d = {"s", "st", "epoch", "quorum", "sent"}, IsMem(d.s),
         d.epoch = c.epoch, d.quorum = c.quorum, d.sent = c.sent, LeaderMem(m, d)
  PROVE  Continues(m, c, d)
BY DEF Continues, LeaderCall, IsCall, Speaks

LEMMA LeaderTimers ==
  ASSUME NEW m, NEW c, NEW d, Continues(m, c, d)
  PROVE  \A t \in d.s.timers : t # "lease"
BY DEF Continues, LeaderCall, LeaderMem

LEMMA Begin ==
  ASSUME NEW m, NEW c, LeaderCall(m, c), NEW x
  PROVE  LET d == begin(m, c, x) IN
         /\ Continues(m, c, d)
         /\ d.s.state = c.s.state /\ d.s.timers = c.s.timers \union {"accept"}
<1> DEFINE v == c.s.last_committed + 1
           value == IF c.s.last_committed = 0 THEN Tx(x.pn, 1) ELSE x
           b == [c EXCEPT !.s.accepted = {m}, !.s.new_value = value,
                          !.s.timers = @ \union {"accept"},
                          !.st.log[v] = value,
                          !.st.pending_v = v, !.st.pending_pn = c.s.accepted_pn]
           msg == [op |-> "begin", epoch |-> c.epoch, pn |-> c.s.accepted_pn,
                   last_committed |-> c.s.last_committed, value |-> value]
<1>1. begin(m, c, x) = SendTo(b, Peers(m, c), msg)
  BY DEF begin
<1>2. /\ DOMAIN b = {"s", "st", "epoch", "quorum", "sent"}
      /\ b.epoch = c.epoch /\ b.quorum = c.quorum /\ b.sent = c.sent
      /\ b.s = [c.s EXCEPT !.accepted = {m}, !.new_value = value,
                           !.timers = @ \union {"accept"}]
  BY DEF LeaderCall, IsCall
<1>3. msg.op \in LeaderOp /\ msg.epoch = c.epoch
  BY DEF LeaderOp
<1> HIDE DEF b, msg, v, value
<1>4. /\ IsMem(b.s) /\ b.s.state = c.s.state /\ b.s.timers = c.s.timers \union {"accept"}
      /\ b.s.peer_last_committed = c.s.peer_last_committed
  BY <1>2 DEF LeaderCall, IsCall, IsMem
<1>5. Continues(m, c, b)
  BY <1>2, <1>4, SameSent DEF LeaderCall, LeaderMem
<1>6. Peers(m, c) = Peers(m, b)
  BY <1>2 DEF Peers
<1>7. LET d == SendTo(b, Peers(m, b), msg) IN Continues(m, b, d) /\ d.s = b.s
  BY <1>2, <1>3, <1>5, SentPeers DEF Continues
<1> QED
  BY <1>1, <1>2, <1>4, <1>6, <1>7 DEF Continues

LEMMA ProposePending ==
  ASSUME NEW m, NEW c, LeaderCall(m, c), NEW first
  PROVE  LET d == propose_pending(m, c, first) IN
         Continues(m, c, d) /\ d.s.state = "updating" /\ d.s.timers = {"accept"}
<1> DEFINE b == [c EXCEPT !.s.state = "updating", !.s.pending = FALSE, !.s.timers = {}]
           x == Tx(c.s.accepted_pn, first)
<1>1. propose_pending(m, c, first) = begin(m, b, x)
  BY DEF propose_pending
<1>2. /\ DOMAIN b = {"s", "st", "epoch", "quorum", "sent"}
      /\ b.epoch = c.epoch /\ b.quorum = c.quorum /\ b.sent = c.sent
      /\ b.s = [c.s EXCEPT !.state = "updating", !.pending = FALSE, !.timers = {}]
  BY DEF LeaderCall, IsCall
<1> HIDE DEF b, x
<1>3. /\ IsMem(b.s) /\ b.s.state = "updating" /\ b.s.timers = {}
      /\ b.s.peer_last_committed = c.s.peer_last_committed
  BY <1>2 DEF LeaderCall, IsCall, IsMem, State
<1>4. Continues(m, c, b)
  BY <1>2, <1>3, SameSent DEF LeaderCall, LeaderMem
<1>5. LET d == begin(m, b, x) IN
      /\ Continues(m, b, d)
      /\ d.s.state = b.s.state /\ d.s.timers = b.s.timers \union {"accept"}
  BY <1>4, Begin DEF Continues
<1> QED
  BY <1>1, <1>2, <1>3, <1>5 DEF Continues

LEMMA ExtendLease ==
  ASSUME NEW m, NEW c, LeaderCall(m, c)
  PROVE  LET d == extend_lease(m, c) IN
         /\ Continues(m, c, d) /\ d.s.state = c.s.state
         /\ d.s.timers = c.s.timers \union {"lease_ack", "lease_renew"}
<1> DEFINE b == [c EXCEPT !.s.lease = TRUE, !.s.acked_lease = {m},
                          !.s.timers = @ \union {"lease_ack", "lease_renew"}]
           msg == [op |-> "lease", epoch |-> c.epoch, last_committed |-> c.s.last_committed]
<1>1. extend_lease(m, c) = SendTo(b, Peers(m, c), msg)
  BY DEF extend_lease
<1>2. /\ DOMAIN b = {"s", "st", "epoch", "quorum", "sent"}
      /\ b.epoch = c.epoch /\ b.quorum = c.quorum /\ b.sent = c.sent
      /\ b.s = [c.s EXCEPT !.lease = TRUE, !.acked_lease = {m},
                           !.timers = @ \union {"lease_ack", "lease_renew"}]
  BY DEF LeaderCall, IsCall
<1>3. msg.op \in LeaderOp /\ msg.epoch = c.epoch
  BY DEF LeaderOp
<1> HIDE DEF b, msg
<1>4. /\ IsMem(b.s) /\ b.s.state = c.s.state
      /\ b.s.timers = c.s.timers \union {"lease_ack", "lease_renew"}
      /\ b.s.peer_last_committed = c.s.peer_last_committed
  BY <1>2 DEF LeaderCall, IsCall, IsMem
<1>5. Continues(m, c, b)
  BY <1>2, <1>4, SameSent DEF LeaderCall, LeaderMem
<1>6. Peers(m, c) = Peers(m, b)
  BY <1>2 DEF Peers
<1>7. LET d == SendTo(b, Peers(m, b), msg) IN Continues(m, b, d) /\ d.s = b.s
  BY <1>2, <1>3, <1>5, SentPeers DEF Continues
<1> QED
  BY <1>1, <1>2, <1>4, <1>6, <1>7 DEF Continues

(* A round ends with the renewal of the lease or with the next update.     *)
LEMMA FinishRound ==
  ASSUME NEW m, NEW c, LeaderCall(m, c), "lease_renew" \in c.s.timers
  PROVE  LET d == finish_round(m, c) IN
         Continues(m, c, d) /\ TimedWait("leader", d.s) /\ ~Writing(d.s)
<1> DEFINE a == [c EXCEPT !.s.state = "active"]
           first == trim(c.s)
<1>1. finish_round(m, c) = propose_pending(m, a, first) \/ finish_round(m, c) = a
  BY DEF finish_round
<1>2. /\ DOMAIN a = {"s", "st", "epoch", "quorum", "sent"}
      /\ a.epoch = c.epoch /\ a.quorum = c.quorum /\ a.sent = c.sent
      /\ a.s = [c.s EXCEPT !.state = "active"]
  BY DEF LeaderCall, IsCall
<1> HIDE DEF a, first
<1>3. /\ IsMem(a.s) /\ a.s.state = "active" /\ a.s.timers = c.s.timers
      /\ a.s.peer_last_committed = c.s.peer_last_committed
  BY <1>2 DEF LeaderCall, IsCall, IsMem, State
<1>4. Continues(m, c, a)
  BY <1>2, <1>3, SameSent DEF LeaderCall, LeaderMem
<1>5. LET d == propose_pending(m, a, first) IN
      Continues(m, a, d) /\ d.s.state = "updating" /\ d.s.timers = {"accept"}
  BY <1>4, ProposePending DEF Continues
<1>6. CASE finish_round(m, c) = propose_pending(m, a, first)
  BY <1>2, <1>5, <1>6 DEF Continues, TimedWait, Updating, Writing
<1>7. CASE finish_round(m, c) = a
  BY <1>3, <1>4, <1>7, LeaderTimers DEF TimedWait, Updating, Writing
<1> QED
  BY <1>1, <1>6, <1>7

LEMMA CommitFinish ==
  ASSUME NEW m, NEW c, LeaderCall(m, c)
  PROVE  LET d == commit_finish(m, c) IN
         Continues(m, c, d) /\ TimedWait("leader", d.s) /\ ~Writing(d.s)
<1> DEFINE v == c.s.last_committed + 1
           s == [c.s EXCEPT !.lease = FALSE, !.last_committed = v,
                            !.first_committed = c.st.first_committed,
                            !.new_value = NoValue]
           b == [c EXCEPT !.s = s]
           msg == [op |-> "commit", epoch |-> c.epoch, last_committed |-> v,
                   values |-> [w \in {v} |-> c.s.new_value]]
           told == SendTo(b, Peers(m, c), msg)
           l == extend_lease(m, told)
<1>1. commit_finish(m, c) = finish_round(m, l)
  BY DEF commit_finish
<1>2. /\ DOMAIN b = {"s", "st", "epoch", "quorum", "sent"}
      /\ b.epoch = c.epoch /\ b.quorum = c.quorum /\ b.sent = c.sent /\ b.s = s
  BY DEF LeaderCall, IsCall
<1>3. msg.op \in LeaderOp /\ msg.epoch = c.epoch
  BY DEF LeaderOp
<1>4. /\ IsMem(s) /\ s.peer_last_committed = c.s.peer_last_committed /\ s.timers = c.s.timers
  BY DEF LeaderCall, IsCall, IsMem
<1> HIDE DEF b, msg, s, v
<1>5. Continues(m, c, b)
  BY <1>2, <1>4, SameSent DEF LeaderCall, LeaderMem
<1>6. Peers(m, c) = Peers(m, b)
  BY <1>2 DEF Peers
<1>7. Continues(m, b, told)
  BY <1>2, <1>3, <1>5, <1>6, SentPeers DEF Continues
<1> HIDE DEF told
<1>8. Continues(m, told, l) /\ "lease_renew" \in l.s.timers
  BY <1>7, ExtendLease DEF Continues
<1> HIDE DEF l
<1>9. LET d == finish_round(m, l) IN
      Continues(m, l, d) /\ TimedWait("leader", d.s) /\ ~Writing(d.s)
  BY <1>8, FinishRound DEF Continues
<1> QED
  BY <1>1, <1>2, <1>7, <1>8, <1>9 DEF Continues

(* collect starts a recovery with its timer, and sends one message.        *)
StartsRecovery(m, c, d) ==
    \E b, msg :
        /\ d = SendTo(b, Peers(m, b), msg)
        /\ msg.op = "collect" /\ msg.epoch = c.epoch
        /\ IsCall(b) /\ b.epoch = c.epoch /\ b.quorum = c.quorum /\ b.sent = c.sent
        /\ b.s.state = "recovering" /\ b.s.timers = c.s.timers \union {"collect"}
        /\ b.s.peer_last_committed = [p \in Mon |-> None]

LEMMA CollectIs ==
  ASSUME NEW m, NEW c, IsCall(c), NEW oldpn
  PROVE  StartsRecovery(m, c, collect(m, c, oldpn))
<1> DEFINE v == c.s.last_committed + 1
           own == c.st.log[v] # NoValue
           pn == get_new_proposal_number(m, c.st, Max({c.s.accepted_pn, oldpn}))
           s == [c.s EXCEPT
                 !.state = "recovering",
                 !.uncommitted_v = IF own THEN v ELSE 0,
                 !.uncommitted_pn = IF own THEN pending_pn(c.st, v, c.s.accepted_pn) ELSE 0,
                 !.uncommitted_value = c.st.log[v],
                 !.peer_last_committed = [p \in Mon |-> None],
                 !.accepted_pn = pn,
                 !.num_last = 1,
                 !.timers = @ \union {"collect"}]
           b == [c EXCEPT !.s = s, !.st.last_pn = pn]
           msg == [op |-> "collect", epoch |-> c.epoch, pn |-> pn,
                   last_committed |-> s.last_committed, first_committed |-> s.first_committed]
<1>1. collect(m, c, oldpn) = SendTo(b, Peers(m, c), msg)
  BY DEF collect
<1> HIDE DEF v, own, pn
<1>2. /\ DOMAIN b = {"s", "st", "epoch", "quorum", "sent"}
      /\ b.epoch = c.epoch /\ b.quorum = c.quorum /\ b.sent = c.sent /\ b.s = s
  BY DEF IsCall
<1>3. msg.op = "collect" /\ msg.epoch = c.epoch
  OBVIOUS
<1>4. /\ IsMem(s) /\ s.peer_last_committed = [p \in Mon |-> None]
      /\ s.state = "recovering" /\ s.timers = c.s.timers \union {"collect"}
  BY DEF IsCall, IsMem, State
<1> HIDE DEF b, msg, s
<1>5. IsCall(b)
  BY <1>2, <1>4 DEF IsCall
<1>6. Peers(m, c) = Peers(m, b)
  BY <1>2 DEF Peers
<1> QED
  BY <1>1, <1>2, <1>3, <1>4, <1>5, <1>6 DEF StartsRecovery

LEMMA Collect ==
  ASSUME NEW m, NEW c, LeaderCall(m, c), NEW oldpn
  PROVE  LET d == collect(m, c, oldpn) IN
         /\ Continues(m, c, d) /\ TimedWait("leader", d.s) /\ ~Writing(d.s)
<1>1. PICK b, msg :
            /\ collect(m, c, oldpn) = SendTo(b, Peers(m, b), msg)
            /\ msg.op = "collect" /\ msg.epoch = c.epoch
            /\ IsCall(b) /\ b.epoch = c.epoch /\ b.quorum = c.quorum /\ b.sent = c.sent
            /\ b.s.state = "recovering" /\ b.s.timers = c.s.timers \union {"collect"}
            /\ b.s.peer_last_committed = [p \in Mon |-> None]
  BY CollectIs DEF LeaderCall, StartsRecovery
<1>2. Continues(m, c, b)
  BY <1>1, SameSent DEF LeaderCall, IsCall, LeaderMem
<1>3. LET d == SendTo(b, Peers(m, b), msg) IN Continues(m, b, d) /\ d.s = b.s
  BY <1>1, <1>2, SentPeers DEF Continues, LeaderOp
<1>4. PICK d : d = SendTo(b, Peers(m, b), msg)
  OBVIOUS
<1>5. Continues(m, c, d) /\ d.s.state = "recovering" /\ "collect" \in d.s.timers
  BY <1>1, <1>2, <1>3, <1>4 DEF Continues
<1>6. TimedWait("leader", d.s) /\ ~Writing(d.s)
  BY <1>5, LeaderTimers DEF TimedWait, Updating, Writing
<1> QED
  BY <1>1, <1>4, <1>5, <1>6

(* Storing what others have committed touches neither state nor timers.    *)
LEMMA StoreState ==
  ASSUME NEW c, IsCall(c), NEW lc, NEW values
  PROVE  LET d == store_state(c, lc, values) IN
         /\ DOMAIN d = {"s", "st", "epoch", "quorum", "sent"} /\ IsMem(d.s)
         /\ d.epoch = c.epoch /\ d.quorum = c.quorum /\ d.sent = c.sent
         /\ d.s.state = c.s.state /\ d.s.timers = c.s.timers
         /\ d.s.peer_last_committed = c.s.peer_last_committed
<1> DEFINE future == DOMAIN values # {} /\ Min(DOMAIN values) > c.s.last_committed + 1
           new == {v \in DOMAIN values : v > c.s.last_committed /\ v <= lc}
           put == [c.st EXCEPT !.last_committed = Max(new),
                               !.log = [v \in Version |-> IF v \in new THEN values[v] ELSE @[v]]]
           st == apply(put, Tx(0, Max({values[v].first : v \in new})))
           stale == c.s.uncommitted_v <= st.last_committed
           d == [c EXCEPT !.st = st,
                       !.s.last_committed = st.last_committed,
                       !.s.first_committed = st.first_committed,
                       !.s.uncommitted_v = IF stale THEN 0 ELSE @,
                       !.s.uncommitted_pn = IF stale THEN 0 ELSE @,
                       !.s.uncommitted_value = IF stale THEN NoValue ELSE @]
<1>1. store_state(c, lc, values) = IF future \/ new = {} THEN c ELSE d
  BY DEF store_state
<1> HIDE DEF future, new, put, st, stale
<1>2. /\ DOMAIN d = {"s", "st", "epoch", "quorum", "sent"}
      /\ d.epoch = c.epoch /\ d.quorum = c.quorum /\ d.sent = c.sent
      /\ d.s = [c.s EXCEPT !.last_committed = st.last_committed,
                           !.first_committed = st.first_committed,
                           !.uncommitted_v = IF stale THEN 0 ELSE @,
                           !.uncommitted_pn = IF stale THEN 0 ELSE @,
                           !.uncommitted_value = IF stale THEN NoValue ELSE @]
  BY DEF IsCall
<1> HIDE DEF d
<1>3. /\ IsMem(d.s) /\ d.s.state = c.s.state /\ d.s.timers = c.s.timers
      /\ d.s.peer_last_committed = c.s.peer_last_committed
  BY <1>2 DEF IsCall, IsMem
<1> QED
  BY <1>1, <1>2, <1>3 DEF IsCall

LEMMA UpdatePeers ==
  ASSUME NEW m, NEW c, LeaderCall(m, c)
  PROVE  LET d == update_peers(c) IN Continues(m, c, d) /\ d.s = c.s
<1> DEFINE told == {p \in Mon : Behind(c.s, p) /\ \A q \in 0 .. p : ~TooLow(c.s, q)}
           Msg(p) == [op |-> "commit", epoch |-> c.epoch,
                      last_committed |-> c.s.last_committed,
                      values |-> share_state(c, c.s.peer_last_committed[p])]
           d == update_peers(c)
<1>1. /\ DOMAIN d = {"s", "st", "epoch", "quorum", "sent"}
      /\ d.s = c.s /\ d.epoch = c.epoch /\ d.quorum = c.quorum
      /\ d.sent = [p \in Mon |-> IF p \in told THEN Append(c.sent[p], Msg(p)) ELSE c.sent[p]]
  BY DEF update_peers, LeaderCall, IsCall
<1>2. \A p \in told : p \in c.quorum \ {m}
  BY DEF LeaderCall, LeaderMem, Behind
<1>3. \A p : Msg(p).op \in LeaderOp /\ Msg(p).epoch = c.epoch
  BY DEF LeaderOp
<1> HIDE DEF d, told, Msg
<1>4. ASSUME NEW j \in Mon
      PROVE  /\ IsSeq(d.sent[j])
             /\ \A k \in 1 .. Len(d.sent[j]) :
                    /\ d.sent[j][k].op \in LeaderOp /\ d.sent[j][k].epoch = c.epoch
                    /\ j \in c.quorum \ {m}
  <2>1. PICK q : q = c.sent[j]
    OBVIOUS
  <2>2. /\ IsSeq(q) /\ Len(q) \in Nat
        /\ \A k \in 1 .. Len(q) :
               q[k].op \in LeaderOp /\ q[k].epoch = c.epoch /\ j \in c.quorum \ {m}
    BY <2>1 DEF LeaderCall, IsCall, Speaks, IsSeq
  <2>3. CASE j \in told
    <3>1. d.sent[j] = Append(q, Msg(j))
      BY <1>1, <2>1, <2>3
    <3>2. /\ IsSeq(d.sent[j]) /\ Len(d.sent[j]) = Len(q) + 1 /\ d.sent[j][Len(q) + 1] = Msg(j)
          /\ \A k \in 1 .. Len(q) : d.sent[j][k] = q[k]
      BY <2>2, <3>1, AppendIs
    <3>3. \A k \in 1 .. Len(d.sent[j]) : k \in 1 .. Len(q) \/ k = Len(q) + 1
      BY <2>2, <3>2
    <3> QED
      BY <1>2, <1>3, <2>2, <2>3, <3>2, <3>3
  <2>4. CASE j \notin told
    BY <1>1, <2>1, <2>2, <2>4
  <2> QED
    BY <2>3, <2>4
<1> QED
  BY <1>1, <1>4 DEF Continues, LeaderCall, IsCall, Speaks, LeaderMem, d

LEMMA LearnUncommitted ==
  ASSUME NEW m, NEW c, LeaderCall(m, c), NEW msg
  PROVE  LET d == learn_uncommitted(c, msg) IN
         Continues(m, c, d) /\ d.s.state = c.s.state /\ d.s.timers = c.s.timers
<1> DEFINE d == [c EXCEPT !.s.uncommitted_v = msg.last_committed + 1,
                          !.s.uncommitted_pn = msg.uncommitted_pn,
                          !.s.uncommitted_value = msg.values[msg.last_committed + 1]]
<1>1. learn_uncommitted(c, msg) = d \/ learn_uncommitted(c, msg) = c
  BY DEF learn_uncommitted
<1>2. /\ DOMAIN d = {"s", "st", "epoch", "quorum", "sent"}
      /\ d.epoch = c.epoch /\ d.quorum = c.quorum /\ d.sent = c.sent
      /\ d.s = [c.s EXCEPT !.uncommitted_v = msg.last_committed + 1,
                           !.uncommitted_pn = msg.uncommitted_pn,
                           !.uncommitted_value = msg.values[msg.last_committed + 1]]
  BY DEF LeaderCall, IsCall
<1> HIDE DEF d
<1>3. /\ IsMem(d.s) /\ d.s.state = c.s.state /\ d.s.timers = c.s.timers
      /\ d.s.peer_last_committed = c.s.peer_last_committed
  BY <1>2 DEF LeaderCall, IsCall, IsMem
<1>4. Continues(m, c, d)
  BY <1>2, <1>3, SameSent DEF LeaderCall, LeaderMem
<1> QED
  BY <1>1, <1>3, <1>4 DEF Continues

LEMMA Collected ==
  ASSUME NEW m, NEW c, LeaderCall(m, c)
  PROVE  LET d == collected(m, c) IN
         Continues(m, c, d) /\ TimedWait("leader", d.s) /\ ~Writing(d.s)
<1> DEFINE d == [c EXCEPT !.s.timers = @ \ {"collect"},
                          !.s.peer_last_committed = [p \in Mon |-> None]]
           u == [d EXCEPT !.s.state = "updating_previous"]
           x == c.s.uncommitted_value
<1>1. \/ collected(m, c) = begin(m, u, x)
      \/ collected(m, c) = finish_round(m, extend_lease(m, d))
  BY DEF collected
<1>2. /\ DOMAIN d = {"s", "st", "epoch", "quorum", "sent"}
      /\ d.epoch = c.epoch /\ d.quorum = c.quorum /\ d.sent = c.sent
      /\ d.s = [c.s EXCEPT !.timers = @ \ {"collect"},
                           !.peer_last_committed = [p \in Mon |-> None]]
  BY DEF LeaderCall, IsCall
<1> HIDE DEF d, x
<1>3. /\ IsMem(d.s) /\ d.s.peer_last_committed = [p \in Mon |-> None]
      /\ d.s.timers = c.s.timers \ {"collect"}
  BY <1>2 DEF LeaderCall, IsCall, IsMem
<1>4. Continues(m, c, d)
  BY <1>2, <1>3, SameSent DEF LeaderCall, LeaderMem
<1>5. CASE collected(m, c) = begin(m, u, x)
  <2>1. /\ DOMAIN u = {"s", "st", "epoch", "quorum", "sent"}
        /\ u.epoch = d.epoch /\ u.quorum = d.quorum /\ u.sent = d.sent
        /\ u.s = [d.s EXCEPT !.state = "updating_previous"]
    BY <1>2
  <2> HIDE DEF u
  <2>2. /\ IsMem(u.s) /\ u.s.state = "updating_previous" /\ u.s.timers = d.s.timers
        /\ u.s.peer_last_committed = d.s.peer_last_committed
    BY <1>3, <2>1 DEF IsMem, State
  <2>3. LeaderMem(m, u)
    BY <1>3, <2>2 DEF LeaderCall, LeaderMem
  <2>4. Continues(m, d, u)
    BY <1>4, <2>1, <2>2, <2>3, SameSent DEF Continues
  <2>5. LET b == begin(m, u, x) IN
        /\ Continues(m, u, b)
        /\ b.s.state = u.s.state /\ b.s.timers = u.s.timers \union {"accept"}
    BY <2>4, Begin DEF Continues
  <2>6. PICK b : b = begin(m, u, x)
    OBVIOUS
  <2>7. /\ Continues(m, c, b) /\ b.s.state = "updating_previous" /\ "accept" \in b.s.timers
    BY <1>2, <2>1, <2>2, <2>5, <2>6 DEF Continues
  <2>8. TimedWait("leader", b.s) /\ ~Writing(b.s)
    BY <2>7, LeaderTimers DEF TimedWait, Updating, Writing
  <2> QED
    BY <1>5, <2>6, <2>7, <2>8
<1>6. CASE collected(m, c) = finish_round(m, extend_lease(m, d))
  <2> DEFINE l == extend_lease(m, d)
  <2>1. Continues(m, d, l) /\ "lease_renew" \in l.s.timers
    BY <1>4, ExtendLease DEF Continues
  <2> HIDE DEF l
  <2>2. LET f == finish_round(m, l) IN
        Continues(m, l, f) /\ TimedWait("leader", f.s) /\ ~Writing(f.s)
    BY <2>1, FinishRound DEF Continues
  <2> QED
    BY <1>2, <1>6, <2>1, <2>2 DEF Continues, l
<1> QED
  BY <1>1, <1>5, <1>6

----------------------------------------------------------------------------
(* A step of the monitor m: from the view v to w and from the network g to *)
(* the one that Prune(Sent(n, m, c)) leaves.                               *)

Moves(v, w, m) ==
    /\ v \in Views /\ w \in Views
    /\ \A p \in Mon \ {m} : w[p] = v[p]
    /\ Evolves(v[m], w[m])

(* n is g, but for a message that m has taken.                             *)
Takes(g, n, w, m) ==
    /\ n = [i \in Mon |-> [j \in Mon |-> n[i][j]]]
    /\ \A i, j \in Mon :
           \/ n[i][j] = g[i][j]
           \/ /\ i # m /\ j = m /\ g[i][j] # <<>> /\ n[i][j] = Tail(g[i][j])
              /\ g[i][j][1].op = "victory" => Bound(w[m], i, g[i][j][1].epoch)

SendsOK(w, n, m, c) ==
    \A j \in Mon : \A k \in 1 .. Len(c.sent[j]) :
        MessageOK(w, n[m][j] \o c.sent[j], Len(n[m][j]) + k, m, j)

LEMMA EvolveAll ==
  ASSUME NEW v, NEW w, NEW m \in Mon, Moves(v, w, m)
  PROVE  \A p \in Mon : Evolves(v[p], w[p])
BY DEF Moves, Evolves

LEMMA NetStep ==
  ASSUME NEW v, NEW w, NEW m \in Mon, Moves(v, w, m), \A p \in Mon : PlaceOK(v, p),
         NEW g, NetOK(v, g), NEW n, Takes(g, n, w, m),
         NEW c, IsCall(c), SendsOK(w, n, m, c),
         Leading(w[m]) => w[m] = v[m] \/ \A j \in Mon : Told(w, n[m][j] \o c.sent[j], m, j),
         NEW r, r = [i \in Mon |-> [j \in Mon |->
                        Pending(Sent(n, m, c)[i][j], w[j].epoch, w[j].role)]]
  PROVE  NetOK(w, r) /\ FirstHeard(w, r)
<1>0. v \in Views /\ w \in Views /\ \A p \in Mon : Evolves(v[p], w[p])
  BY EvolveAll DEF Moves
<1>1. ASSUME NEW i \in Mon, NEW j \in Mon
      PROVE  SessionOK(w, Sent(n, m, c)[i][j], i, j)
  <2>1. PICK q : q = g[i][j]
    OBVIOUS
  <2>2. PICK p : p = n[i][j]
    OBVIOUS
  <2>3. MessagesOK(v, q, i, j) /\ Told(v, q, i, j)
    BY <2>1, SessionIs DEF NetOK
  <2>4. MessagesOK(w, q, i, j)
    BY <1>0, <2>3, MessagesKept
  <2>5. (Leading(w[i]) => w[i] = v[i]) => Told(w, q, i, j)
    BY <1>0, <2>3, ToldKept
  <2>6. MessagesOK(w, p, i, j) /\ (Told(w, q, i, j) => Told(w, p, i, j))
    <3>1. CASE p = q
      BY <2>4, <3>1
    <3>2. CASE /\ j = m /\ q # <<>> /\ p = Tail(q)
               /\ q[1].op = "victory" => Bound(w[m], i, q[1].epoch)
      <4>1. DropIs(p, q, 1)
        BY <2>4, <3>2, TailIs DEF MessagesOK
      <4>2. \A k \in 1 .. 1 : q[k].op = "victory" => Bound(w[j], i, q[k].epoch)
        BY <3>2
      <4> QED
        BY <2>4, <4>1, <4>2, MessagesDropped
    <3> QED
      BY <2>1, <2>2, <3>1, <3>2 DEF Takes
  <2>7. CASE i # m
    <3>1. w[i] = v[i] /\ Sent(n, m, c)[i][j] = p
      BY <2>2, <2>7 DEF Moves, Sent, Takes
    <3> QED
      BY <2>5, <2>6, <3>1, SessionIs
  <2>8. CASE i = m
    <3>1. PICK s : s = c.sent[j]
      OBVIOUS
    <3>2. IsSeq(s) /\ \A k \in 1 .. Len(s) : MessageOK(w, p \o s, Len(p) + k, i, j)
      BY <2>2, <2>8, <3>1 DEF SendsOK, IsCall
    <3>3. Sent(n, m, c)[i][j] = p \o s
      BY <2>2, <2>8, <3>1 DEF Sent, Takes
    <3>4. MessagesOK(w, p \o s, i, j) /\ (Told(w, p, i, j) => Told(w, p \o s, i, j))
      BY <2>6, <3>2, MessagesAdded
    <3>5. Told(w, p \o s, i, j)
      BY <2>2, <2>5, <2>6, <2>8, <3>1, <3>4
    <3> QED
      BY <3>3, <3>4, <3>5, SessionIs
  <2> QED
    BY <2>7, <2>8
<1>2. ASSUME NEW i \in Mon, NEW j \in Mon
      PROVE  /\ SessionOK(w, r[i][j], i, j)
             /\ r[i][j] # <<>> => Heard(r[i][j][1], w[j].epoch, w[j].role)
  <2>1. PICK q : q = Sent(n, m, c)[i][j]
    OBVIOUS
  <2>2. r[i][j] = Pending(q, w[j].epoch, w[j].role)
    BY <2>1
  <2> QED
    BY <1>0, <1>1, <2>1, <2>2, MessagesPending
<1>3. r = [i \in Mon |-> [j \in Mon |-> r[i][j]]]
  OBVIOUS
<1> QED
  BY <1>2, <1>3 DEF NetOK, FirstHeard

(* What a leader sends, whether it stays or leaves.                        *)
LEMMA SpeakOK ==
  ASSUME NEW v, NEW w, NEW m \in Mon, Moves(v, w, m), PlaceOK(v, m), v[m].role = "leader",
         NEW g, NetOK(v, g), NEW n, Takes(g, n, w, m),
         NEW c, IsCall(c), Speaks(m, c), c.epoch = v[m].epoch, c.quorum = v[m].quorum
  PROVE  SendsOK(w, n, m, c)
<1> SUFFICES ASSUME NEW j \in Mon, NEW k \in 1 .. Len(c.sent[j])
             PROVE  MessageOK(w, n[m][j] \o c.sent[j], Len(n[m][j]) + k, m, j)
  BY DEF SendsOK
<1>1. PICK q : q = g[m][j]
  OBVIOUS
<1>2. PICK s : s = c.sent[j]
  OBVIOUS
<1>3. n[m][j] = q
  BY <1>1 DEF Takes
<1>4. /\ v[m] \in Place /\ v[j] \in Place /\ w[j] \in Place /\ Evolves(v[j], w[j])
      /\ v[m].epoch \in Nat
  BY EvolveAll, PlaceFields DEF Moves, Views
<1>5. IsSeq(q) /\ IsSeq(s) /\ Len(q) \in Nat /\ Len(s) \in Nat /\ Told(v, q, m, j)
  BY <1>1, <1>2 DEF NetOK, SessionOK, IsCall, IsSeq
<1> DEFINE t == q \o s
           e == v[m].epoch
<1>6. t[Len(q) + k] = s[k] /\ \A h \in 1 .. Len(q) : t[h] = q[h]
  BY <1>2, <1>5, ConcatIs
<1>7. s[k].op \in LeaderOp /\ s[k].epoch = e /\ j \in v[m].quorum \ {m}
  BY <1>2 DEF Speaks
<1> HIDE DEF t
<1>8. ASSUME e % 2 = 0 PROVE Announced(t, Len(q) + k, e) \/ Bound(w[j], m, e)
  <2>1. ~v[m].flushing
    BY <1>4, <1>8 DEF PlaceOK
  <2>2. Announced(q, Len(q) + 1, e) \/ Bound(v[j], m, e)
    BY <1>5, <1>7, <2>1 DEF Told
  <2>3. Announced(q, Len(q) + 1, e) => Announced(t, Len(q) + k, e)
    BY <1>2, <1>5, <1>6 DEF Announced
  <2>4. Bound(v[j], m, e) => Bound(w[j], m, e)
    BY <1>4, <1>8, BoundKept
  <2> QED
    BY <2>2, <2>3, <2>4
<1>9. t[Len(q) + k].op # "victory" /\ t[Len(q) + k].op \notin ReplyOp
  BY <1>6, <1>7 DEF LeaderOp, ReplyOp
<1>10. MessageOK(w, t, Len(q) + k, m, j)
  BY <1>4, <1>6, <1>7, <1>8, <1>9 DEF MessageOK
<1> QED
  BY <1>2, <1>3, <1>10 DEF t

----------------------------------------------------------------------------
(* A step of m keeps the invariant, if m does its part.                    *)

Becomes(m, x) ==
    /\ epoch' = [epoch EXCEPT ![m] = x.epoch]
    /\ role' = [role EXCEPT ![m] = x.role]
    /\ flushing' = [flushing EXCEPT ![m] = x.flushing]
    /\ leader' = [leader EXCEPT ![m] = x.leader]
    /\ quorum' = [quorum EXCEPT ![m] = x.quorum]

LEMMA ViewIs ==
  ASSUME Inv
  PROVE  View \in Views /\ \A p \in Mon : View[p] = At(p) /\ At(p) \in Place
BY DEF Inv, View, Views

LEMMA ViewBecomes ==
  ASSUME Inv, NEW m \in Mon, NEW x \in Place, Becomes(m, x)
  PROVE  /\ View' = [View EXCEPT ![m] = x] /\ View' \in Views
         /\ epoch' \in [Mon -> Nat] /\ role' \in [Mon -> Role] /\ flushing' \in [Mon -> BOOLEAN]
         /\ leader' \in [Mon -> Mon \union {None}] /\ quorum' \in [Mon -> SUBSET Mon]
         /\ \A j \in Mon : View'[j].epoch = epoch'[j] /\ View'[j].role = role'[j]
<1>1. /\ epoch \in [Mon -> Nat] /\ role \in [Mon -> Role] /\ flushing \in [Mon -> BOOLEAN]
      /\ leader \in [Mon -> Mon \union {None}] /\ quorum \in [Mon -> SUBSET Mon]
  BY DEF Inv
<1>2. /\ x.epoch \in Nat /\ x.role \in Role /\ x.leader \in Mon \union {None}
      /\ x.quorum \in SUBSET Mon /\ x.flushing \in BOOLEAN
      /\ x = [epoch |-> x.epoch, role |-> x.role, leader |-> x.leader,
              quorum |-> x.quorum, flushing |-> x.flushing]
  BY DEF Place
<1>3. /\ epoch' \in [Mon -> Nat] /\ role' \in [Mon -> Role] /\ flushing' \in [Mon -> BOOLEAN]
      /\ leader' \in [Mon -> Mon \union {None}] /\ quorum' \in [Mon -> SUBSET Mon]
  BY <1>1, <1>2 DEF Becomes
<1>4. View' = [j \in Mon |-> At(j)']
  BY DEF View
<1>5. At(m)' = x
  BY <1>1, <1>2 DEF At, Becomes
<1>6. \A j \in Mon \ {m} : At(j)' = At(j)
  BY <1>1 DEF At, Becomes
<1>7. View' = [View EXCEPT ![m] = x]
  BY <1>4, <1>5, <1>6 DEF View
<1>8. View' \in Views
  BY <1>7, ViewIs DEF Views
<1>9. \A j \in Mon : View'[j].epoch = epoch'[j] /\ View'[j].role = role'[j]
  BY <1>4 DEF At
<1> QED
  BY <1>3, <1>7, <1>8, <1>9

(* The conditions on m's part, of the view w in which it ends.             *)
Plays(w, m, g, n, c) ==
    /\ PlaceOK(w, m) /\ Takes(g, n, w, m) /\ SendsOK(w, n, m, c)
    /\ Leading(w[m]) => w[m] = At(m) \/ \A j \in Mon : Told(w, n[m][j] \o c.sent[j], m, j)

LEMMA PlacesKept ==
  ASSUME NEW v, NEW w, NEW m \in Mon, Moves(v, w, m), \A p \in Mon : PlaceOK(v, p),
         PlaceOK(w, m)
  PROVE  \A p \in Mon : PlaceOK(w, p)
<1> SUFFICES ASSUME NEW p \in Mon \ {m} PROVE PlaceOK(w, p)
  OBVIOUS
<1>1. w[p] = v[p] /\ PlaceOK(v, p) /\ v[p] \in Place
  BY DEF Moves, Views
<1>2. ASSUME v[p].role = "peon"
      PROVE  v[p].leader \in Mon \ {p} /\ Leads(w[v[p].leader], p, v[p].epoch)
  <2>1. v[p].leader \in Mon \ {p} /\ Leads(v[v[p].leader], p, v[p].epoch)
    BY <1>1, <1>2 DEF PlaceOK
  <2>2. PICK l \in Mon : l = v[p].leader
    BY <2>1
  <2>3. v[l] \in Place /\ w[l] \in Place /\ Evolves(v[l], w[l]) /\ v[p].epoch \in Nat
    BY <1>1, EvolveAll, PlaceFields DEF Moves, Views
  <2> QED
    BY <2>1, <2>2, <2>3, LeadsKept
<1> QED
  BY <1>1, <1>2 DEF PlaceOK

LEMMA InvStep ==
  ASSUME Inv, NEW m \in Mon, NEW x \in Place, NEW s, NEW n, NEW c, IsCall(c),
         Becomes(m, x), mem' = [mem EXCEPT ![m] = s], DOMAIN store' = Mon,
         net' = Prune(Sent(n, m, c)),
         Evolves(At(m), x), MemOK(x, m, s),
         Plays([View EXCEPT ![m] = x], m, net, n, c)
  PROVE  Inv'
<1>1. PICK v : v = View
  OBVIOUS
<1>2. PICK w : w = [v EXCEPT ![m] = x]
  OBVIOUS
<1>3. PICK g : g = net
  OBVIOUS
<1>4. PICK r : r = net'
  OBVIOUS
<1>5. /\ View' = w /\ w \in Views /\ v \in Views
      /\ \A j \in Mon : w[j].epoch = epoch'[j] /\ w[j].role = role'[j]
  BY <1>1, <1>2, ViewBecomes, ViewIs
<1>6. Moves(v, w, m) /\ w[m] = x /\ v[m] = At(m)
  BY <1>1, <1>2, <1>5, ViewIs DEF Moves, Views
<1>7. NetOK(v, g) /\ \A p \in Mon : PlaceOK(v, p)
  BY <1>1, <1>3 DEF Inv
<1>8. PlaceOK(w, m) /\ Takes(g, n, w, m) /\ SendsOK(w, n, m, c)
      /\ (Leading(w[m]) => w[m] = v[m] \/ \A j \in Mon : Told(w, n[m][j] \o c.sent[j], m, j))
  BY <1>1, <1>2, <1>3, <1>6 DEF Plays
<1>9. r = [i \in Mon |-> [j \in Mon |-> Pending(Sent(n, m, c)[i][j], w[j].epoch, w[j].role)]]
  BY <1>4, <1>5 DEF Prune
<1>10. NetOK(w, r) /\ FirstHeard(w, r)
  BY <1>6, <1>7, <1>8, <1>9, NetStep
<1>11. \A p \in Mon : PlaceOK(w, p)
  BY <1>6, <1>7, <1>8, PlacesKept
<1>12. \A p \in Mon : MemOK(w[p], p, mem'[p])
  <2>1. \A p \in Mon \ {m} : mem'[p] = mem[p] /\ w[p] = v[p]
    BY <1>6 DEF Inv, Moves
  <2>2. \A p \in Mon : MemOK(v[p], p, mem[p])
    BY <1>1 DEF Inv
  <2>3. mem'[m] = s
    BY DEF Inv
  <2> QED
    BY <1>6, <2>1, <2>2, <2>3
<1>13. DOMAIN mem' = Mon
  BY DEF Inv
<1>14. NetOK(View', net') /\ FirstHeard(View', net')
  BY <1>4, <1>5, <1>10
<1>15. \A p \in Mon : PlaceOK(View', p) /\ MemOK(View'[p], p, mem'[p])
  BY <1>5, <1>11, <1>12
<1> QED
  BY <1>13, <1>14, <1>15, <1>5, ViewBecomes DEF Inv, Views

LEMMA CallIs ==
  ASSUME Inv, NEW m \in Mon
  PROVE  /\ IsCall(Call(m)) /\ (role[m] = "leader" => LeaderCall(m, Call(m)))
         /\ Call(m).s = mem[m] /\ Call(m).epoch = epoch[m] /\ Call(m).quorum = quorum[m]
         /\ \A j \in Mon : Call(m).sent[j] = <<>>
<1> DEFINE c == Call(m)
<1>1. /\ DOMAIN c = {"s", "st", "epoch", "quorum", "sent"}
      /\ c.s = mem[m] /\ c.epoch = epoch[m] /\ c.quorum = quorum[m]
      /\ c.sent = [j \in Mon |-> <<>>]
  BY DEF Call
<1> HIDE DEF c
<1>2. MemOK(At(m), m, mem[m]) /\ At(m).quorum = quorum[m] /\ At(m).role = role[m]
  BY ViewIs DEF Inv, At
<1>3. IsCall(c)
  BY <1>1, <1>2, EmptyIs DEF IsCall, MemOK
<1>4. Speaks(m, c) /\ (role[m] = "leader" => LeaderMem(m, c))
  BY <1>1, <1>2, EmptyIs DEF Speaks, LeaderMem, MemOK, TimedWait
<1> QED
  BY <1>1, <1>3, <1>4 DEF LeaderCall, c

LEMMA TakesNone ==
  ASSUME Inv, NEW m \in Mon, NEW w
  PROVE  Takes(net, net, w, m)
BY DEF Inv, NetOK, Takes

LEMMA AtFields ==
  ASSUME NEW m \in Mon
  PROVE  /\ At(m).epoch = epoch[m] /\ At(m).role = role[m] /\ At(m).leader = leader[m]
         /\ At(m).quorum = quorum[m] /\ At(m).flushing = flushing[m]
BY DEF At

LEMMA HeadIs ==
  ASSUME Inv, NEW m \in Mon, NEW from \in Mon, net[from][m] # <<>>
  PROVE  LET msg == Head(net[from][m]) IN
         /\ from # m /\ net[from][m][1] = msg /\ IsSeq(net[from][m])
         /\ MessageOK(View, net[from][m], 1, from, m)
         /\ ~flushing[m] => Heard(msg, epoch[m], role[m])
<1>1. PICK q : q = net[from][m]
  OBVIOUS
<1>2. IsSeq(q) /\ \A k \in 1 .. Len(q) : MessageOK(View, q, k, from, m)
  BY <1>1 DEF Inv, NetOK, SessionOK
<1>3. Len(q) >= 1 /\ Len(q) \in Nat /\ Head(q) = q[1]
  BY <1>1, <1>2, TailIs DEF IsSeq
<1>4. MessageOK(View, q, 1, from, m)
  BY <1>2, <1>3
<1>5. ~flushing[m] => Heard(q[1], epoch[m], role[m])
  <2>1. /\ View[m].flushing = flushing[m] /\ View[m].epoch = epoch[m] /\ View[m].role = role[m]
    BY ViewIs, AtFields
  <2>2. q # <<>> /\ ~View[m].flushing => Heard(q[1], View[m].epoch, View[m].role)
    BY <1>1 DEF Inv, FirstHeard
  <2> QED
    BY <1>1, <2>1, <2>2
<1> QED
  BY <1>1, <1>2, <1>3, <1>4, <1>5 DEF MessageOK

LEMMA TakesHead ==
  ASSUME Inv, NEW m \in Mon, NEW from \in Mon, net[from][m] # <<>>, NEW w,
         Head(net[from][m]).op = "victory" => Bound(w[m], from, Head(net[from][m]).epoch)
  PROVE  Takes(net, Consumed(from, m), w, m)
<1>1. from # m /\ net[from][m][1] = Head(net[from][m])
  BY HeadIs
<1>2. net = [i \in Mon |-> [j \in Mon |-> net[i][j]]]
  BY DEF Inv, NetOK
<1>3. Consumed(from, m) = [i \in Mon |-> [j \in Mon |->
          IF i = from /\ j = m THEN Tail(net[i][j]) ELSE net[i][j]]]
  BY <1>2 DEF Consumed
<1>4. PICK n : n = Consumed(from, m)
  OBVIOUS
<1>5. /\ n = [i \in Mon |-> [j \in Mon |-> n[i][j]]]
      /\ \A i, j \in Mon : n[i][j] = IF i = from /\ j = m THEN Tail(net[i][j]) ELSE net[i][j]
  BY <1>3, <1>4
<1>6. Takes(net, n, w, m)
  BY <1>1, <1>5 DEF Takes
<1> QED
  BY <1>4, <1>6

LEMMA SilentOK ==
  ASSUME NEW w, NEW n, NEW m, NEW c, \A j \in Mon : c.sent[j] = <<>>
  PROVE  SendsOK(w, n, m, c)
BY EmptyIs DEF SendsOK

LEMMA ReturnInv ==
  ASSUME Inv, NEW m \in Mon, NEW c, IsCall(c), NEW n, Return(m, c, n),
         MemOK(At(m), m, c.s), Takes(net, n, View, m), SendsOK(View, n, m, c)
  PROVE  Inv'
<1>1. PICK x : x = At(m)
  OBVIOUS
<1>2. x \in Place /\ View[m] = x /\ [View EXCEPT ![m] = x] = View
  BY <1>1, ViewIs DEF Views
<1>3. Becomes(m, x)
  BY <1>1 DEF Return, Becomes, At, Inv
<1>4. Evolves(At(m), x) /\ MemOK(x, m, c.s)
  BY <1>1 DEF Evolves
<1>5. Plays([View EXCEPT ![m] = x], m, net, n, c)
  BY <1>1, <1>2 DEF Plays, Inv
<1>6. mem' = [mem EXCEPT ![m] = c.s] /\ DOMAIN store' = Mon /\ net' = Prune(Sent(n, m, c))
  BY DEF Return, Inv
<1> QED
  BY <1>2, <1>3, <1>4, <1>5, <1>6, InvStep

Gone(e, r) == [epoch |-> e, role |-> r, leader |-> None, quorum |-> {}, flushing |-> FALSE]

LEMMA GoneIs ==
  ASSUME NEW e \in Nat, NEW r \in {"probing", "electing"}
  PROVE  /\ Gone(e, r) \in Place /\ ~Leading(Gone(e, r))
         /\ Gone(e, r).epoch = e /\ Gone(e, r).role = r /\ Gone(e, r).flushing = FALSE
         /\ Gone(e, r).leader = None /\ Gone(e, r).quorum = {}
BY DEF Gone, Place, Role, Leading

LEMMA ResetIs ==
  ASSUME NEW s
  PROVE  LET t == Reset(s) IN
         /\ IsMem(t) /\ t.state = "recovering" /\ t.timers = {}
         /\ t.peer_last_committed = [p \in Mon |-> None]
BY DEF Reset, Loaded, IsMem, State

LEMMA LeaveInv ==
  ASSUME Inv, NEW m \in Mon, NEW c, IsCall(c), NEW n, NEW e \in Nat,
         NEW r \in {"probing", "electing"}, r = "electing" => e % 2 = 1,
         Leave(m, c, e, r, n), Evolves(At(m), Gone(e, r)),
         Takes(net, n, [View EXCEPT ![m] = Gone(e, r)], m),
         SendsOK([View EXCEPT ![m] = Gone(e, r)], n, m, c)
  PROVE  Inv'
<1>1. PICK x : x = Gone(e, r)
  OBVIOUS
<1>2. /\ x \in Place /\ ~Leading(x) /\ x.epoch = e /\ x.role = r /\ x.flushing = FALSE
      /\ x.leader = None /\ x.quorum = {}
  BY <1>1, GoneIs
<1>3. Becomes(m, x)
  BY <1>2 DEF Leave, Becomes
<1>4. PICK s : s = Reset(c.s)
  OBVIOUS
<1>5. MemOK(x, m, s)
  BY <1>2, <1>4, ResetIs DEF MemOK, TimedWait, Writing
<1>6. PICK w : w = [View EXCEPT ![m] = x]
  OBVIOUS
<1>7. w[m] = x
  BY <1>6, ViewIs DEF Views
<1>8. PlaceOK(w, m)
  BY <1>2, <1>7 DEF PlaceOK, InQuorum
<1>9. Plays(w, m, net, n, c)
  BY <1>1, <1>2, <1>6, <1>7, <1>8 DEF Plays
<1>10. mem' = [mem EXCEPT ![m] = s] /\ DOMAIN store' = Mon /\ net' = Prune(Sent(n, m, c))
  BY <1>4 DEF Leave, Inv
<1> QED
  BY <1>1, <1>2, <1>3, <1>5, <1>6, <1>9, <1>10, InvStep

----------------------------------------------------------------------------
(* The election.                                                           *)

LEMMA Facts ==
  ASSUME Inv, NEW m \in Mon
  PROVE  /\ epoch[m] \in Nat /\ role[m] \in Role /\ flushing[m] \in BOOLEAN
         /\ leader[m] \in Mon \union {None} /\ quorum[m] \in SUBSET Mon
         /\ role[m] = "electing" => epoch[m] % 2 = 1
         /\ flushing[m] => role[m] = "leader" /\ epoch[m] % 2 = 1
         /\ role[m] \in InQuorum /\ ~flushing[m] => epoch[m] % 2 = 0
         /\ role[m] = "peon" => leader[m] \in Mon \ {m} /\ Leads(View[leader[m]], m, epoch[m])
         /\ MemOK(At(m), m, mem[m])
         /\ Writing(mem[m]) => role[m] = "leader"
<1>1. View[m] = At(m) /\ PlaceOK(View, m) /\ MemOK(At(m), m, mem[m])
  BY ViewIs DEF Inv
<1>2. /\ epoch[m] \in Nat /\ role[m] \in Role /\ flushing[m] \in BOOLEAN
      /\ leader[m] \in Mon \union {None} /\ quorum[m] \in SUBSET Mon
  BY DEF Inv
<1>3. /\ role[m] = "electing" => epoch[m] % 2 = 1
      /\ flushing[m] => role[m] = "leader" /\ epoch[m] % 2 = 1
      /\ role[m] \in InQuorum /\ ~flushing[m] => epoch[m] % 2 = 0
      /\ role[m] = "peon" => leader[m] \in Mon \ {m} /\ Leads(View[leader[m]], m, epoch[m])
  BY <1>1, AtFields DEF PlaceOK
<1> QED
  BY <1>1, <1>2, <1>3, AtFields DEF MemOK

LEMMA NextOddIs ==
  ASSUME NEW e \in Nat
  PROVE  NextOdd(e) \in Nat /\ NextOdd(e) > e /\ NextOdd(e) % 2 = 1
BY DEF NextOdd

(* Leaving without a message or a word.                                    *)
LEMMA LeaveQuietly ==
  ASSUME Inv, NEW m \in Mon, NEW e \in Nat, NEW r \in {"probing", "electing"},
         r = "electing" => e % 2 = 1, Evolves(At(m), Gone(e, r)),
         Leave(m, Call(m), e, r, net)
  PROVE  Inv'
<1>1. PICK n : n = net
  OBVIOUS
<1>2. PICK c : c = Call(m)
  OBVIOUS
<1>3. IsCall(c) /\ \A j \in Mon : c.sent[j] = <<>>
  BY <1>2, CallIs
<1>4. SendsOK([View EXCEPT ![m] = Gone(e, r)], n, m, c)
  BY <1>3, SilentOK
<1>5. Takes(net, n, [View EXCEPT ![m] = Gone(e, r)], m)
  BY <1>1, TakesNone
<1>6. Leave(m, c, e, r, n)
  BY <1>1, <1>2
<1> QED
  BY <1>3, <1>4, <1>5, <1>6, LeaveInv

LEMMA StartElectionInv ==
  ASSUME Inv, NEW m \in Mon, start_election(m)
  PROVE  Inv'
<1>1. PICK e : e = NextOdd(epoch[m])
  OBVIOUS
<1>2. e \in Nat /\ e > epoch[m] /\ e % 2 = 1
  BY <1>1, Facts, NextOddIs
<1>3. Leave(m, Call(m), e, "electing", net)
  BY <1>1 DEF start_election
<1>4. Evolves(At(m), Gone(e, "electing"))
  BY <1>2, AtFields, GoneIs DEF Evolves
<1> QED
  BY <1>2, <1>3, <1>4, LeaveQuietly

LEMMA JoinElectionInv ==
  ASSUME Inv, NEW m \in Mon, NEW p \in Mon, join_election(m, p)
  PROVE  Inv'
<1>1. PICK e : e = epoch[p]
  OBVIOUS
<1>2. e \in Nat /\ e > epoch[m] /\ e % 2 = 1
  BY <1>1, Facts DEF join_election
<1>3. CASE Leave(m, Call(m), epoch[p], "electing", net)
  <2>1. Evolves(At(m), Gone(e, "electing"))
    BY <1>2, AtFields, GoneIs DEF Evolves
  <2> QED
    BY <1>1, <1>2, <1>3, <2>1, LeaveQuietly
<1>4. CASE /\ Writing(mem[m])
           /\ epoch' = [epoch EXCEPT ![m] = epoch[p]]
           /\ flushing' = [flushing EXCEPT ![m] = TRUE]
           /\ UNCHANGED <<role, leader, quorum, mem, store, net>>
  <2>1. PICK x : x = [epoch |-> e, role |-> "leader", leader |-> leader[m],
                      quorum |-> quorum[m], flushing |-> TRUE]
    OBVIOUS
  <2>2. /\ x \in Place /\ x.epoch = e /\ x.role = "leader" /\ x.flushing = TRUE
        /\ x.quorum = quorum[m] /\ x.leader = leader[m]
    BY <1>2, <2>1, Facts DEF Place, Role
  <2>3. role[m] = "leader"
    BY <1>4, Facts
  <2>4. Becomes(m, x)
    BY <1>1, <1>4, <2>2, <2>3 DEF Becomes, Inv
  <2>5. PICK v : v = View
    OBVIOUS
  <2>6. PICK w : w = [v EXCEPT ![m] = x]
    OBVIOUS
  <2>7. View' = w /\ w \in Views /\ v \in Views
    BY <2>2, <2>4, <2>5, <2>6, ViewBecomes, ViewIs
  <2>8. /\ w[m] = x /\ v[m] = At(m) /\ \A i \in Mon \ {m} : w[i] = v[i]
    BY <2>5, <2>6, <2>7, ViewIs DEF Views
  <2>9. Moves(v, w, m)
    BY <1>2, <2>2, <2>7, <2>8, AtFields DEF Moves, Evolves
  <2>10. \A i \in Mon : PlaceOK(v, i)
    BY <2>5 DEF Inv
  <2>11. PlaceOK(w, m)
    BY <1>2, <2>2, <2>8 DEF PlaceOK
  <2>12. \A i \in Mon : PlaceOK(w, i)
    BY <2>9, <2>10, <2>11, PlacesKept
  <2>13. NetOK(w, net)
    <3>1. ASSUME NEW i \in Mon, NEW j \in Mon PROVE SessionOK(w, net[i][j], i, j)
      <4>1. PICK q : q = net[i][j]
        OBVIOUS
      <4>2. MessagesOK(v, q, i, j) /\ Told(v, q, i, j)
        BY <2>5, <4>1, SessionIs DEF Inv, NetOK
      <4>3. \A l \in Mon : Evolves(v[l], w[l])
        BY <2>9, EvolveAll
      <4>4. Leading(w[i]) => w[i] = v[i]
        BY <2>2, <2>8 DEF Leading
      <4> QED
        BY <2>7, <2>10, <4>1, <4>2, <4>3, <4>4, MessagesKept, ToldKept, SessionIs
    <3> QED
      BY <3>1 DEF NetOK, Inv
  <2>14. FirstHeard(w, net)
    BY <2>2, <2>5, <2>8 DEF Inv, FirstHeard
  <2>15. \A i \in Mon : MemOK(w[i], i, mem[i])
    <3>1. MemOK(At(m), m, mem[m]) /\ \A i \in Mon : MemOK(v[i], i, mem[i])
      BY <2>5, Facts DEF Inv
    <3>2. MemOK(x, m, mem[m])
      BY <2>2, <2>3, <3>1, AtFields DEF MemOK
    <3> QED
      BY <2>8, <3>1, <3>2
  <2>16. mem' = mem /\ store' = store /\ net' = net
    BY <1>4
  <2>17. NetOK(View', net') /\ FirstHeard(View', net')
    BY <2>7, <2>13, <2>14, <2>16
  <2>18. \A i \in Mon : PlaceOK(View', i) /\ MemOK(View'[i], i, mem'[i])
    BY <2>7, <2>12, <2>15, <2>16
  <2>19. DOMAIN mem' = Mon /\ DOMAIN store' = Mon
    BY <2>16 DEF Inv
  <2> QED
    BY <2>2, <2>4, <2>7, <2>17, <2>18, <2>19, ViewBecomes DEF Inv, Views
<1> QED
  BY <1>3, <1>4 DEF join_election

(* The winner tells its peers first that it has won, then collects.        *)
LEMMA WinElectionInv ==
  ASSUME Inv, NEW m \in Mon, win_election(m)
  PROVE  Inv'
<1>1. PICK q \in SUBSET {p \in Mon : p >= m /\ epoch[p] >= epoch[m]} :
        LET c == [Call(m) EXCEPT !.s = Reset(@), !.epoch = @ + 1, !.quorum = q]
            v == SendTo(c, Peers(m, c), [op |-> "victory", epoch |-> c.epoch, quorum |-> q])
        IN  Join(m, [collect(m, v, 0) EXCEPT !.s.pending = TRUE], "leader", m, net)
  BY DEF win_election
<1>2. role[m] = "electing" /\ epoch[m] \in Nat /\ epoch[m] % 2 = 1 /\ flushing[m] = FALSE
  BY Facts DEF win_election
<1>3. q \in SUBSET Mon /\ \A p \in q : epoch[p] >= epoch[m]
  OBVIOUS
<1>4. PICK c : c = [Call(m) EXCEPT !.s = Reset(@), !.epoch = @ + 1, !.quorum = q]
  OBVIOUS
<1>5. PICK victory : victory = [op |-> "victory", epoch |-> c.epoch, quorum |-> q]
  OBVIOUS
<1>6. PICK t : t = SendTo(c, Peers(m, c), victory)
  OBVIOUS
<1>7. PICK d : d = [collect(m, t, 0) EXCEPT !.s.pending = TRUE]
  OBVIOUS
<1>8. Join(m, d, "leader", m, net)
  BY <1>1, <1>4, <1>5, <1>6, <1>7
<1> DEFINE e == epoch[m] + 1
<1>9. /\ IsCall(c) /\ c.epoch = e /\ c.quorum = q /\ \A j \in Mon : c.sent[j] = <<>>
      /\ c.s.timers = {}
  <2>1. /\ DOMAIN c = {"s", "st", "epoch", "quorum", "sent"}
        /\ c.s = Reset(mem[m]) /\ c.epoch = e /\ c.quorum = q /\ c.sent = Call(m).sent
    BY <1>4 DEF Call
  <2> QED
    BY <2>1, CallIs, ResetIs DEF IsCall
<1>10. /\ victory.op = "victory" /\ victory.epoch = e /\ victory.quorum = q
  BY <1>5, <1>9
<1>11. /\ IsCall(t) /\ t.epoch = e /\ t.quorum = q /\ t.s.timers = {}
       /\ \A j \in Mon : t.sent[j] = IF j \in q \ {m} THEN Append(<<>>, victory) ELSE <<>>
  <2>1. Peers(m, c) = q \ {m}
    BY <1>9 DEF Peers
  <2>2. /\ IsCall(t) /\ t.epoch = c.epoch /\ t.quorum = c.quorum /\ t.s = c.s
        /\ \A j \in Mon :
               t.sent[j] = IF j \in Peers(m, c) THEN Append(c.sent[j], victory) ELSE c.sent[j]
    BY <1>6, <1>9, SentTo
  <2> QED
    BY <1>9, <2>1, <2>2
<1>12. PICK b, msg :
            /\ collect(m, t, 0) = SendTo(b, Peers(m, b), msg)
            /\ msg.op = "collect" /\ msg.epoch = t.epoch
            /\ IsCall(b) /\ b.epoch = t.epoch /\ b.quorum = t.quorum /\ b.sent = t.sent
            /\ b.s.state = "recovering" /\ b.s.timers = t.s.timers \union {"collect"}
            /\ b.s.peer_last_committed = [p \in Mon |-> None]
  <2>1. IsCall(t)
    BY <1>11
  <2>2. \A z : StartsRecovery(m, t, collect(m, t, z))
    BY <2>1, CollectIs
  <2> QED
    BY <2>2 DEF StartsRecovery
<1>13. PICK f : f = SendTo(b, Peers(m, b), msg)
  OBVIOUS
<1>14. /\ IsCall(f) /\ f.s = b.s /\ f.epoch = e /\ f.quorum = q
       /\ \A j \in Mon : f.sent[j] = IF j \in q \ {m} THEN Append(t.sent[j], msg) ELSE t.sent[j]
  BY <1>11, <1>12, <1>13, SentTo DEF Peers
<1>15. /\ IsCall(d) /\ d.epoch = e /\ d.quorum = q /\ d.sent = f.sent
       /\ d.s.state = "recovering" /\ d.s.timers = {"collect"}
       /\ d.s.peer_last_committed = [p \in Mon |-> None]
  <2>1. /\ DOMAIN d = {"s", "st", "epoch", "quorum", "sent"}
        /\ d.epoch = e /\ d.quorum = q /\ d.sent = f.sent
        /\ d.s = [f.s EXCEPT !.pending = TRUE]
    BY <1>7, <1>12, <1>13, <1>14 DEF IsCall
  <2>2. /\ IsMem(d.s) /\ d.s.state = f.s.state /\ d.s.timers = f.s.timers
        /\ d.s.peer_last_committed = f.s.peer_last_committed
    BY <1>14, <2>1 DEF IsCall, IsMem
  <2> QED
    BY <1>11, <1>12, <1>14, <2>1, <2>2 DEF IsCall
<1>16. ASSUME NEW j \in Mon
       PROVE  \/ j \notin q \ {m} /\ d.sent[j] = <<>>
              \/ /\ j \in q \ {m} /\ IsSeq(d.sent[j]) /\ Len(d.sent[j]) = 2
                 /\ d.sent[j][1] = victory /\ d.sent[j][2] = msg
  <2>1. CASE j \notin q \ {m}
    BY <1>11, <1>14, <1>15, <2>1
  <2>2. CASE j \in q \ {m}
    <3>1. PICK a : a = Append(<<>>, victory)
      OBVIOUS
    <3>2. IsSeq(a) /\ Len(a) = 0 + 1 /\ a[0 + 1] = victory
      BY <3>1, EmptyIs, AppendIs
    <3>3. d.sent[j] = Append(a, msg)
      BY <1>11, <1>14, <1>15, <2>2, <3>1
    <3>4. /\ IsSeq(d.sent[j]) /\ Len(d.sent[j]) = Len(a) + 1 /\ d.sent[j][Len(a) + 1] = msg
          /\ \A k \in 1 .. Len(a) : d.sent[j][k] = a[k]
      <4>1. PICK z : z = Append(a, msg)
        OBVIOUS
      <4>2. IsSeq(z) /\ Len(z) = Len(a) + 1 /\ z[Len(a) + 1] = msg
            /\ \A k \in 1 .. Len(a) : z[k] = a[k]
        BY <3>2, <4>1, AppendIs
      <4> QED
        BY <3>3, <4>1, <4>2
    <3> QED
      BY <2>2, <3>2, <3>4
  <2> QED
    BY <2>1, <2>2
<1>17. PICK x : x = [epoch |-> e, role |-> "leader", leader |-> m, quorum |-> q,
                     flushing |-> FALSE]
  OBVIOUS
<1>18. /\ x \in Place /\ x.epoch = e /\ x.role = "leader" /\ x.flushing = FALSE
       /\ x.quorum = q /\ x.leader = m
  BY <1>2, <1>3, <1>17 DEF Place, Role
<1>19. Becomes(m, x)
  BY <1>2, <1>8, <1>15, <1>18 DEF Becomes, Join, Inv
<1>20. Evolves(At(m), x)
  BY <1>2, <1>18, AtFields DEF Evolves
<1>21. PICK w : w = [View EXCEPT ![m] = x]
  OBVIOUS
<1>22. w[m] = x /\ \A p \in Mon \ {m} : w[p] = At(p)
  BY <1>21, ViewIs DEF Views
<1>23. PlaceOK(w, m)
  BY <1>2, <1>18, <1>22 DEF PlaceOK
<1>24. PICK n : n = net
  OBVIOUS
<1>25. ASSUME NEW j \in q \ {m}
       PROVE  LET r == n[m][j] \o d.sent[j] IN
              /\ Announced(r, Len(r) + 1, e)
              /\ \A k \in 1 .. Len(d.sent[j]) : MessageOK(w, r, Len(n[m][j]) + k, m, j)
  <2>1. PICK o : o = n[m][j]
    OBVIOUS
  <2>2. PICK s : s = d.sent[j]
    OBVIOUS
  <2>3. j \in Mon /\ IsSeq(s) /\ Len(s) = 2 /\ s[1] = victory /\ s[2] = msg
    BY <1>3, <1>16, <2>2
  <2>4. IsSeq(o) /\ Len(o) \in Nat
    BY <1>24, <2>1, <2>3 DEF Inv, NetOK, SessionOK, IsSeq
  <2>5. PICK r : r = o \o s
    OBVIOUS
  <2>6. Len(r) = Len(o) + 2 /\ r[Len(o) + 1] = victory /\ r[Len(o) + 2] = msg
    <3>1. Len(r) = Len(o) + Len(s) /\ \A k \in 1 .. Len(s) : r[Len(o) + k] = s[k]
      <4>1. IsSeq(s) /\ IsSeq(o)
        BY <2>3, <2>4
      <4> QED
        BY <2>5, <4>1, ConcatIs
    <3>2. 1 \in 1 .. Len(s) /\ 2 \in 1 .. Len(s)
      BY <2>3
    <3> QED
      BY <2>3, <3>1, <3>2
  <2>7. Len(o) + 1 \in 1 .. (Len(r) + 1) - 1 /\ Len(o) + 1 \in 1 .. (Len(o) + 2) - 1
    BY <2>4, <2>6
  <2>8. Announced(r, Len(r) + 1, e) /\ Announced(r, Len(o) + 2, e)
    BY <1>10, <2>6, <2>7 DEF Announced
  <2>9. MessageOK(w, r, Len(o) + 1, m, j)
    <3>1. w[j].epoch >= e - 1 /\ e % 2 = 0 /\ e \in Nat
      BY <1>2, <1>3, <1>22, <2>3, AtFields, Facts
    <3>2. Leads(w[m], j, e)
      BY <1>18, <1>22 DEF Leads
    <3> QED
      BY <1>3, <1>10, <2>6, <3>1, <3>2 DEF MessageOK, LeaderOp, ReplyOp
  <2>10. MessageOK(w, r, Len(o) + 2, m, j)
    <3>1. msg.op = "collect" /\ msg.epoch = e /\ e \in Nat
      BY <1>2, <1>11, <1>12
    <3> QED
      BY <2>6, <2>8, <3>1 DEF MessageOK, LeaderOp, ReplyOp
  <2>11. \A k \in 1 .. Len(s) : k = 1 \/ k = 2
    BY <2>3
  <2> QED
    BY <2>1, <2>2, <2>5, <2>8, <2>9, <2>10, <2>11
<1>26. SendsOK(w, n, m, d)
  <2> SUFFICES ASSUME NEW j \in Mon, NEW k \in 1 .. Len(d.sent[j])
               PROVE  MessageOK(w, n[m][j] \o d.sent[j], Len(n[m][j]) + k, m, j)
    BY DEF SendsOK
  <2>1. j \in q \ {m}
    BY <1>16, EmptyIs
  <2> QED
    BY <1>25, <2>1
<1>27. \A j \in Mon : Told(w, n[m][j] \o d.sent[j], m, j)
  BY <1>18, <1>22, <1>25 DEF Told
<1>28. Takes(net, n, w, m)
  BY <1>24, TakesNone
<1>29. Plays(w, m, net, n, d)
  BY <1>23, <1>26, <1>27, <1>28 DEF Plays
<1>30. MemOK(x, m, d.s)
  BY <1>15, <1>18 DEF MemOK, IsCall, TimedWait, Updating, Writing
<1>31. mem' = [mem EXCEPT ![m] = d.s] /\ DOMAIN store' = Mon /\ net' = Prune(Sent(n, m, d))
  BY <1>8, <1>24 DEF Join, Inv
<1> QED
  BY <1>15, <1>18, <1>19, <1>20, <1>21, <1>29, <1>30, <1>31, InvStep

(* Leaving upon the message at the head of a session.                      *)
LEMMA LeaveUpon ==
  ASSUME Inv, NEW m \in Mon, NEW from \in Mon, net[from][m] # <<>>,
         NEW e \in Nat, NEW r \in {"probing", "electing"}, r = "electing" => e % 2 = 1,
         Evolves(At(m), Gone(e, r)),
         Head(net[from][m]).op = "victory" => Bound(Gone(e, r), from, Head(net[from][m]).epoch),
         NEW c, IsCall(c), SendsOK([View EXCEPT ![m] = Gone(e, r)], Consumed(from, m), m, c),
         Leave(m, c, e, r, Consumed(from, m))
  PROVE  Inv'
<1>1. PICK w : w = [View EXCEPT ![m] = Gone(e, r)]
  OBVIOUS
<1>2. w[m] = Gone(e, r)
  BY <1>1, ViewIs DEF Views
<1>3. Takes(net, Consumed(from, m), w, m)
  BY <1>2, TakesHead
<1>4. PICK n : n = Consumed(from, m)
  OBVIOUS
<1>5. Takes(net, n, w, m) /\ SendsOK(w, n, m, c) /\ Leave(m, c, e, r, n)
  BY <1>1, <1>3, <1>4
<1> QED
  BY <1>1, <1>5, LeaveInv

(* Returning after the message at the head of a session.                   *)
LEMMA ReturnFrom ==
  ASSUME Inv, NEW m \in Mon, NEW from \in Mon, net[from][m] # <<>>,
         Head(net[from][m]).op = "victory" => Bound(At(m), from, Head(net[from][m]).epoch),
         NEW c, IsCall(c), MemOK(At(m), m, c.s), SendsOK(View, Consumed(from, m), m, c),
         Return(m, c, Consumed(from, m))
  PROVE  Inv'
<1>1. PICK w : w = View
  OBVIOUS
<1>2. w[m] = At(m)
  BY <1>1, ViewIs
<1>3. Takes(net, Consumed(from, m), w, m)
  BY <1>2, TakesHead
<1>4. PICK n : n = Consumed(from, m)
  OBVIOUS
<1>5. Takes(net, n, View, m) /\ SendsOK(View, n, m, c) /\ Return(m, c, n)
  BY <1>1, <1>3, <1>4
<1> QED
  BY <1>5, ReturnInv

LEMMA VictoryInv ==
  ASSUME Inv, NEW m \in Mon, NEW from \in Mon, net[from][m] # <<>>, ~flushing[m],
         Head(net[from][m]).op = "victory", handle_victory(m, from, Head(net[from][m]))
  PROVE  Inv'
<1>1. PICK msg : msg = Head(net[from][m])
  OBVIOUS
<1> DEFINE e == msg.epoch
           n == Consumed(from, m)
<1>2. /\ from # m /\ Heard(msg, epoch[m], role[m])
      /\ MessageOK(View, net[from][m], 1, from, m) /\ net[from][m][1] = msg
  BY <1>1, HeadIs
<1>3. /\ e \in Nat /\ e % 2 = 0 /\ View[m].epoch >= e - 1 /\ View[m] = At(m)
      /\ msg.quorum \in SUBSET Mon /\ Leads(View[from], m, e)
  BY <1>1, <1>2, ViewIs DEF MessageOK
<1>4. epoch[m] \in Nat /\ epoch[m] >= e - 1 /\ epoch[m] <= e
  BY <1>2, <1>3, Facts, AtFields DEF Heard
<1>5. /\ IsCall(Call(m)) /\ \A j \in Mon : Call(m).sent[j] = <<>>
      /\ Call(m).s = mem[m] /\ Call(m).st = store[m]
  BY CallIs DEF Call
<1>6. CASE role[m] = "probing" /\ Return(m, Call(m), n)
  <2>1. Bound(At(m), from, e)
    <3>1. epoch[m] = e - 1
      BY <1>2, <1>3, <1>4, <1>6 DEF Heard
    <3> QED
      BY <1>6, <3>1, AtFields DEF Bound
  <2>2. SendsOK(View, n, m, Call(m))
    BY <1>5, SilentOK
  <2>3. MemOK(At(m), m, mem[m])
    BY Facts
  <2>4. PICK c : c = Call(m)
    OBVIOUS
  <2> QED
    BY <1>1, <1>5, <1>6, <2>1, <2>2, <2>3, <2>4, ReturnFrom
<1>7. CASE role[m] # "probing" /\ msg.epoch # epoch[m] + 1
           /\ Leave(m, Call(m), NextOdd(msg.epoch), "electing", n)
  <2>1. PICK o : o = NextOdd(e)
    OBVIOUS
  <2>2. o \in Nat /\ o > e /\ o % 2 = 1
    BY <1>3, <2>1, NextOddIs
  <2>3. Evolves(At(m), Gone(o, "electing"))
    <3>1. o > epoch[m]
      BY <1>3, <1>4, <2>2
    <3> QED
      BY <2>2, <3>1, AtFields, GoneIs DEF Evolves
  <2>4. Bound(Gone(o, "electing"), from, e)
    BY <2>2, GoneIs DEF Bound
  <2>5. SendsOK([View EXCEPT ![m] = Gone(o, "electing")], n, m, Call(m))
    BY <1>5, SilentOK
  <2>6. PICK c : c = Call(m)
    OBVIOUS
  <2>7. Leave(m, c, o, "electing", n)
    BY <1>7, <2>1, <2>6
  <2> QED
    BY <1>1, <1>5, <2>2, <2>3, <2>4, <2>5, <2>6, <2>7, LeaveUpon
<1>8. CASE /\ role[m] = "electing" /\ msg.epoch = epoch[m] + 1
           /\ Join(m, [Call(m) EXCEPT !.s = [Reset(mem[m]) EXCEPT !.timers = {"lease"}],
                                      !.epoch = msg.epoch, !.quorum = msg.quorum],
                   "peon", from, n)
  <2>1. PICK c : c = [Call(m) EXCEPT !.s = [Reset(mem[m]) EXCEPT !.timers = {"lease"}],
                                     !.epoch = msg.epoch, !.quorum = msg.quorum]
    OBVIOUS
  <2>2. /\ DOMAIN c = {"s", "st", "epoch", "quorum", "sent"}
        /\ c.s = [Reset(mem[m]) EXCEPT !.timers = {"lease"}]
        /\ c.epoch = e /\ c.quorum = msg.quorum /\ c.sent = Call(m).sent
    BY <2>1 DEF Call
  <2>3. /\ IsMem(c.s) /\ c.s.state = "recovering" /\ c.s.timers = {"lease"}
        /\ c.s.peer_last_committed = [p \in Mon |-> None]
    BY <2>2, ResetIs DEF IsMem
  <2>4. IsCall(c) /\ \A j \in Mon : c.sent[j] = <<>>
    BY <1>5, <2>2, <2>3 DEF IsCall
  <2>5. PICK x : x = [epoch |-> e, role |-> "peon", leader |-> from, quorum |-> msg.quorum,
                      flushing |-> FALSE]
    OBVIOUS
  <2>6. /\ x \in Place /\ x.epoch = e /\ x.role = "peon" /\ x.flushing = FALSE
        /\ x.quorum = msg.quorum /\ x.leader = from
    BY <1>3, <2>5 DEF Place, Role
  <2>7. Join(m, c, "peon", from, n)
    BY <1>8, <2>1
  <2>8. Becomes(m, x)
    <3>1. flushing[m] = FALSE /\ flushing \in [Mon -> BOOLEAN]
      BY Facts DEF Inv
    <3>2. flushing' = [flushing EXCEPT ![m] = x.flushing]
      BY <2>6, <2>7, <3>1 DEF Join
    <3> QED
      BY <2>2, <2>6, <2>7, <3>2 DEF Becomes, Join
  <2>9. Evolves(At(m), x)
    BY <1>8, <2>6, AtFields DEF Evolves
  <2>10. PICK w : w = [View EXCEPT ![m] = x]
    OBVIOUS
  <2>11. w[m] = x /\ w[from] = View[from]
    BY <1>2, <2>10, ViewIs DEF Views
  <2>12. PlaceOK(w, m)
    BY <1>2, <1>3, <2>6, <2>11 DEF PlaceOK
  <2>13. Bound(w[m], from, e)
    BY <2>6, <2>11 DEF Bound
  <2>14. Takes(net, n, w, m)
    BY <1>1, <2>13, TakesHead
  <2>15. PICK o : o = n
    OBVIOUS
  <2>16. SendsOK(w, o, m, c)
    BY <2>4, SilentOK
  <2>17. ~Leading(w[m])
    BY <2>6, <2>11 DEF Leading
  <2>18. Plays(w, m, net, o, c)
    BY <2>12, <2>14, <2>15, <2>16, <2>17 DEF Plays
  <2>19. MemOK(x, m, c.s)
    BY <2>3, <2>6 DEF MemOK, TimedWait, Writing
  <2>20. mem' = [mem EXCEPT ![m] = c.s] /\ DOMAIN store' = Mon /\ net' = Prune(Sent(o, m, c))
    BY <2>7, <2>15 DEF Join, Inv
  <2> QED
    BY <2>4, <2>6, <2>8, <2>9, <2>10, <2>18, <2>19, <2>20, InvStep
<1> QED
  BY <1>1, <1>6, <1>7, <1>8 DEF handle_victory

----------------------------------------------------------------------------
(* Paxos messages.                                                         *)

(* Of an epoch, only its leader's messages reach a peon, and only its      *)
(* peons' a leader.                                                        *)
LEMMA Roles ==
  ASSUME Inv, NEW m \in Mon, NEW from \in Mon, net[from][m] # <<>>, ~flushing[m],
         Head(net[from][m]).epoch = epoch[m]
  PROVE  LET msg == Head(net[from][m]) IN
         /\ from # m /\ epoch[m] \in Nat /\ epoch[m] % 2 = 0
         /\ msg.op \in LeaderOp => role[m] = "peon" /\ leader[m] = from
         /\ msg.op \in ReplyOp => role[m] = "leader" /\ from \in quorum[m]
<1>1. PICK msg : msg = Head(net[from][m])
  OBVIOUS
<1>2. PICK q : q = net[from][m]
  OBVIOUS
<1>3. /\ from # m /\ Heard(msg, epoch[m], role[m])
      /\ MessageOK(View, q, 1, from, m) /\ q[1] = msg
  BY <1>1, <1>2, HeadIs
<1>4. epoch[m] \in Nat /\ role[m] \in InQuorum /\ epoch[m] % 2 = 0
  BY <1>1, <1>3, Facts DEF Heard, InQuorum
<1>5. View[m] = At(m)
  BY ViewIs
<1>6. ASSUME msg.op \in LeaderOp PROVE role[m] = "peon" /\ leader[m] = from
  <2>1. Announced(q, 1, msg.epoch) \/ Bound(At(m), from, msg.epoch)
    BY <1>1, <1>3, <1>4, <1>5, <1>6 DEF MessageOK
  <2>2. ~Announced(q, 1, msg.epoch)
    BY DEF Announced
  <2> QED
    BY <1>1, <1>4, <2>1, <2>2, AtFields DEF Bound, InQuorum
<1>7. ASSUME msg.op \in ReplyOp PROVE role[m] = "leader" /\ from \in quorum[m]
  <2>1. Leads(At(m), from, msg.epoch)
    BY <1>1, <1>3, <1>4, <1>5, <1>7 DEF MessageOK
  <2> QED
    BY <1>1, <1>4, <2>1, AtFields DEF Leads, InQuorum
<1> QED
  BY <1>1, <1>3, <1>4, <1>6, <1>7

(* A leader goes on after calls d...                                       *)
LEMMA LeaderReturn ==
  ASSUME Inv, NEW m \in Mon, role[m] = "leader", NEW d, Continues(m, Call(m), d),
         TimedWait("leader", d.s), NEW n, Takes(net, n, View, m), Return(m, d, n)
  PROVE  Inv'
<1>1. d.epoch = epoch[m] /\ d.quorum = quorum[m] /\ IsCall(d) /\ Speaks(m, d) /\ LeaderMem(m, d)
  BY CallIs DEF Continues, LeaderCall
<1>2. MemOK(At(m), m, d.s)
  BY <1>1, AtFields DEF MemOK, IsCall, LeaderMem
<1>3. PICK v : v = View
  OBVIOUS
<1>4. PICK g : g = net
  OBVIOUS
<1>5. /\ v \in Views /\ v[m] = At(m) /\ PlaceOK(v, m) /\ NetOK(v, g)
  BY <1>3, <1>4, ViewIs DEF Inv
<1>6. Moves(v, v, m)
  BY <1>5 DEF Moves, Evolves
<1>7. v[m].role = "leader" /\ d.epoch = v[m].epoch /\ d.quorum = v[m].quorum
  BY <1>1, <1>5, AtFields
<1>8. Takes(g, n, v, m)
  BY <1>3, <1>4
<1>9. SendsOK(v, n, m, d)
  BY <1>1, <1>5, <1>6, <1>7, <1>8, SpeakOK
<1> QED
  BY <1>1, <1>2, <1>3, <1>9, ReturnInv

(* ...or leaves after them.                                                *)
LEMMA LeaderLeave ==
  ASSUME Inv, NEW m \in Mon, role[m] = "leader", NEW d, Continues(m, Call(m), d),
         NEW r \in {"probing", "electing"}, r = "electing" => epoch[m] % 2 = 1,
         NEW n, Takes(net, n, [View EXCEPT ![m] = Gone(epoch[m], r)], m),
         Leave(m, d, epoch[m], r, n)
  PROVE  Inv'
<1>1. d.epoch = epoch[m] /\ d.quorum = quorum[m] /\ IsCall(d) /\ Speaks(m, d)
  BY CallIs DEF Continues, LeaderCall
<1>2. PICK e \in Nat : e = epoch[m]
  BY Facts
<1>3. PICK v : v = View
  OBVIOUS
<1>4. PICK g : g = net
  OBVIOUS
<1>5. PICK w : w = [v EXCEPT ![m] = Gone(e, r)]
  OBVIOUS
<1>6. /\ v \in Views /\ v[m] = At(m) /\ PlaceOK(v, m) /\ NetOK(v, g)
  BY <1>3, <1>4, ViewIs DEF Inv
<1>7. Evolves(At(m), Gone(e, r))
  BY <1>2, AtFields, GoneIs DEF Evolves, InQuorum
<1>8. Moves(v, w, m)
  BY <1>2, <1>5, <1>6, <1>7, GoneIs DEF Moves, Views
<1>9. v[m].role = "leader" /\ d.epoch = v[m].epoch /\ d.quorum = v[m].quorum
  BY <1>1, <1>6, AtFields
<1>10. Takes(g, n, w, m)
  BY <1>2, <1>3, <1>4, <1>5
<1>11. SendsOK(w, n, m, d)
  BY <1>1, <1>6, <1>8, <1>9, <1>10, SpeakOK
<1> QED
  BY <1>1, <1>2, <1>3, <1>5, <1>7, <1>11, LeaveInv

(* What a peon sends to its leader.                                        *)
LEMMA ReplyOK ==
  ASSUME Inv, NEW m \in Mon, NEW from \in Mon, role[m] = "peon", leader[m] = from,
         NEW c, IsCall(c), \A j \in Mon : c.sent[j] = <<>>,
         NEW msg, msg.op \in ReplyOp, msg.epoch = epoch[m]
  PROVE  LET d == SendTo(c, {from}, msg) IN
         IsCall(d) /\ d.s = c.s /\ SendsOK(View, Consumed(from, m), m, d)
<1>1. PICK d : d = SendTo(c, {from}, msg)
  OBVIOUS
<1>2. /\ IsCall(d) /\ d.s = c.s
      /\ \A j \in Mon : d.sent[j] = IF j \in {from} THEN Append(c.sent[j], msg) ELSE c.sent[j]
  BY <1>1, SentTo
<1>3. from # m /\ Leads(View[from], m, epoch[m]) /\ epoch[m] \in Nat
  BY Facts
<1>4. Consumed(from, m)[m] = net[m]
  BY <1>3 DEF Consumed, Inv, NetOK
<1>5. ASSUME NEW j \in Mon, NEW k \in 1 .. Len(d.sent[j])
      PROVE  MessageOK(View, net[m][j] \o d.sent[j], Len(net[m][j]) + k, m, j)
  <2>1. j = from
    BY <1>2, EmptyIs
  <2>2. PICK s : s = d.sent[from]
    OBVIOUS
  <2>3. s = Append(<<>>, msg)
    BY <1>2, <2>2
  <2>4. IsSeq(s) /\ Len(s) = 1 /\ s[1] = msg
    <3>1. PICK z : z = <<>>
      OBVIOUS
    <3>2. IsSeq(z) /\ Len(z) = 0
      BY <3>1, EmptyIs
    <3>3. IsSeq(s) /\ Len(s) = Len(z) + 1 /\ s[Len(z) + 1] = msg
      BY <2>3, <3>1, <3>2, AppendIs
    <3> QED
      BY <3>2, <3>3
  <2>5. PICK q : q = net[m][from]
    OBVIOUS
  <2>6. IsSeq(q) /\ Len(q) \in Nat
    BY <2>5 DEF Inv, NetOK, SessionOK, IsSeq
  <2>7. PICK t : t = q \o s
    OBVIOUS
  <2>8. t[Len(q) + 1] = msg
    <3>1. IsSeq(s) /\ IsSeq(q)
      BY <2>4, <2>6
    <3>2. \A l \in 1 .. Len(s) : t[Len(q) + l] = s[l]
      BY <2>7, <3>1, ConcatIs
    <3>3. 1 \in 1 .. Len(s)
      BY <2>4
    <3> QED
      BY <2>4, <3>2, <3>3
  <2>9. MessageOK(View, t, Len(q) + 1, m, from)
    BY <1>3, <2>8 DEF MessageOK, LeaderOp, ReplyOp
  <2>10. k = 1
    BY <2>1, <2>2, <2>4
  <2> QED
    BY <2>1, <2>2, <2>5, <2>7, <2>9, <2>10
<1>6. SendsOK(View, Consumed(from, m), m, d)
  BY <1>4, <1>5 DEF SendsOK
<1> QED
  BY <1>1, <1>2, <1>6

LEMMA PeonWaits ==
  ASSUME Inv, NEW m \in Mon, role[m] = "peon"
  PROVE  mem[m].timers = {"lease"} /\ ~Writing(mem[m])
<1>1. MemOK(At(m), m, mem[m])
  BY Facts
<1> QED
  BY <1>1, AtFields DEF MemOK, TimedWait

LEMMA PeonMem ==
  ASSUME Inv, NEW m \in Mon, role[m] = "peon", NEW s, IsMem(s), s.timers = {"lease"},
         ~Writing(s), s.peer_last_committed = mem[m].peer_last_committed
  PROVE  MemOK(At(m), m, s)
<1>1. MemOK(At(m), m, mem[m])
  BY Facts
<1> QED
  BY <1>1, AtFields DEF MemOK, TimedWait

(* A handler that sends nothing...                                         *)
LEMMA QuietReturn ==
  ASSUME Inv, NEW m \in Mon, NEW from \in Mon, net[from][m] # <<>>,
         Head(net[from][m]).op # "victory",
         NEW c, IsCall(c), \A j \in Mon : c.sent[j] = <<>>, MemOK(At(m), m, c.s),
         Return(m, c, Consumed(from, m))
  PROVE  Inv'
<1>1. SendsOK(View, Consumed(from, m), m, c)
  BY SilentOK
<1> QED
  BY <1>1, ReturnFrom

(* ...or only a peon's answer.                                             *)
LEMMA ReplyReturn ==
  ASSUME Inv, NEW m \in Mon, NEW from \in Mon, net[from][m] # <<>>,
         Head(net[from][m]).op # "victory", role[m] = "peon", leader[m] = from,
         NEW c, IsCall(c), \A j \in Mon : c.sent[j] = <<>>, MemOK(At(m), m, c.s),
         NEW msg, msg.op \in ReplyOp, msg.epoch = epoch[m],
         Return(m, SendTo(c, {from}, msg), Consumed(from, m))
  PROVE  Inv'
<1>1. PICK d : d = SendTo(c, {from}, msg)
  OBVIOUS
<1>2. IsCall(d) /\ d.s = c.s /\ SendsOK(View, Consumed(from, m), m, d)
  BY <1>1, ReplyOK
<1>3. Return(m, d, Consumed(from, m)) /\ MemOK(At(m), m, d.s)
  BY <1>1, <1>2
<1> QED
  BY <1>2, <1>3, ReturnFrom

(* A bootstrap without a word upon a Paxos message.                        *)
LEMMA BootstrapUpon ==
  ASSUME Inv, NEW m \in Mon, NEW from \in Mon, net[from][m] # <<>>,
         Head(net[from][m]).op # "victory", bootstrap(m, Call(m), Consumed(from, m))
  PROVE  Inv'
<1>1. PICK e \in Nat : e = epoch[m]
  BY Facts
<1>2. PICK r \in {"probing", "electing"} : r = "probing"
  OBVIOUS
<1>3. PICK c : c = Call(m)
  OBVIOUS
<1>4. IsCall(c) /\ \A j \in Mon : c.sent[j] = <<>>
  BY <1>3, CallIs
<1>5. Leave(m, c, e, r, Consumed(from, m))
  BY <1>1, <1>2, <1>3 DEF bootstrap
<1>6. Evolves(At(m), Gone(e, r))
  BY <1>1, <1>2, AtFields, GoneIs DEF Evolves, InQuorum
<1>7. SendsOK([View EXCEPT ![m] = Gone(e, r)], Consumed(from, m), m, c)
  BY <1>4, SilentOK
<1>8. r = "electing" => e % 2 = 1
  BY <1>2
<1> QED
  BY <1>4, <1>5, <1>6, <1>7, <1>8, LeaveUpon

(* A Paxos message of m's epoch is at the head of the session from its     *)
(* sender.                                                                 *)
Hears(m, from, msg) ==
    /\ m \in Mon /\ from \in Mon /\ net[from][m] # <<>> /\ ~flushing[m]
    /\ msg = Head(net[from][m]) /\ msg.epoch = epoch[m] /\ msg.op # "victory"

LEMMA CollectInv ==
  ASSUME Inv, NEW m, NEW from, NEW msg, Hears(m, from, msg), msg.op = "collect",
         handle_collect(m, from, msg)
  PROVE  Inv'
<1>1. m \in Mon /\ from \in Mon /\ net[from][m] # <<>> /\ Head(net[from][m]).op # "victory"
  BY DEF Hears
<1>2. role[m] = "peon" /\ leader[m] = from
  BY <1>1, Roles DEF Hears, LeaderOp
<1>3. CASE bootstrap(m, Call(m), Consumed(from, m))
  BY <1>1, <1>3, BootstrapUpon
<1>4. CASE ~bootstrap(m, Call(m), Consumed(from, m))
  <2>1. PICK c : c = Call(m)
    OBVIOUS
  <2>2. /\ IsCall(c) /\ c.s = mem[m] /\ c.epoch = epoch[m]
        /\ \A j \in Mon : c.sent[j] = <<>>
    BY <1>1, <2>1, CallIs
  <2> DEFINE pn == IF msg.pn > c.s.accepted_pn THEN msg.pn ELSE c.s.accepted_pn
  <2>3. PICK d : d = [c EXCEPT !.s.state = "recovering", !.s.timers = @ \union {"lease"},
                               !.s.accepted_pn = pn,
                               !.st.accepted_pn = IF msg.pn > c.s.accepted_pn THEN pn ELSE @]
    OBVIOUS
  <2>4. /\ DOMAIN d = {"s", "st", "epoch", "quorum", "sent"} /\ d.sent = c.sent
        /\ d.s = [c.s EXCEPT !.state = "recovering", !.timers = @ \union {"lease"},
                             !.accepted_pn = pn]
    BY <2>2, <2>3 DEF IsCall
  <2>5. PICK reply : /\ reply.op = "last" /\ reply.epoch = c.epoch
                      /\ Return(m, SendTo(d, {from}, reply), Consumed(from, m))
    BY <1>4, <2>1, <2>3 DEF handle_collect
  <2>6. /\ IsMem(d.s) /\ d.s.state = "recovering" /\ d.s.timers = {"lease"}
        /\ d.s.peer_last_committed = c.s.peer_last_committed
    BY <1>1, <1>2, <2>2, <2>4, PeonWaits DEF IsCall, IsMem, State
  <2>7. IsCall(d) /\ \A j \in Mon : d.sent[j] = <<>>
    BY <2>2, <2>4, <2>6 DEF IsCall
  <2>8. MemOK(At(m), m, d.s)
    BY <1>1, <1>2, <2>2, <2>6, PeonMem DEF Writing
  <2>9. reply.op \in ReplyOp /\ reply.epoch = epoch[m]
    BY <2>2, <2>5 DEF ReplyOp
  <2>10. Return(m, SendTo(d, {from}, reply), Consumed(from, m))
    BY <2>5
  <2> QED
    BY <1>1, <1>2, <2>7, <2>8, <2>9, <2>10, ReplyReturn
<1> QED
  BY <1>3, <1>4

LEMMA BeginInv ==
  ASSUME Inv, NEW m, NEW from, NEW msg, Hears(m, from, msg), msg.op = "begin",
         handle_begin(m, from, msg)
  PROVE  Inv'
<1>1. m \in Mon /\ from \in Mon /\ net[from][m] # <<>> /\ Head(net[from][m]).op # "victory"
  BY DEF Hears
<1>2. role[m] = "peon" /\ leader[m] = from
  BY <1>1, Roles DEF Hears, LeaderOp
<1>3. PICK c : c = Call(m)
  OBVIOUS
<1>4. /\ IsCall(c) /\ c.s = mem[m] /\ c.epoch = epoch[m] /\ \A j \in Mon : c.sent[j] = <<>>
  BY <1>1, <1>3, CallIs
<1>5. MemOK(At(m), m, c.s)
  BY <1>1, <1>4, Facts
<1>6. CASE Return(m, c, Consumed(from, m))
  BY <1>1, <1>4, <1>5, <1>6, QuietReturn
<1>7. CASE ~Return(m, c, Consumed(from, m))
  <2>1. PICK v, d, reply :
            /\ d = [c EXCEPT !.s.state = "updating", !.s.lease = FALSE,
                              !.st.log[v] = msg.value,
                              !.st.pending_v = v, !.st.pending_pn = c.s.accepted_pn]
            /\ reply.op = "accept" /\ reply.epoch = c.epoch
            /\ Return(m, SendTo(d, {from}, reply), Consumed(from, m))
    BY <1>3, <1>7 DEF handle_begin
  <2>2. /\ DOMAIN d = {"s", "st", "epoch", "quorum", "sent"} /\ d.sent = c.sent
        /\ d.s = [c.s EXCEPT !.state = "updating", !.lease = FALSE]
    BY <1>4, <2>1 DEF IsCall
  <2>3. /\ IsMem(d.s) /\ d.s.state = "updating" /\ d.s.timers = c.s.timers
        /\ d.s.peer_last_committed = c.s.peer_last_committed
    BY <1>4, <2>2 DEF IsCall, IsMem, State
  <2>4. IsCall(d) /\ \A j \in Mon : d.sent[j] = <<>>
    BY <1>4, <2>2, <2>3 DEF IsCall
  <2>5. d.s.timers = {"lease"}
    BY <1>1, <1>2, <1>4, <2>3, PeonWaits
  <2>6. MemOK(At(m), m, d.s)
    BY <1>1, <1>2, <1>4, <2>3, <2>5, PeonMem DEF Writing
  <2>7. reply.op \in ReplyOp /\ reply.epoch = epoch[m]
    BY <1>4, <2>1 DEF ReplyOp
  <2>8. Return(m, SendTo(d, {from}, reply), Consumed(from, m))
    BY <2>1
  <2> QED
    BY <1>1, <1>2, <2>4, <2>6, <2>7, <2>8, ReplyReturn
<1> QED
  BY <1>6, <1>7

LEMMA CommitInv ==
  ASSUME Inv, NEW m, NEW from, NEW msg, Hears(m, from, msg), msg.op = "commit",
         handle_commit(m, from, msg)
  PROVE  Inv'
<1>1. m \in Mon /\ from \in Mon /\ net[from][m] # <<>> /\ Head(net[from][m]).op # "victory"
  BY DEF Hears
<1>2. role[m] = "peon" /\ leader[m] = from
  BY <1>1, Roles DEF Hears, LeaderOp
<1>3. PICK c : c = Call(m)
  OBVIOUS
<1>4. /\ IsCall(c) /\ c.s = mem[m] /\ \A j \in Mon : c.sent[j] = <<>>
  BY <1>1, <1>3, CallIs
<1>5. PICK d : d = store_state(c, msg.last_committed, msg.values)
  OBVIOUS
<1>6. /\ DOMAIN d = {"s", "st", "epoch", "quorum", "sent"} /\ IsMem(d.s)
      /\ d.sent = c.sent /\ d.s.state = c.s.state /\ d.s.timers = c.s.timers
      /\ d.s.peer_last_committed = c.s.peer_last_committed
  BY <1>4, <1>5, StoreState
<1>7. IsCall(d) /\ \A j \in Mon : d.sent[j] = <<>>
  BY <1>4, <1>6 DEF IsCall
<1>8. d.s.timers = {"lease"} /\ ~Writing(d.s)
  BY <1>1, <1>2, <1>4, <1>6, PeonWaits DEF Writing
<1>9. MemOK(At(m), m, d.s)
  BY <1>1, <1>2, <1>4, <1>6, <1>8, PeonMem
<1>10. Return(m, d, Consumed(from, m))
  BY <1>3, <1>5 DEF handle_commit
<1> QED
  BY <1>1, <1>7, <1>9, <1>10, QuietReturn

LEMMA LeaseInv ==
  ASSUME Inv, NEW m, NEW from, NEW msg, Hears(m, from, msg), msg.op = "lease",
         handle_lease(m, from, msg)
  PROVE  Inv'
<1>1. m \in Mon /\ from \in Mon /\ net[from][m] # <<>> /\ Head(net[from][m]).op # "victory"
  BY DEF Hears
<1>2. role[m] = "peon" /\ leader[m] = from
  BY <1>1, Roles DEF Hears, LeaderOp
<1>3. PICK c : c = Call(m)
  OBVIOUS
<1>4. /\ IsCall(c) /\ c.s = mem[m] /\ c.epoch = epoch[m] /\ \A j \in Mon : c.sent[j] = <<>>
  BY <1>1, <1>3, CallIs
<1>5. MemOK(At(m), m, c.s)
  BY <1>1, <1>4, Facts
<1>6. CASE Return(m, c, Consumed(from, m))
  BY <1>1, <1>4, <1>5, <1>6, QuietReturn
<1>7. CASE ~Return(m, c, Consumed(from, m))
  <2>1. PICK d, reply :
            /\ d = [c EXCEPT !.s.lease = TRUE, !.s.state = "active",
                             !.s.timers = @ \union {"lease"}]
            /\ reply.op = "lease_ack" /\ reply.epoch = c.epoch
            /\ Return(m, SendTo(d, {from}, reply), Consumed(from, m))
    BY <1>3, <1>7 DEF handle_lease
  <2>2. /\ DOMAIN d = {"s", "st", "epoch", "quorum", "sent"} /\ d.sent = c.sent
        /\ d.s = [c.s EXCEPT !.lease = TRUE, !.state = "active", !.timers = @ \union {"lease"}]
    BY <1>4, <2>1 DEF IsCall
  <2>3. /\ IsMem(d.s) /\ d.s.state = "active" /\ d.s.timers = {"lease"}
        /\ d.s.peer_last_committed = c.s.peer_last_committed
    BY <1>1, <1>2, <1>4, <2>2, PeonWaits DEF IsCall, IsMem, State
  <2>4. IsCall(d) /\ \A j \in Mon : d.sent[j] = <<>>
    BY <1>4, <2>2, <2>3 DEF IsCall
  <2>5. MemOK(At(m), m, d.s)
    BY <1>1, <1>2, <1>4, <2>3, PeonMem DEF Writing
  <2>6. reply.op \in ReplyOp /\ reply.epoch = epoch[m]
    BY <1>4, <2>1 DEF ReplyOp
  <2>7. Return(m, SendTo(d, {from}, reply), Consumed(from, m))
    BY <2>1
  <2> QED
    BY <1>1, <1>2, <2>4, <2>5, <2>6, <2>7, ReplyReturn
<1> QED
  BY <1>6, <1>7

(* A leader goes on after the calls d that a message has led to...         *)
LEMMA LeaderGoesOn ==
  ASSUME Inv, NEW m, NEW from, NEW msg, Hears(m, from, msg), role[m] = "leader",
         NEW d, Continues(m, Call(m), d), TimedWait("leader", d.s),
         Return(m, d, Consumed(from, m))
  PROVE  Inv'
<1>1. /\ m \in Mon /\ from \in Mon /\ net[from][m] # <<>>
      /\ Head(net[from][m]).op # "victory"
  BY DEF Hears
<1>2. PICK n : n = Consumed(from, m)
  OBVIOUS
<1>3. Takes(net, n, View, m)
  BY <1>1, <1>2, TakesHead
<1> QED
  BY <1>1, <1>2, <1>3, LeaderReturn

(* ...or bootstraps after them.                                            *)
LEMMA LeaderGivesUp ==
  ASSUME Inv, NEW m, NEW from, NEW msg, Hears(m, from, msg), role[m] = "leader",
         NEW d, Continues(m, Call(m), d), bootstrap(m, d, Consumed(from, m))
  PROVE  Inv'
<1>1. /\ m \in Mon /\ from \in Mon /\ net[from][m] # <<>>
      /\ Head(net[from][m]).op # "victory"
  BY DEF Hears
<1>2. PICK n : n = Consumed(from, m)
  OBVIOUS
<1>3. PICK r \in {"probing", "electing"} : r = "probing"
  OBVIOUS
<1>4. Takes(net, n, [View EXCEPT ![m] = Gone(epoch[m], r)], m)
  BY <1>1, <1>2, TakesHead
<1>5. Leave(m, d, epoch[m], r, n) /\ (r = "electing" => epoch[m] % 2 = 1)
  BY <1>2, <1>3 DEF bootstrap
<1> QED
  BY <1>1, <1>4, <1>5, LeaderLeave

LEMMA LeaderWaits ==
  ASSUME Inv, NEW m \in Mon, role[m] = "leader"
  PROVE  TimedWait("leader", mem[m])
<1>1. MemOK(At(m), m, mem[m])
  BY Facts
<1> QED
  BY <1>1, AtFields DEF MemOK

LEMMA AcceptInv ==
  ASSUME Inv, NEW m, NEW from, NEW msg, Hears(m, from, msg), msg.op = "accept",
         handle_accept(m, from, msg)
  PROVE  Inv'
<1>1. m \in Mon /\ from \in Mon /\ net[from][m] # <<>>
  BY DEF Hears
<1>2. role[m] = "leader"
  BY <1>1, Roles DEF Hears, ReplyOp
<1>3. PICK b : b = Call(m)
  OBVIOUS
<1>4. /\ LeaderCall(m, b) /\ IsCall(b) /\ IsMem(b.s) /\ b.s = mem[m]
      /\ TimedWait("leader", b.s)
  BY <1>1, <1>2, <1>3, CallIs, LeaderWaits DEF IsCall
<1>5. PICK c : c = [b EXCEPT !.s.accepted = @ \union {from}]
  OBVIOUS
<1>6. /\ DOMAIN c = {"s", "st", "epoch", "quorum", "sent"} /\ c.sent = b.sent
      /\ c.epoch = b.epoch /\ c.quorum = b.quorum
      /\ c.s = [b.s EXCEPT !.accepted = @ \union {from}]
  BY <1>4, <1>5 DEF IsCall
<1>7. /\ IsMem(c.s) /\ c.s.state = b.s.state /\ c.s.timers = b.s.timers
      /\ c.s.peer_last_committed = b.s.peer_last_committed
  BY <1>4, <1>6 DEF IsMem
<1>8. LeaderMem(m, c)
  BY <1>4, <1>6, <1>7 DEF LeaderCall, LeaderMem
<1>9. Continues(m, b, c) /\ TimedWait("leader", c.s)
  BY <1>4, <1>6, <1>7, <1>8, SameSent DEF TimedWait, Updating
<1>10. PICK d : d = commit_start(c)
  OBVIOUS
<1>11. /\ DOMAIN d = {"s", "st", "epoch", "quorum", "sent"} /\ d.sent = b.sent
       /\ d.epoch = b.epoch /\ d.quorum = b.quorum
       /\ d.s = [c.s EXCEPT !.state = IF c.s.state = "updating" THEN "writing"
                                      ELSE "writing_previous",
                            !.timers = @ \ {"accept"}]
  BY <1>6, <1>10 DEF commit_start
<1>12. /\ IsMem(d.s) /\ d.s.state \in {"writing", "writing_previous"}
       /\ d.s.peer_last_committed = b.s.peer_last_committed
       /\ d.s.timers = c.s.timers \ {"accept"}
  BY <1>7, <1>11 DEF IsMem, State
<1>13. LeaderMem(m, d)
  BY <1>4, <1>7, <1>11, <1>12 DEF LeaderCall, LeaderMem
<1>14. Continues(m, b, d) /\ TimedWait("leader", d.s)
  BY <1>4, <1>9, <1>11, <1>12, <1>13, SameSent DEF TimedWait, Updating
<1>15. Continues(m, b, b)
  BY <1>4 DEF Continues
<1>16. \/ Return(m, b, Consumed(from, m)) \/ Return(m, c, Consumed(from, m))
       \/ Return(m, d, Consumed(from, m))
  BY <1>3, <1>5, <1>10 DEF handle_accept
<1> QED
  BY <1>2, <1>3, <1>4, <1>9, <1>14, <1>15, <1>16, LeaderGoesOn

LEMMA LeaseAckInv ==
  ASSUME Inv, NEW m, NEW from, NEW msg, Hears(m, from, msg), msg.op = "lease_ack",
         handle_lease_ack(m, from, msg)
  PROVE  Inv'
<1>1. m \in Mon /\ from \in Mon /\ net[from][m] # <<>>
  BY DEF Hears
<1>2. role[m] = "leader"
  BY <1>1, Roles DEF Hears, ReplyOp
<1>3. PICK b : b = Call(m)
  OBVIOUS
<1>4. /\ LeaderCall(m, b) /\ IsCall(b) /\ IsMem(b.s) /\ b.s = mem[m]
      /\ TimedWait("leader", b.s)
  BY <1>1, <1>2, <1>3, CallIs, LeaderWaits DEF IsCall
<1>5. PICK a : a = b.s.acked_lease \union {from}
  OBVIOUS
<1>6. PICK c : c = [b EXCEPT !.s.acked_lease = a,
                             !.s.timers = IF a = quorum[m] THEN @ \ {"lease_ack"} ELSE @]
  OBVIOUS
<1>7. /\ DOMAIN c = {"s", "st", "epoch", "quorum", "sent"} /\ c.sent = b.sent
      /\ c.epoch = b.epoch /\ c.quorum = b.quorum
      /\ c.s = [b.s EXCEPT !.acked_lease = a,
                           !.timers = IF a = quorum[m] THEN @ \ {"lease_ack"} ELSE @]
  BY <1>4, <1>6 DEF IsCall
<1>8. /\ IsMem(c.s) /\ c.s.state = b.s.state
      /\ c.s.timers = b.s.timers \/ c.s.timers = b.s.timers \ {"lease_ack"}
      /\ c.s.peer_last_committed = b.s.peer_last_committed
  BY <1>4, <1>7 DEF IsMem
<1>9. LeaderMem(m, c)
  BY <1>4, <1>7, <1>8 DEF LeaderCall, LeaderMem
<1>10. Continues(m, b, c) /\ TimedWait("leader", c.s)
  BY <1>4, <1>7, <1>8, <1>9, SameSent DEF TimedWait, Updating
<1>11. Continues(m, b, b)
  BY <1>4 DEF Continues
<1>12. Return(m, b, Consumed(from, m)) \/ Return(m, c, Consumed(from, m))
  BY <1>3, <1>5, <1>6 DEF handle_lease_ack
<1> QED
  BY <1>2, <1>3, <1>4, <1>10, <1>11, <1>12, LeaderGoesOn

LEMMA Onward ==
  ASSUME NEW m, NEW b, NEW c, Continues(m, b, c), NEW d, Continues(m, c, d)
  PROVE  Continues(m, b, d)
BY DEF Continues

LEMMA LastInv ==
  ASSUME Inv, NEW m, NEW from, NEW msg, Hears(m, from, msg), msg.op = "last",
         handle_last(m, from, msg)
  PROVE  Inv'
<1>1. m \in Mon /\ from \in Mon /\ net[from][m] # <<>>
  BY DEF Hears
<1>2. role[m] = "leader" /\ from \in quorum[m] /\ from # m
  BY <1>1, Roles DEF Hears, ReplyOp
<1>3. PICK b : b = Call(m)
  OBVIOUS
<1>4. /\ LeaderCall(m, b) /\ IsCall(b) /\ IsMem(b.s) /\ b.s = mem[m] /\ b.quorum = quorum[m]
      /\ TimedWait("leader", b.s)
  BY <1>1, <1>2, <1>3, CallIs, LeaderWaits DEF IsCall
<1>5. PICK noted : noted = [b EXCEPT !.s.peer_last_committed[from] = msg.last_committed]
  OBVIOUS
<1>6. /\ Continues(m, b, noted) /\ IsCall(noted)
      /\ noted.s.state = b.s.state /\ noted.s.timers = b.s.timers
  <2>1. /\ DOMAIN noted = {"s", "st", "epoch", "quorum", "sent"} /\ noted.sent = b.sent
        /\ noted.epoch = b.epoch /\ noted.quorum = b.quorum
        /\ noted.s = [b.s EXCEPT !.peer_last_committed[from] = msg.last_committed]
    BY <1>4, <1>5 DEF IsCall
  <2>2. /\ IsMem(noted.s) /\ noted.s.state = b.s.state /\ noted.s.timers = b.s.timers
        /\ \A p \in Mon \ {from} :
               noted.s.peer_last_committed[p] = b.s.peer_last_committed[p]
    BY <1>4, <2>1 DEF IsMem
  <2>3. LeaderMem(m, noted)
    BY <1>2, <1>4, <2>1, <2>2 DEF LeaderCall, LeaderMem
  <2>4. Continues(m, b, noted)
    BY <1>4, <2>1, <2>2, <2>3, SameSent
  <2> QED
    BY <2>2, <2>4 DEF Continues, LeaderCall
<1>7. PICK a : a = store_state(noted, msg.last_committed, msg.values)
  OBVIOUS
<1>8. Continues(m, noted, a) /\ a.s.state = b.s.state /\ a.s.timers = b.s.timers
  <2>1. /\ DOMAIN a = {"s", "st", "epoch", "quorum", "sent"} /\ IsMem(a.s)
        /\ a.epoch = noted.epoch /\ a.quorum = noted.quorum /\ a.sent = noted.sent
        /\ a.s.state = noted.s.state /\ a.s.timers = noted.s.timers
        /\ a.s.peer_last_committed = noted.s.peer_last_committed
    BY <1>6, <1>7, StoreState
  <2>2. LeaderMem(m, a) /\ LeaderCall(m, noted)
    BY <1>6, <2>1 DEF Continues, LeaderCall, LeaderMem
  <2>3. Continues(m, noted, a)
    BY <2>1, <2>2, SameSent
  <2> QED
    BY <1>6, <2>1, <2>3
<1>9. PICK c : c = update_peers(a)
  OBVIOUS
<1>10. /\ Continues(m, b, c) /\ LeaderCall(m, c) /\ TimedWait("leader", c.s)
  <2>1. Continues(m, a, c) /\ c.s = a.s
    <3>1. LeaderCall(m, a)
      BY <1>8 DEF Continues
    <3> QED
      BY <1>9, <3>1, UpdatePeers
  <2>2. Continues(m, b, a)
    BY <1>6, <1>8, Onward
  <2>3. Continues(m, b, c)
    BY <2>1, <2>2, Onward
  <2>4. TimedWait("leader", c.s)
    BY <1>4, <1>8, <2>1 DEF TimedWait, Updating
  <2> QED
    BY <2>3, <2>4 DEF Continues
<1>11. PICK d : d = [c EXCEPT !.s.num_last = @ + 1]
  OBVIOUS
<1>12. PICK l : l = learn_uncommitted(d, msg)
  OBVIOUS
<1>13. /\ Continues(m, b, l) /\ LeaderCall(m, l) /\ TimedWait("leader", l.s)
  <2>1. /\ DOMAIN d = {"s", "st", "epoch", "quorum", "sent"} /\ d.sent = c.sent
        /\ d.epoch = c.epoch /\ d.quorum = c.quorum
        /\ d.s = [c.s EXCEPT !.num_last = @ + 1]
    BY <1>10, <1>11 DEF LeaderCall, IsCall
  <2>2. /\ IsMem(d.s) /\ d.s.state = c.s.state /\ d.s.timers = c.s.timers
        /\ d.s.peer_last_committed = c.s.peer_last_committed
    BY <1>10, <2>1 DEF LeaderCall, IsCall, IsMem
  <2>3. LeaderMem(m, d)
    BY <1>10, <2>1, <2>2 DEF LeaderCall, LeaderMem
  <2>4. Continues(m, c, d) /\ LeaderCall(m, d)
    BY <1>10, <2>1, <2>2, <2>3, SameSent DEF Continues
  <2>5. Continues(m, d, l) /\ l.s.state = d.s.state /\ l.s.timers = d.s.timers
    BY <1>12, <2>4, LearnUncommitted
  <2>6. Continues(m, b, l)
    BY <1>10, <2>4, <2>5, Onward
  <2>7. TimedWait("leader", l.s)
    BY <1>10, <2>2, <2>5 DEF TimedWait, Updating
  <2> QED
    BY <2>6, <2>7 DEF Continues
<1>14. PICK f : f = collect(m, c, msg.pn)
  OBVIOUS
<1>15. Continues(m, b, f) /\ TimedWait("leader", f.s)
  <2>1. Continues(m, c, f) /\ TimedWait("leader", f.s)
    BY <1>10, <1>14, Collect
  <2> QED
    BY <1>10, <2>1, Onward
<1>16. PICK g : g = collected(m, l)
  OBVIOUS
<1>17. Continues(m, b, g) /\ TimedWait("leader", g.s)
  <2>1. Continues(m, l, g) /\ TimedWait("leader", g.s)
    BY <1>13, <1>16, Collected
  <2> QED
    BY <1>13, <2>1, Onward
<1>18. \/ bootstrap(m, noted, Consumed(from, m)) \/ bootstrap(m, c, Consumed(from, m))
       \/ Return(m, f, Consumed(from, m)) \/ Return(m, c, Consumed(from, m))
       \/ Return(m, g, Consumed(from, m)) \/ Return(m, l, Consumed(from, m))
  BY <1>3, <1>5, <1>7, <1>9, <1>11, <1>12, <1>14, <1>16 DEF handle_last
<1>19. CASE bootstrap(m, noted, Consumed(from, m)) \/ bootstrap(m, c, Consumed(from, m))
  BY <1>2, <1>3, <1>6, <1>10, <1>19, LeaderGivesUp
<1>20. CASE \/ Return(m, f, Consumed(from, m)) \/ Return(m, c, Consumed(from, m))
            \/ Return(m, g, Consumed(from, m)) \/ Return(m, l, Consumed(from, m))
  BY <1>2, <1>3, <1>10, <1>13, <1>15, <1>17, <1>20, LeaderGoesOn
<1> QED
  BY <1>18, <1>19, <1>20

LEMMA DispatchInv ==
  ASSUME Inv, NEW m \in Mon, NEW from \in Mon, dispatch(m, from)
  PROVE  Inv'
<1>1. PICK msg : msg = Head(net[from][m])
  OBVIOUS
<1>2. net[from][m] # <<>> /\ ~flushing[m]
  BY DEF dispatch
<1>3. CASE msg.op = "victory" /\ handle_victory(m, from, msg)
  BY <1>1, <1>2, <1>3, VictoryInv
<1>4. CASE msg.op # "victory" /\ bootstrap(m, Call(m), Consumed(from, m))
  BY <1>1, <1>2, <1>4, BootstrapUpon
<1>5. CASE /\ msg.epoch = epoch[m]
           /\ \/ msg.op = "collect" /\ handle_collect(m, from, msg)
              \/ msg.op = "last" /\ handle_last(m, from, msg)
              \/ msg.op = "begin" /\ handle_begin(m, from, msg)
              \/ msg.op = "accept" /\ handle_accept(m, from, msg)
              \/ msg.op = "commit" /\ handle_commit(m, from, msg)
              \/ msg.op = "lease" /\ handle_lease(m, from, msg)
              \/ msg.op = "lease_ack" /\ handle_lease_ack(m, from, msg)
  <2>1. Hears(m, from, msg)
    BY <1>1, <1>2, <1>5 DEF Hears
  <2> QED
    BY <1>5, <2>1, CollectInv, LastInv, BeginInv, AcceptInv, CommitInv, LeaseInv, LeaseAckInv
<1> QED
  BY <1>1, <1>3, <1>4, <1>5 DEF dispatch

----------------------------------------------------------------------------
(* What does not depend on a message.                                      *)

LEMMA ApplyTransactionInv ==
  ASSUME Inv, NEW m \in Mon, apply_transaction(m)
  PROVE  Inv'
<1>1. /\ UNCHANGED <<epoch, role, flushing, leader, quorum, mem, net>>
      /\ DOMAIN store' = DOMAIN store
  BY DEF apply_transaction
<1>2. View' = View
  BY <1>1 DEF View, At
<1> QED
  BY <1>1, <1>2 DEF Inv

LEMMA CommittedInv ==
  ASSUME Inv, NEW m \in Mon, committed(m)
  PROVE  Inv'
<1>1. role[m] = "leader" /\ (flushing[m] => epoch[m] % 2 = 1)
  BY Facts DEF committed
<1>2. PICK b : b = Call(m)
  OBVIOUS
<1>3. LeaderCall(m, b)
  BY <1>1, <1>2, CallIs
<1>4. PICK d : d = commit_finish(m, b)
  OBVIOUS
<1>5. Continues(m, b, d) /\ TimedWait("leader", d.s)
  BY <1>3, <1>4, CommitFinish
<1>6. CASE Return(m, d, net)
  <2>1. PICK n : n = net
    OBVIOUS
  <2>2. Takes(net, n, View, m)
    BY <2>1, TakesNone
  <2> QED
    BY <1>1, <1>2, <1>5, <1>6, <2>1, <2>2, LeaderReturn
<1>7. CASE flushing[m] /\ Leave(m, d, epoch[m], "electing", net)
  <2>1. PICK n : n = net
    OBVIOUS
  <2>2. PICK r \in {"probing", "electing"} : r = "electing"
    OBVIOUS
  <2>3. Takes(net, n, [View EXCEPT ![m] = Gone(epoch[m], r)], m)
    BY <2>1, TakesNone
  <2>4. Leave(m, d, epoch[m], r, n) /\ epoch[m] % 2 = 1
    BY <1>1, <1>7, <2>1, <2>2
  <2> QED
    BY <1>1, <1>2, <1>5, <2>3, <2>4, LeaderLeave
<1> QED
  BY <1>2, <1>4, <1>6, <1>7 DEF committed

LEMMA TriggerProposeInv ==
  ASSUME Inv, NEW m \in Mon, trigger_propose(m)
  PROVE  Inv'
<1>1. role[m] = "leader"
  BY DEF trigger_propose
<1>2. PICK b : b = Call(m)
  OBVIOUS
<1>3. /\ LeaderCall(m, b) /\ IsCall(b) /\ IsMem(b.s) /\ b.s = mem[m]
      /\ TimedWait("leader", b.s)
  BY <1>1, <1>2, CallIs, LeaderWaits DEF IsCall
<1>4. PICK c : c = propose_pending(m, b, 0)
  OBVIOUS
<1>5. Continues(m, b, c) /\ TimedWait("leader", c.s)
  <2>1. Continues(m, b, c) /\ c.s.state = "updating" /\ c.s.timers = {"accept"}
    BY <1>3, <1>4, ProposePending
  <2> QED
    BY <2>1 DEF TimedWait
<1>6. PICK d : d = [b EXCEPT !.s.pending = TRUE]
  OBVIOUS
<1>7. /\ DOMAIN d = {"s", "st", "epoch", "quorum", "sent"} /\ d.sent = b.sent
      /\ d.epoch = b.epoch /\ d.quorum = b.quorum /\ d.s = [b.s EXCEPT !.pending = TRUE]
  BY <1>3, <1>6 DEF IsCall
<1>8. /\ IsMem(d.s) /\ d.s.state = b.s.state /\ d.s.timers = b.s.timers
      /\ d.s.peer_last_committed = b.s.peer_last_committed
  BY <1>3, <1>7 DEF IsMem
<1>9. LeaderMem(m, d)
  BY <1>3, <1>7, <1>8 DEF LeaderCall, LeaderMem
<1>10. Continues(m, b, d) /\ TimedWait("leader", d.s)
  BY <1>3, <1>7, <1>8, <1>9, SameSent DEF TimedWait, Updating
<1>11. PICK n : n = net
  OBVIOUS
<1>12. Takes(net, n, View, m)
  BY <1>11, TakesNone
<1>13. Return(m, c, n) \/ Return(m, d, n)
  BY <1>2, <1>4, <1>6, <1>11 DEF trigger_propose
<1> QED
  BY <1>1, <1>2, <1>5, <1>10, <1>12, <1>13, LeaderReturn

LEMMA ExpireInv ==
  ASSUME Inv, NEW m \in Mon, NEW t, Expire(m, t)
  PROVE  Inv'
<1>1. PICK e \in Nat : e = epoch[m]
  BY Facts
<1>2. PICK r \in {"probing", "electing"} : r = "probing"
  OBVIOUS
<1>3. Leave(m, Call(m), e, r, net) /\ (r = "electing" => e % 2 = 1)
  BY <1>1, <1>2 DEF Expire, bootstrap
<1>4. Evolves(At(m), Gone(e, r))
  BY <1>1, <1>2, AtFields, GoneIs DEF Evolves, InQuorum
<1> QED
  BY <1>3, <1>4, LeaveQuietly

LEMMA LeaseRenewInv ==
  ASSUME Inv, NEW m \in Mon, lease_renew_timeout(m)
  PROVE  Inv'
<1>0. role[m] = "leader"
  <2>1. MemOK(At(m), m, mem[m]) /\ "lease_renew" \in mem[m].timers
    BY Facts DEF lease_renew_timeout
  <2> QED
    BY <2>1, AtFields DEF MemOK, TimedWait
<1>1. PICK b : b = Call(m)
  OBVIOUS
<1>2. LeaderCall(m, b) /\ b.s = mem[m] /\ TimedWait("leader", b.s)
  BY <1>0, <1>1, CallIs, LeaderWaits
<1>3. PICK d : d = extend_lease(m, b)
  OBVIOUS
<1>4. /\ Continues(m, b, d) /\ d.s.state = b.s.state
      /\ d.s.timers = b.s.timers \union {"lease_ack", "lease_renew"}
  BY <1>2, <1>3, ExtendLease
<1>5. TimedWait("leader", d.s)
  BY <1>2, <1>4 DEF TimedWait, Updating
<1>6. PICK n : n = net
  OBVIOUS
<1>7. Takes(net, n, View, m) /\ Return(m, d, n)
  BY <1>1, <1>3, <1>6, TakesNone DEF lease_renew_timeout
<1> QED
  BY <1>0, <1>1, <1>4, <1>5, <1>7, LeaderReturn

(* A session that is cut: the victories lost in it come too late for a     *)
(* monitor that has restarted.                                             *)
LEMMA CutSession ==
  ASSUME NEW w, NEW i, NEW j, NEW q, SessionOK(w, q, i, j), w[j] \in Place,
         Leading(w[i]) => w[j].role = "probing"
  PROVE  SessionOK(w, <<>>, i, j)
<1>1. MessagesOK(w, <<>>, i, j)
  BY EmptyIs DEF MessagesOK
<1>2. Told(w, <<>>, i, j)
  <2> SUFFICES ASSUME Leading(w[i]), j \in w[i].quorum \ {i}
               PROVE  Bound(w[j], i, w[i].epoch)
    BY DEF Told, Leading
  <2> DEFINE e == w[i].epoch
  <2>1. Announced(q, Len(q) + 1, e) \/ Bound(w[j], i, e)
    BY DEF SessionOK, Told, Leading
  <2>2. CASE Announced(q, Len(q) + 1, e)
    <3>1. PICK h \in 1 .. (Len(q) + 1) - 1 : q[h].op = "victory" /\ q[h].epoch = e
      BY <2>2 DEF Announced
    <3>2. h \in 1 .. Len(q)
      BY DEF SessionOK, IsSeq
    <3>3. MessageOK(w, q, h, i, j)
      BY <3>2 DEF SessionOK
    <3>4. e \in Nat /\ w[j].epoch >= e - 1 /\ w[j].epoch \in Nat
      BY <3>1, <3>3, PlaceFields DEF MessageOK
    <3> QED
      BY <3>4 DEF Bound
  <2> QED
    BY <2>1, <2>2
<1> QED
  BY <1>1, <1>2, SessionIs

LEMMA CrashInv ==
  ASSUME Inv, NEW m \in Mon, crash(m)
  PROVE  Inv'
<1>1. PICK e \in Nat : e = epoch[m]
  BY Facts
<1>2. PICK x : x = Gone(e, "probing")
  OBVIOUS
<1>3. /\ x \in Place /\ ~Leading(x) /\ x.epoch = e /\ x.role = "probing" /\ x.flushing = FALSE
      /\ x.leader = None /\ x.quorum = {}
  BY <1>2, GoneIs
<1>4. Becomes(m, x)
  <2>1. epoch' = [epoch EXCEPT ![m] = x.epoch]
    BY <1>1, <1>3 DEF crash, Inv
  <2> QED
    BY <1>3, <2>1 DEF crash, Becomes
<1>5. Evolves(At(m), x)
  BY <1>1, <1>3, AtFields DEF Evolves, InQuorum
<1>6. PICK v : v = View
  OBVIOUS
<1>7. PICK w : w = [v EXCEPT ![m] = x]
  OBVIOUS
<1>8. /\ View' = w /\ w \in Views /\ v \in Views
      /\ \A j \in Mon : w[j].epoch = epoch'[j] /\ w[j].role = role'[j]
  BY <1>3, <1>4, <1>6, <1>7, ViewBecomes, ViewIs
<1>9. Moves(v, w, m) /\ w[m] = x /\ v[m] = At(m)
  BY <1>5, <1>6, <1>7, <1>8, ViewIs DEF Moves, Views
<1>10. \A p \in Mon : PlaceOK(v, p)
  BY <1>6 DEF Inv
<1>11. PlaceOK(w, m)
  BY <1>3, <1>9 DEF PlaceOK, InQuorum
<1>12. \A p \in Mon : PlaceOK(w, p)
  BY <1>9, <1>10, <1>11, PlacesKept
<1>13. PICK g : g = net
  OBVIOUS
<1>14. PICK lost : net' = Prune([i \in Mon |-> [j \in Mon |->
                       IF j = m \/ (i = m /\ j \in lost) THEN <<>> ELSE g[i][j]]])
  BY <1>13 DEF crash
<1>15. PICK n : n = [i \in Mon |-> [j \in Mon |->
                       IF j = m \/ (i = m /\ j \in lost) THEN <<>> ELSE g[i][j]]]
  OBVIOUS
<1>16. ASSUME NEW i \in Mon, NEW j \in Mon
       PROVE  SessionOK(w, n[i][j], i, j)
  <2>1. PICK q : q = g[i][j]
    OBVIOUS
  <2>2. SessionOK(w, q, i, j)
    <3>1. MessagesOK(v, q, i, j) /\ Told(v, q, i, j)
      BY <1>6, <1>13, <2>1, SessionIs DEF Inv, NetOK
    <3>2. \A p \in Mon : Evolves(v[p], w[p])
      BY <1>9, EvolveAll
    <3>3. Leading(w[i]) => w[i] = v[i]
      BY <1>3, <1>9 DEF Moves
    <3>4. MessagesOK(w, q, i, j)
      BY <1>8, <3>1, <3>2, MessagesKept
    <3>5. Told(w, q, i, j)
      BY <1>8, <1>10, <3>1, <3>2, <3>3, ToldKept
    <3> QED
      BY <3>4, <3>5, SessionIs
  <2>3. CASE j = m \/ (i = m /\ j \in lost)
    <3>1. Leading(w[i]) => w[j].role = "probing"
      BY <1>3, <1>9, <2>3
    <3>2. w[j] \in Place
      BY <1>8 DEF Views
    <3>3. SessionOK(w, <<>>, i, j)
      BY <2>2, <3>1, <3>2, CutSession
    <3> QED
      BY <1>15, <2>3, <3>3
  <2>4. CASE ~(j = m \/ (i = m /\ j \in lost))
    BY <1>15, <2>1, <2>2, <2>4
  <2> QED
    BY <2>3, <2>4
<1>17. net' = [i \in Mon |-> [j \in Mon |-> Pending(n[i][j], w[j].epoch, w[j].role)]]
  BY <1>8, <1>14, <1>15 DEF Prune
<1>18. PICK r : r = net'
  OBVIOUS
<1>19. ASSUME NEW i \in Mon, NEW j \in Mon
       PROVE  /\ SessionOK(w, r[i][j], i, j)
              /\ r[i][j] # <<>> => Heard(r[i][j][1], w[j].epoch, w[j].role)
  <2>1. PICK q : q = n[i][j]
    OBVIOUS
  <2>2. r[i][j] = Pending(q, w[j].epoch, w[j].role)
    BY <1>17, <1>18, <2>1
  <2> QED
    BY <1>8, <1>16, <2>1, <2>2, MessagesPending
<1>20. NetOK(w, r) /\ FirstHeard(w, r)
  <2>1. r = [i \in Mon |-> [j \in Mon |-> r[i][j]]]
    BY <1>17, <1>18
  <2> QED
    BY <1>19, <2>1 DEF NetOK, FirstHeard
<1>21. mem' = [mem EXCEPT ![m] = Loaded(store[m])] /\ DOMAIN mem' = Mon /\ DOMAIN store' = Mon
  BY DEF crash, Inv
<1>22. MemOK(x, m, Loaded(store[m]))
  BY <1>3 DEF MemOK, Loaded, IsMem, State, TimedWait, Writing
<1>23. \A p \in Mon : MemOK(w[p], p, mem'[p])
  <2>1. \A p \in Mon \ {m} : mem'[p] = mem[p] /\ w[p] = v[p]
    BY <1>9, <1>21 DEF Moves, Inv
  <2>2. \A p \in Mon : MemOK(v[p], p, mem[p])
    BY <1>6 DEF Inv
  <2>3. mem'[m] = Loaded(store[m])
    BY <1>21 DEF Inv
  <2> QED
    BY <1>9, <1>22, <2>1, <2>2, <2>3
<1>24. NetOK(View', net') /\ FirstHeard(View', net')
  BY <1>8, <1>18, <1>20
<1>25. \A p \in Mon : PlaceOK(View', p) /\ MemOK(View'[p], p, mem'[p])
  BY <1>8, <1>12, <1>23
<1>26. /\ epoch' \in [Mon -> Nat] /\ role' \in [Mon -> Role] /\ flushing' \in [Mon -> BOOLEAN]
       /\ leader' \in [Mon -> Mon \union {None}] /\ quorum' \in [Mon -> SUBSET Mon]
  BY <1>3, <1>4, ViewBecomes
<1> QED
  BY <1>8, <1>21, <1>24, <1>25, <1>26 DEF Inv, Views

----------------------------------------------------------------------------

LEMMA InitInv ==
  ASSUME Init
  PROVE  Inv
<1>1. /\ epoch \in [Mon -> Nat] /\ role \in [Mon -> Role] /\ flushing \in [Mon -> BOOLEAN]
      /\ leader \in [Mon -> Mon \union {None}] /\ quorum \in [Mon -> SUBSET Mon]
      /\ DOMAIN mem = Mon /\ DOMAIN store = Mon
  BY DEF Init, Role
<1>2. \A m \in Mon : /\ View[m].epoch = 0 /\ View[m].role = "probing" /\ View[m].flushing = FALSE
                     /\ View[m].leader = None /\ View[m].quorum = {}
  BY DEF Init, View, At
<1>3. View \in [Mon -> Place]
  BY <1>1 DEF View, At, Place
<1>4. net = [i \in Mon |-> [j \in Mon |-> net[i][j]]] /\ \A i, j \in Mon : net[i][j] = <<>>
  BY DEF Init
<1>5. \A i, j \in Mon : SessionOK(View, net[i][j], i, j)
  BY <1>2, <1>4, EmptyIs DEF SessionOK, Told
<1>6. NetOK(View, net) /\ FirstHeard(View, net)
  BY <1>4, <1>5 DEF NetOK, FirstHeard
<1>7. ASSUME NEW m \in Mon
      PROVE  PlaceOK(View, m) /\ MemOK(View[m], m, mem[m])
  <2>1. PlaceOK(View, m)
    BY <1>2 DEF PlaceOK, InQuorum
  <2>2. mem[m] = Loaded(EmptyStore)
    BY DEF Init
  <2>3. \A st : IsMem(Loaded(st)) /\ Loaded(st).timers = {} /\ Loaded(st).state = "recovering"
                /\ Loaded(st).peer_last_committed = [p \in Mon |-> None]
    BY DEF Loaded, IsMem, State
  <2> QED
    BY <1>2, <2>1, <2>2, <2>3 DEF MemOK, TimedWait, Writing
<1> QED
  BY <1>1, <1>3, <1>6, <1>7 DEF Inv

LEMMA NextInv ==
  ASSUME Inv, [Next]_vars
  PROVE  Inv'
<1>1. CASE UNCHANGED vars
  <2>1. View' = View
    BY <1>1 DEF vars, View, At
  <2> QED
    BY <1>1, <2>1 DEF vars, Inv
<1>2. ASSUME NEW m \in Mon, Next,
             \/ start_election(m)
             \/ \E p \in Mon : join_election(m, p)
             \/ win_election(m)
             \/ \E from \in Mon : dispatch(m, from)
             \/ apply_transaction(m)
             \/ committed(m)
             \/ trigger_propose(m)
             \/ collect_timeout(m)
             \/ accept_timeout(m)
             \/ lease_ack_timeout(m)
             \/ lease_timeout(m)
             \/ lease_renew_timeout(m)
             \/ crash(m)
      PROVE  Inv'
  <2>1. CASE start_election(m) \/ win_election(m) \/ \E p \in Mon : join_election(m, p)
    BY <2>1, StartElectionInv, JoinElectionInv, WinElectionInv
  <2>2. CASE \E from \in Mon : dispatch(m, from)
    BY <2>2, DispatchInv
  <2>3. CASE apply_transaction(m) \/ committed(m) \/ trigger_propose(m)
    BY <2>3, ApplyTransactionInv, CommittedInv, TriggerProposeInv
  <2>4. CASE collect_timeout(m) \/ accept_timeout(m) \/ lease_ack_timeout(m) \/ lease_timeout(m)
    BY <2>4, ExpireInv DEF collect_timeout, accept_timeout, lease_ack_timeout, lease_timeout
  <2>5. CASE lease_renew_timeout(m)
    BY <2>5, LeaseRenewInv
  <2>6. CASE crash(m)
    BY <2>6, CrashInv
  <2> QED
    BY <1>2, <2>1, <2>2, <2>3, <2>4, <2>5, <2>6
<1> QED
  BY <1>1, <1>2 DEF Next

(* The session invariant holds for ever.                                   *)
THEOREM Invariance == Spec => []Inv
<1>1. Init => Inv
  BY InitInv
<1>2. Inv /\ [Next]_vars => Inv'
  BY NextInv
<1> QED
  BY <1>1, <1>2, PTL DEF Spec

(* Every monitor in a quorum waits for something that is bound to happen,  *)
(* for any number of monitors: a peon for its lease timeout, a leader for  *)
(* the timer of the phase it is in or for its own store.  No handler,      *)
(* timeout, election or crash leaves a monitor in a quorum without one.    *)
THEOREM WaitsAreTimedAlways == Spec => []WaitsAreTimed
<1>1. ASSUME Inv PROVE WaitsAreTimed
  <2> SUFFICES ASSUME NEW m \in Mon
               PROVE  LET s == mem[m] IN
                      /\ role[m] = "peon" => "lease" \in s.timers
                      /\ role[m] = "leader" =>
                             CASE s.state = "recovering" -> "collect" \in s.timers
                               [] Updating(s) -> "accept" \in s.timers
                               [] s.state = "active" -> "lease_renew" \in s.timers
                               [] OTHER -> Writing(s)
    BY DEF WaitsAreTimed
  <2>1. PICK s : s = mem[m]
    OBVIOUS
  <2>2. TimedWait(role[m], s) /\ s.state \in State
    BY <1>1, <2>1, Facts, AtFields DEF MemOK, IsMem
  <2>3. \/ s.state = "recovering" \/ Updating(s) \/ s.state = "active" \/ Writing(s)
    BY <2>2 DEF State, Updating, Writing
  <2>4. /\ s.state = "recovering" => ~Updating(s) /\ s.state # "active"
        /\ s.state = "active" => ~Updating(s)
    BY DEF Updating
  <2> QED
    BY <2>1, <2>2, <2>3, <2>4 DEF TimedWait
<1> QED
  BY <1>1, Invariance, PTL

(* The asserts on roles of Paxos.cc never fail: whatever elections, crashes *)
(* and timeouts there are, a message of a monitor's own epoch comes from   *)
(* the leader it follows or from a peer of the quorum it leads, although   *)
(* nothing in the message says so.                                         *)
THEOREM RolesHoldAlways == Spec => []RolesHold
<1>1. ASSUME Inv PROVE RolesHold
  <2>1. ASSUME NEW m \in Mon, NEW from \in Mon, net[from][m] # <<>>, ~flushing[m],
               Head(net[from][m]).epoch = epoch[m], Head(net[from][m]).op # "victory"
        PROVE  IF Head(net[from][m]).op \in {"last", "accept", "lease_ack"}
               THEN role[m] = "leader" /\ from \in quorum[m] \ {m}
               ELSE role[m] = "peon" /\ from = leader[m]
    <3>1. PICK msg : msg = Head(net[from][m])
      OBVIOUS
    <3>2. /\ from # m
          /\ msg.op \in LeaderOp => role[m] = "peon" /\ leader[m] = from
          /\ msg.op \in ReplyOp => role[m] = "leader" /\ from \in quorum[m]
      BY <1>1, <2>1, <3>1, Roles
    <3>3. net[from][m][1] = msg /\ MessageOK(View, net[from][m], 1, from, m)
      BY <1>1, <2>1, <3>1, HeadIs
    <3>4. msg.op \in LeaderOp \union ReplyOp
      BY <2>1, <3>1, <3>3 DEF MessageOK
    <3> QED
      BY <3>1, <3>2, <3>4 DEF LeaderOp, ReplyOp
  <2>2. ASSUME NEW m \in Mon, NEW t \in mem[m].timers
        PROVE  role[m] = IF t = "lease" THEN "peon" ELSE "leader"
    BY <1>1, Facts, AtFields DEF MemOK, TimedWait
  <2> QED
    BY <2>1, <2>2 DEF RolesHold, Hearing
<1> QED
  BY <1>1, Invariance, PTL

----------------------------------------------------------------------------
(* Rounds: what a leader and each of its peers have said to each other.     *)

Is(msg, op, e) == msg.op = op /\ msg.epoch = e

Absent(q, op, e) == \A k \in 1 .. Len(q) : ~Is(q[k], op, e)

(* The kth message of q is the last one, or the only one, of its kind.      *)
NoneAfter(q, k, op, e) == \A h \in 1 .. Len(q) : h > k => ~Is(q[h], op, e)
NoOther(q, k, op, e) == \A h \in 1 .. Len(q) : h # k => ~Is(q[h], op, e)

(* w is a peon of i in epoch e; it is, or may become one.                   *)
Joined(w, i, e) == w.epoch = e /\ w.role = "peon" /\ w.leader = i

MayHear(w, i, e) ==
    Joined(w, i, e) \/ (w.epoch = e - 1 /\ w.role \in {"electing", "leader"})

(* A peer w with the promise a has answered the collect of i in epoch e     *)
(* with the number acc; q is on its way to it.                              *)
Answered(i, e, acc, w, a, q) ==
    /\ Absent(q, "collect", e) /\ Absent(q, "victory", e)
    /\ Joined(w, i, e) => a = acc

(* While w has a collect to answer, the one for acc is the last and has no  *)
(* answer yet...                                                            *)
CollectOK(i, e, acc, w, a, q, r) ==
    \A k \in 1 .. Len(q) : Is(q[k], "collect", e) =>
        /\ q[k].pn = acc => NoneAfter(q, k, "collect", e)
        /\ \A h \in 1 .. Len(r) : Is(r[h], "last", e) => r[h].pn # acc
        /\ MayHear(w, i, e) => a # acc

(* ...and its answer is the last one too.                                   *)
LastOK(i, e, acc, w, a, q, r) ==
    \A k \in 1 .. Len(r) : Is(r[k], "last", e) /\ r[k].pn = acc =>
        NoneAfter(r, k, "last", e) /\ Answered(i, e, acc, w, a, q)

VictoryOK(e, q) ==
    \A k \in 1 .. Len(q) : Is(q[k], "victory", e) =>
        \A h \in 1 .. Len(q) : h < k => ~Is(q[h], "collect", e)

(* A begin, or the accept that answers it, is under way only while the      *)
(* leader awaits it, and there is only one of them.                         *)
BeginOK(e, A, j, q, r) ==
    \A k \in 1 .. Len(q) : Is(q[k], "begin", e) =>
        j \in A /\ Absent(r, "accept", e) /\ NoOther(q, k, "begin", e)

AcceptOK(e, A, j, r) ==
    \A k \in 1 .. Len(r) : Is(r[k], "accept", e) => j \in A /\ NoOther(r, k, "accept", e)

CountedOK(i, e, acc, C, j, w, a, q, r) ==
    j \in C => Answered(i, e, acc, w, a, q) /\ Absent(r, "last", e)

(* A are the peers whose accepts are awaited, C those whose answers to the  *)
(* collect have been counted.                                               *)
PairOK(i, e, acc, A, C, j, w, a, q, r) ==
    /\ CollectOK(i, e, acc, w, a, q, r) /\ LastOK(i, e, acc, w, a, q, r)
    /\ VictoryOK(e, q) /\ BeginOK(e, A, j, q, r) /\ AcceptOK(e, A, j, r)
    /\ CountedOK(i, e, acc, C, j, w, a, q, r)

(* Those who the leader with memory s waits for.                            *)
Awaited(s) == {j \in Mon : Updating(s) /\ j \notin s.accepted}

CountOK(s, C, P) == s.num_last = 1 + Cardinality(C) /\ (s.state # "recovering" => C = P)

RoundOK(v, mm, g, i) ==
    Leading(v[i]) =>
        \E C \in SUBSET (v[i].quorum \ {i}) :
            /\ CountOK(mm[i], C, v[i].quorum \ {i})
            /\ \A j \in v[i].quorum \ {i} :
                  PairOK(i, v[i].epoch, mm[i].accepted_pn, Awaited(mm[i]), C, j,
                         v[j], mm[j].accepted_pn, g[i][j], g[j][i])

(* A begin finds its receiver promised to its number, also when its sender  *)
(* leads no more.                                                           *)
PromiseOK(i, w, a, q) ==
    \A k \in 1 .. Len(q) :
        q[k].op = "begin" /\ q[k].epoch % 2 = 0 => Answered(i, q[k].epoch, q[k].pn, w, a, q)

(* No number of m is larger than the last one m has picked.                 *)
Used(t, pn) == pn \in Nat /\ (pn % 100 \in Mon => pn <= t[pn % 100].last_pn)

SentOK(t, w, q) ==
    \A k \in 1 .. Len(q) :
        q[k].epoch <= w.epoch /\ (q[k].op \in {"collect", "last"} => Used(t, q[k].pn))

IsStore(st) ==
    DOMAIN st = {"accepted_pn", "last_pn", "last_committed", "first_committed", "log",
                 "pending_v", "pending_pn"}

(* What m knows without the others.                                         *)
LocalOK(w, m, s, st) ==
    /\ w.role = "leader" => m \in w.quorum /\ IsMajority(w.quorum)
    /\ w.flushing => Writing(s)
    /\ "accept" \in s.timers => Updating(s)
    /\ {"lease_ack", "lease_renew"} \cap s.timers # {} => s.state = "active"
    /\ ~Writing(s) => st.last_committed = s.last_committed
    /\ s.new_value # NoValue => w.role = "leader" /\ (Updating(s) \/ Writing(s))
    /\ IsStore(st) /\ st.last_pn \in Nat

NumbersOK(t, s, st) == Used(t, s.accepted_pn) /\ Used(t, st.accepted_pn)

Rounds(v, mm, t, g) ==
    /\ \A i \in Mon : RoundOK(v, mm, g, i)
    /\ \A i, j \in Mon : PromiseOK(i, v[j], mm[j].accepted_pn, g[i][j])
    /\ \A i, j \in Mon : SentOK(t, v[i], g[i][j])
    /\ \A m \in Mon : LocalOK(v[m], m, mm[m], t[m]) /\ NumbersOK(t, mm[m], t[m])

RoundInv == Rounds(View, mem, store, net)

----------------------------------------------------------------------------
(* Pairs, as messages come and go.                                          *)

LEMMA AbsentDrop ==
  ASSUME NEW q, NEW p, NEW d, DropIs(p, q, d), NEW op, NEW e, Absent(q, op, e)
  PROVE  Absent(p, op, e)
<1> SUFFICES ASSUME NEW k \in 1 .. Len(p) PROVE ~Is(p[k], op, e)
  BY DEF Absent
<1>1. k + d \in 1 .. Len(q) /\ p[k] = q[k + d]
  BY DEF DropIs, IsSeq
<1> QED
  BY <1>1 DEF Absent

LEMMA AnsweredDrop ==
  ASSUME NEW q, NEW p, NEW d, DropIs(p, q, d), NEW i, NEW e, NEW acc, NEW w, NEW a,
         Answered(i, e, acc, w, a, q)
  PROVE  Answered(i, e, acc, w, a, p)
BY AbsentDrop DEF Answered

LEMMA PairDrop ==
  ASSUME NEW i, NEW e, NEW acc, NEW A, NEW C, NEW j, NEW w, NEW a, NEW q, NEW r,
         PairOK(i, e, acc, A, C, j, w, a, q, r),
         NEW p, NEW d, DropIs(p, q, d), NEW o, NEW f, DropIs(o, r, f)
  PROVE  PairOK(i, e, acc, A, C, j, w, a, p, o)
<1>1. \A k \in 1 .. Len(p) : k + d \in 1 .. Len(q) /\ p[k] = q[k + d]
  BY DEF DropIs, IsSeq
<1>2. \A k \in 1 .. Len(o) : k + f \in 1 .. Len(r) /\ o[k] = r[k + f]
  BY DEF DropIs, IsSeq
<1>3. d \in Int /\ f \in Int
  BY DEF DropIs, IsSeq
<1>4. CollectOK(i, e, acc, w, a, p, o)
  <2> SUFFICES ASSUME NEW k \in 1 .. Len(p), Is(p[k], "collect", e)
               PROVE  /\ p[k].pn = acc => NoneAfter(p, k, "collect", e)
                      /\ \A h \in 1 .. Len(o) : Is(o[h], "last", e) => o[h].pn # acc
                      /\ MayHear(w, i, e) => a # acc
    BY DEF CollectOK
  <2>1. /\ q[k + d].pn = acc => NoneAfter(q, k + d, "collect", e)
        /\ \A h \in 1 .. Len(r) : Is(r[h], "last", e) => r[h].pn # acc
        /\ MayHear(w, i, e) => a # acc
    BY <1>1 DEF PairOK, CollectOK
  <2>2. p[k].pn = acc => NoneAfter(p, k, "collect", e)
    BY <1>1, <1>3, <2>1 DEF NoneAfter
  <2> QED
    BY <1>2, <2>1, <2>2
<1>5. LastOK(i, e, acc, w, a, p, o)
  <2> SUFFICES ASSUME NEW k \in 1 .. Len(o), Is(o[k], "last", e), o[k].pn = acc
               PROVE  NoneAfter(o, k, "last", e) /\ Answered(i, e, acc, w, a, p)
    BY DEF LastOK
  <2>1. NoneAfter(r, k + f, "last", e) /\ Answered(i, e, acc, w, a, q)
    BY <1>2 DEF PairOK, LastOK
  <2>2. NoneAfter(o, k, "last", e)
    BY <1>2, <1>3, <2>1 DEF NoneAfter
  <2> QED
    BY <2>1, <2>2, AnsweredDrop
<1>6. VictoryOK(e, p)
  <2> SUFFICES ASSUME NEW k \in 1 .. Len(p), Is(p[k], "victory", e),
                      NEW h \in 1 .. Len(p), h < k
               PROVE  ~Is(p[h], "collect", e)
    BY DEF VictoryOK
  <2>1. h + d < k + d
    BY <1>3
  <2> QED
    BY <1>1, <2>1 DEF PairOK, VictoryOK
<1>7. BeginOK(e, A, j, p, o)
  <2> SUFFICES ASSUME NEW k \in 1 .. Len(p), Is(p[k], "begin", e)
               PROVE  j \in A /\ Absent(o, "accept", e) /\ NoOther(p, k, "begin", e)
    BY DEF BeginOK
  <2>1. j \in A /\ Absent(r, "accept", e) /\ NoOther(q, k + d, "begin", e)
    BY <1>1 DEF PairOK, BeginOK
  <2>2. NoOther(p, k, "begin", e)
    BY <1>1, <1>3, <2>1 DEF NoOther
  <2> QED
    BY <2>1, <2>2, AbsentDrop
<1>8. AcceptOK(e, A, j, o)
  <2> SUFFICES ASSUME NEW k \in 1 .. Len(o), Is(o[k], "accept", e)
               PROVE  j \in A /\ NoOther(o, k, "accept", e)
    BY DEF AcceptOK
  <2>1. j \in A /\ NoOther(r, k + f, "accept", e)
    BY <1>2 DEF PairOK, AcceptOK
  <2>2. NoOther(o, k, "accept", e)
    BY <1>2, <1>3, <2>1 DEF NoOther
  <2> QED
    BY <2>1, <2>2
<1>9. CountedOK(i, e, acc, C, j, w, a, p, o)
  BY AnsweredDrop, AbsentDrop DEF PairOK, CountedOK
<1> QED
  BY <1>4, <1>5, <1>6, <1>7, <1>8, <1>9 DEF PairOK

(* t is q followed by s.                                                    *)
ConcatOf(t, q, s) ==
    /\ Len(q) \in Nat /\ Len(s) \in Nat /\ Len(t) = Len(q) + Len(s)
    /\ \A k \in 1 .. Len(q) : t[k] = q[k]
    /\ \A k \in 1 .. Len(t) : \/ k \in 1 .. Len(q)
                              \/ k - Len(q) \in 1 .. Len(s) /\ t[k] = s[k - Len(q)]

LEMMA ConcatParts ==
  ASSUME NEW q, IsSeq(q), NEW s, IsSeq(s)
  PROVE  ConcatOf(q \o s, q, s) /\ IsSeq(q \o s)
<1>1. PICK t : t = q \o s
  OBVIOUS
<1>0. Len(q) \in Nat /\ Len(s) \in Nat
  BY DEF IsSeq
<1>2. /\ IsSeq(t) /\ Len(t) = Len(q) + Len(s)
      /\ \A k \in 1 .. Len(q) : t[k] = q[k]
      /\ \A k \in 1 .. Len(s) : t[Len(q) + k] = s[k]
  BY <1>1, ConcatIs
<1>3. ASSUME NEW k \in 1 .. Len(t), k \notin 1 .. Len(q)
      PROVE  k - Len(q) \in 1 .. Len(s) /\ t[k] = s[k - Len(q)]
  <2>1. PICK h : h = k - Len(q)
    OBVIOUS
  <2>2. h \in 1 .. Len(s) /\ k = Len(q) + h
    BY <1>0, <1>2, <1>3, <2>1
  <2> QED
    BY <1>2, <2>1, <2>2
<1> QED
  BY <1>0, <1>1, <1>2, <1>3 DEF ConcatOf

LEMMA AbsentConcat ==
  ASSUME NEW t, NEW q, NEW s, ConcatOf(t, q, s), NEW op, NEW e,
         Absent(q, op, e), Absent(s, op, e)
  PROVE  Absent(t, op, e)
BY DEF ConcatOf, Absent

(* The peer moves on and says something else.                               *)
LEMMA PairMoves ==
  ASSUME NEW i, NEW e, NEW acc, NEW A, NEW C, NEW j, NEW w, NEW a, NEW q, NEW r,
         PairOK(i, e, acc, A, C, j, w, a, q, r),
         NEW x, NEW b, Joined(x, i, e) => Joined(w, i, e) /\ b = a,
         ~Absent(q, "collect", e) /\ MayHear(x, i, e) => MayHear(w, i, e) /\ b = a,
         NEW t, NEW s, ConcatOf(t, r, s), Absent(s, "last", e), Absent(s, "accept", e)
  PROVE  PairOK(i, e, acc, A, C, j, x, b, q, t)
<1>1. ASSUME Answered(i, e, acc, w, a, q) PROVE Answered(i, e, acc, x, b, q)
  BY <1>1 DEF Answered
<1>2. \A k \in 1 .. Len(t) : Is(t[k], "last", e) \/ Is(t[k], "accept", e) =>
                                k \in 1 .. Len(r) /\ t[k] = r[k]
  BY DEF ConcatOf, Absent
<1>3. CollectOK(i, e, acc, x, b, q, t)
  <2> SUFFICES ASSUME NEW k \in 1 .. Len(q), Is(q[k], "collect", e)
               PROVE  /\ q[k].pn = acc => NoneAfter(q, k, "collect", e)
                      /\ \A h \in 1 .. Len(t) : Is(t[h], "last", e) => t[h].pn # acc
                      /\ MayHear(x, i, e) => b # acc
    BY DEF CollectOK
  <2>1. /\ q[k].pn = acc => NoneAfter(q, k, "collect", e)
        /\ \A h \in 1 .. Len(r) : Is(r[h], "last", e) => r[h].pn # acc
        /\ MayHear(w, i, e) => a # acc
    BY DEF PairOK, CollectOK
  <2>2. ~Absent(q, "collect", e)
    BY DEF Absent
  <2>3. \A h \in 1 .. Len(t) : Is(t[h], "last", e) => t[h].pn # acc
    BY <1>2, <2>1
  <2> QED
    BY <2>1, <2>2, <2>3
<1>4. LastOK(i, e, acc, x, b, q, t)
  <2> SUFFICES ASSUME NEW k \in 1 .. Len(t), Is(t[k], "last", e), t[k].pn = acc
               PROVE  NoneAfter(t, k, "last", e) /\ Answered(i, e, acc, x, b, q)
    BY DEF LastOK
  <2>1. NoneAfter(r, k, "last", e) /\ Answered(i, e, acc, w, a, q)
    BY <1>2 DEF PairOK, LastOK
  <2>2. NoneAfter(t, k, "last", e)
    BY <1>2, <2>1 DEF NoneAfter
  <2> QED
    BY <1>1, <2>1, <2>2
<1>5. BeginOK(e, A, j, q, t)
  <2> SUFFICES ASSUME NEW k \in 1 .. Len(q), Is(q[k], "begin", e)
               PROVE  j \in A /\ Absent(t, "accept", e) /\ NoOther(q, k, "begin", e)
    BY DEF BeginOK
  <2>1. j \in A /\ Absent(r, "accept", e) /\ NoOther(q, k, "begin", e)
    BY DEF PairOK, BeginOK
  <2> QED
    BY <2>1, AbsentConcat
<1>6. AcceptOK(e, A, j, t)
  <2> SUFFICES ASSUME NEW k \in 1 .. Len(t), Is(t[k], "accept", e)
               PROVE  j \in A /\ NoOther(t, k, "accept", e)
    BY DEF AcceptOK
  <2>1. j \in A /\ NoOther(r, k, "accept", e)
    BY <1>2 DEF PairOK, AcceptOK
  <2>2. NoOther(t, k, "accept", e)
    BY <1>2, <2>1 DEF NoOther
  <2> QED
    BY <2>1, <2>2
<1>7. CountedOK(i, e, acc, C, j, x, b, q, t)
  <2> SUFFICES ASSUME j \in C PROVE Answered(i, e, acc, x, b, q) /\ Absent(t, "last", e)
    BY DEF CountedOK
  <2>1. Answered(i, e, acc, w, a, q) /\ Absent(r, "last", e)
    BY DEF PairOK, CountedOK
  <2> QED
    BY <1>1, <2>1, AbsentConcat
<1> QED
  BY <1>3, <1>4, <1>5, <1>6, <1>7 DEF PairOK

(* The leader goes on: it speaks, and may begin an update.                  *)
LEMMA PairSpeaks ==
  ASSUME NEW i, NEW e, NEW acc, NEW A, NEW C, NEW j, NEW w, NEW a, NEW q, NEW r,
         PairOK(i, e, acc, A, C, j, w, a, q, r), NEW B, j \in A => j \in B,
         NEW t, NEW s, ConcatOf(t, q, s), Absent(s, "collect", e), Absent(s, "victory", e),
         \A k \in 1 .. Len(s) :
             Is(s[k], "begin", e) => j \notin A /\ j \in B /\ NoOther(s, k, "begin", e)
  PROVE  PairOK(i, e, acc, B, C, j, w, a, t, r)
<1>1. ASSUME Answered(i, e, acc, w, a, q) PROVE Answered(i, e, acc, w, a, t)
  BY <1>1, AbsentConcat DEF Answered
<1>2. \A k \in 1 .. Len(t) : Is(t[k], "collect", e) \/ Is(t[k], "victory", e) =>
                                k \in 1 .. Len(q) /\ t[k] = q[k]
  BY DEF ConcatOf, Absent
<1>3. CollectOK(i, e, acc, w, a, t, r)
  <2> SUFFICES ASSUME NEW k \in 1 .. Len(t), Is(t[k], "collect", e)
               PROVE  /\ t[k].pn = acc => NoneAfter(t, k, "collect", e)
                      /\ \A h \in 1 .. Len(r) : Is(r[h], "last", e) => r[h].pn # acc
                      /\ MayHear(w, i, e) => a # acc
    BY DEF CollectOK
  <2>1. /\ q[k].pn = acc => NoneAfter(q, k, "collect", e)
        /\ \A h \in 1 .. Len(r) : Is(r[h], "last", e) => r[h].pn # acc
        /\ MayHear(w, i, e) => a # acc
    BY <1>2 DEF PairOK, CollectOK
  <2>2. t[k].pn = acc => NoneAfter(t, k, "collect", e)
    BY <1>2, <2>1 DEF NoneAfter
  <2> QED
    BY <2>1, <2>2
<1>4. LastOK(i, e, acc, w, a, t, r)
  BY <1>1 DEF PairOK, LastOK
<1>5. VictoryOK(e, t)
  <2> SUFFICES ASSUME NEW k \in 1 .. Len(t), Is(t[k], "victory", e),
                      NEW h \in 1 .. Len(t), h < k, Is(t[h], "collect", e)
               PROVE  FALSE
    BY DEF VictoryOK
  <2> QED
    BY <1>2 DEF PairOK, VictoryOK
<1>6. BeginOK(e, B, j, t, r)
  <2> SUFFICES ASSUME NEW k \in 1 .. Len(t), Is(t[k], "begin", e)
               PROVE  j \in B /\ Absent(r, "accept", e) /\ NoOther(t, k, "begin", e)
    BY DEF BeginOK
  <2>1. CASE k \in 1 .. Len(q)
    <3>1. j \in A /\ Absent(r, "accept", e) /\ NoOther(q, k, "begin", e)
      BY <2>1 DEF PairOK, BeginOK, ConcatOf
    <3>2. Absent(s, "begin", e)
      BY <3>1 DEF Absent
    <3>3. NoOther(t, k, "begin", e)
      BY <3>1, <3>2 DEF NoOther, ConcatOf, Absent
    <3> QED
      BY <3>1, <3>3
  <2>2. CASE k \notin 1 .. Len(q)
    <3>1. k - Len(q) \in 1 .. Len(s) /\ t[k] = s[k - Len(q)]
      BY <2>2 DEF ConcatOf
    <3>2. j \notin A /\ j \in B /\ NoOther(s, k - Len(q), "begin", e)
      BY <3>1
    <3>3. Absent(q, "begin", e) /\ Absent(r, "accept", e)
      BY <3>2 DEF PairOK, BeginOK, AcceptOK, Absent
    <3>4. ASSUME NEW h \in 1 .. Len(t), h # k PROVE ~Is(t[h], "begin", e)
      <4>1. CASE h \in 1 .. Len(q)
        BY <3>3, <4>1 DEF Absent, ConcatOf
      <4>2. CASE h \notin 1 .. Len(q)
        <5>1. h - Len(q) \in 1 .. Len(s) /\ t[h] = s[h - Len(q)]
          BY <4>2 DEF ConcatOf
        <5>2. h - Len(q) # k - Len(q)
          BY <3>4 DEF ConcatOf
        <5> QED
          BY <3>2, <5>1, <5>2 DEF NoOther
      <4> QED
        BY <4>1, <4>2
    <3> QED
      BY <3>2, <3>3, <3>4 DEF NoOther
  <2> QED
    BY <2>1, <2>2
<1>7. AcceptOK(e, B, j, r)
  BY DEF PairOK, AcceptOK
<1>8. CountedOK(i, e, acc, C, j, w, a, t, r)
  BY <1>1 DEF PairOK, CountedOK
<1> QED
  BY <1>3, <1>4, <1>5, <1>6, <1>7, <1>8 DEF PairOK

(* A leader that waits for more, or for someone else.                       *)
LEMMA PairMore ==
  ASSUME NEW i, NEW e, NEW acc, NEW A, NEW C, NEW j, NEW w, NEW a, NEW q, NEW r,
         PairOK(i, e, acc, A, C, j, w, a, q, r), NEW B, j \in A => j \in B,
         NEW D, j \in D => j \in C
  PROVE  PairOK(i, e, acc, B, D, j, w, a, q, r)
BY DEF PairOK, BeginOK, AcceptOK, CountedOK

(* A new number is collected for.                                           *)
LEMMA PairCollects ==
  ASSUME NEW i, NEW e, NEW acc, NEW A, NEW C, NEW j, j \notin C, NEW w, NEW a, a # acc,
         NEW q, NEW r, Absent(q, "begin", e), Absent(r, "accept", e),
         \A k \in 1 .. Len(q) : Is(q[k], "collect", e) => q[k].pn # acc,
         \A k \in 1 .. Len(r) : Is(r[k], "last", e) => r[k].pn # acc,
         NEW t, NEW s, ConcatOf(t, q, s), VictoryOK(e, t), Absent(s, "begin", e),
         \A k \in 1 .. Len(s) : Is(s[k], "collect", e) => k = Len(s)
  PROVE  PairOK(i, e, acc, A, C, j, w, a, t, r)
<1>1. CollectOK(i, e, acc, w, a, t, r)
  <2> SUFFICES ASSUME NEW k \in 1 .. Len(t), Is(t[k], "collect", e), t[k].pn = acc
               PROVE  NoneAfter(t, k, "collect", e)
    BY DEF CollectOK
  <2>1. k \notin 1 .. Len(q)
    BY DEF ConcatOf
  <2>2. k - Len(q) \in 1 .. Len(s) /\ t[k] = s[k - Len(q)]
    BY <2>1 DEF ConcatOf
  <2>3. k - Len(q) = Len(s)
    BY <2>2
  <2>4. k = Len(t)
    BY <2>3 DEF ConcatOf
  <2> QED
    BY <2>4 DEF NoneAfter, ConcatOf
<1>2. Absent(t, "begin", e)
  BY AbsentConcat
<1>3. LastOK(i, e, acc, w, a, t, r) /\ BeginOK(e, A, j, t, r) /\ AcceptOK(e, A, j, r)
  BY <1>2 DEF LastOK, BeginOK, AcceptOK, Absent
<1> QED
  BY <1>1, <1>3 DEF PairOK, CountedOK

(* The leader counts an answer.                                             *)
LEMMA PairCounts ==
  ASSUME NEW i, NEW e, NEW acc, NEW A, NEW C, NEW j, NEW w, NEW a, NEW q, NEW r,
         PairOK(i, e, acc, A, C, j, w, a, q, r),
         Len(r) >= 1, Is(r[1], "last", e), r[1].pn = acc, NEW o, DropIs(o, r, 1), NEW D
  PROVE  PairOK(i, e, acc, A, D, j, w, a, q, o)
<1>1. Len(q) \in Nat => DropIs(q, q, 0) \/ ~IsSeq(q)
  BY DEF DropIs
<1>2. 1 \in 1 .. Len(r)
  BY DEF DropIs
<1>3. NoneAfter(r, 1, "last", e) /\ Answered(i, e, acc, w, a, q)
  BY <1>2 DEF PairOK, LastOK
<1>4. \A k \in 1 .. Len(o) : k + 1 \in 1 .. Len(r) /\ k + 1 > 1 /\ o[k] = r[k + 1]
  BY DEF DropIs, IsSeq
<1>5. Absent(o, "last", e)
  BY <1>3, <1>4 DEF Absent, NoneAfter
<1>6. CountedOK(i, e, acc, D, j, w, a, q, o)
  BY <1>3, <1>5 DEF CountedOK
<1>7. CollectOK(i, e, acc, w, a, q, o) /\ LastOK(i, e, acc, w, a, q, o)
  BY <1>3, <1>5 DEF CollectOK, LastOK, Answered, Absent
<1>8. BeginOK(e, A, j, q, o)
  BY AbsentDrop DEF PairOK, BeginOK
<1>9. AcceptOK(e, A, j, o)
  <2> SUFFICES ASSUME NEW k \in 1 .. Len(o), Is(o[k], "accept", e)
               PROVE  j \in A /\ NoOther(o, k, "accept", e)
    BY DEF AcceptOK
  <2>1. j \in A /\ NoOther(r, k + 1, "accept", e)
    BY <1>4 DEF PairOK, AcceptOK
  <2>2. NoOther(o, k, "accept", e)
    BY <1>4, <2>1 DEF NoOther
  <2> QED
    BY <2>1, <2>2
<1> QED
  BY <1>6, <1>7, <1>8, <1>9 DEF PairOK

(* The leader takes an accept; it may wait for others, or for no one.       *)
LEMMA PairAccepted ==
  ASSUME NEW i, NEW e, NEW acc, NEW A, NEW C, NEW j, NEW w, NEW a, NEW q, NEW r,
         PairOK(i, e, acc, A, C, j, w, a, q, r),
         Len(r) >= 1, Is(r[1], "accept", e), NEW o, DropIs(o, r, 1), NEW B
  PROVE  PairOK(i, e, acc, B, C, j, w, a, q, o)
<1>1. 1 \in 1 .. Len(r)
  BY DEF DropIs
<1>2. NoOther(r, 1, "accept", e) /\ Absent(q, "begin", e)
  BY <1>1 DEF PairOK, AcceptOK, BeginOK, Absent
<1>3. \A k \in 1 .. Len(o) : k + 1 \in 1 .. Len(r) /\ k + 1 # 1 /\ o[k] = r[k + 1]
  BY DEF DropIs, IsSeq
<1>4. Absent(o, "accept", e)
  BY <1>2, <1>3 DEF Absent, NoOther
<1>5. BeginOK(e, B, j, q, o) /\ AcceptOK(e, B, j, o)
  BY <1>2, <1>4 DEF BeginOK, AcceptOK, Absent
<1>6. CollectOK(i, e, acc, w, a, q, o)
  BY <1>3 DEF PairOK, CollectOK
<1>7. LastOK(i, e, acc, w, a, q, o)
  <2> SUFFICES ASSUME NEW k \in 1 .. Len(o), Is(o[k], "last", e), o[k].pn = acc
               PROVE  NoneAfter(o, k, "last", e) /\ Answered(i, e, acc, w, a, q)
    BY DEF LastOK
  <2>1. NoneAfter(r, k + 1, "last", e) /\ Answered(i, e, acc, w, a, q)
    BY <1>3 DEF PairOK, LastOK
  <2>2. NoneAfter(o, k, "last", e)
    BY <1>3, <2>1 DEF NoneAfter
  <2> QED
    BY <2>1, <2>2
<1>8. CountedOK(i, e, acc, C, j, w, a, q, o)
  BY AbsentDrop DEF PairOK, CountedOK
<1> QED
  BY <1>5, <1>6, <1>7, <1>8 DEF PairOK

(* The peer hears of the victory.                                           *)
LEMMA PairJoins ==
  ASSUME NEW i, NEW e, NEW acc, NEW A, NEW C, NEW j, NEW w, NEW a, NEW q, NEW r,
         PairOK(i, e, acc, A, C, j, w, a, q, r), MayHear(w, i, e),
         1 \in 1 .. Len(q), Is(q[1], "victory", e), NEW x
  PROVE  PairOK(i, e, acc, A, C, j, x, a, q, r)
<1>1. ~Answered(i, e, acc, w, a, q)
  BY DEF Answered, Absent
<1>2. LastOK(i, e, acc, x, a, q, r) /\ CountedOK(i, e, acc, C, j, x, a, q, r)
  BY <1>1 DEF PairOK, LastOK, CountedOK
<1>3. CollectOK(i, e, acc, x, a, q, r)
  BY DEF PairOK, CollectOK
<1> QED
  BY <1>2, <1>3 DEF PairOK

(* The peer answers a collect.                                              *)
LEMMA PairReplies ==
  ASSUME NEW i, NEW e, NEW acc, NEW A, NEW C, NEW j, NEW w, NEW a, NEW q, NEW r,
         PairOK(i, e, acc, A, C, j, w, a, q, r), Joined(w, i, e),
         Len(q) >= 1, Is(q[1], "collect", e), NEW p, DropIs(p, q, 1),
         NEW b, b \in {a, q[1].pn},
         NEW t, NEW s, ConcatOf(t, r, s), Absent(s, "accept", e),
         \A k \in 1 .. Len(s) : Is(s[k], "last", e) => s[k].pn = b /\ k = Len(s)
  PROVE  PairOK(i, e, acc, A, C, j, w, b, p, t)
<1>1. 1 \in 1 .. Len(q)
  BY DEF DropIs
<1>2. /\ q[1].pn = acc => NoneAfter(q, 1, "collect", e)
      /\ \A h \in 1 .. Len(r) : Is(r[h], "last", e) => r[h].pn # acc
      /\ a # acc
  BY <1>1 DEF PairOK, CollectOK, MayHear
<1>3. \A k \in 1 .. Len(p) : k + 1 \in 1 .. Len(q) /\ k + 1 > 1 /\ p[k] = q[k + 1]
  BY DEF DropIs, IsSeq
<1>4. b = acc => Absent(p, "collect", e)
  BY <1>2, <1>3 DEF NoneAfter, Absent
<1>5. Absent(p, "victory", e)
  BY <1>1, <1>3 DEF PairOK, VictoryOK, Absent
<1>6. ASSUME NEW k \in 1 .. Len(t), Is(t[k], "last", e), t[k].pn = acc
      PROVE  k = Len(t) /\ b = acc
  <2>1. k \notin 1 .. Len(r)
    BY <1>2, <1>6 DEF ConcatOf
  <2>2. k - Len(r) \in 1 .. Len(s) /\ t[k] = s[k - Len(r)]
    BY <2>1 DEF ConcatOf
  <2>3. k - Len(r) = Len(s) /\ b = acc
    BY <1>6, <2>2
  <2> QED
    BY <2>3 DEF ConcatOf
<1>7. CollectOK(i, e, acc, w, b, p, t)
  <2> SUFFICES ASSUME NEW k \in 1 .. Len(p), Is(p[k], "collect", e)
               PROVE  /\ p[k].pn = acc => NoneAfter(p, k, "collect", e)
                      /\ \A h \in 1 .. Len(t) : Is(t[h], "last", e) => t[h].pn # acc
                      /\ MayHear(w, i, e) => b # acc
    BY DEF CollectOK
  <2>1. b # acc
    BY <1>4 DEF Absent
  <2>2. ASSUME p[k].pn = acc PROVE NoneAfter(p, k, "collect", e)
    <3>1. NoneAfter(q, k + 1, "collect", e)
      BY <1>3, <2>2 DEF PairOK, CollectOK
    <3> QED
      BY <1>3, <3>1 DEF NoneAfter
  <2> QED
    BY <1>6, <2>1, <2>2
<1>8. LastOK(i, e, acc, w, b, p, t)
  <2> SUFFICES ASSUME NEW k \in 1 .. Len(t), Is(t[k], "last", e), t[k].pn = acc
               PROVE  NoneAfter(t, k, "last", e) /\ Answered(i, e, acc, w, b, p)
    BY DEF LastOK
  <2>1. k = Len(t) /\ b = acc
    BY <1>6
  <2>2. NoneAfter(t, k, "last", e)
    BY <2>1 DEF NoneAfter, ConcatOf
  <2> QED
    BY <1>4, <1>5, <2>1, <2>2 DEF Answered
<1>9. VictoryOK(e, p)
  BY <1>5 DEF VictoryOK, Absent
<1>10. BeginOK(e, A, j, p, t)
  <2> SUFFICES ASSUME NEW k \in 1 .. Len(p), Is(p[k], "begin", e)
               PROVE  j \in A /\ Absent(t, "accept", e) /\ NoOther(p, k, "begin", e)
    BY DEF BeginOK
  <2>1. j \in A /\ Absent(r, "accept", e) /\ NoOther(q, k + 1, "begin", e)
    BY <1>3 DEF PairOK, BeginOK
  <2>2. NoOther(p, k, "begin", e)
    BY <1>3, <2>1 DEF NoOther
  <2> QED
    BY <2>1, <2>2, AbsentConcat
<1>11. AcceptOK(e, A, j, t)
  <2> SUFFICES ASSUME NEW k \in 1 .. Len(t), Is(t[k], "accept", e)
               PROVE  j \in A /\ NoOther(t, k, "accept", e)
    BY DEF AcceptOK
  <2>1. \A h \in 1 .. Len(t) : Is(t[h], "accept", e) => h \in 1 .. Len(r) /\ t[h] = r[h]
    BY DEF ConcatOf, Absent
  <2>2. j \in A /\ NoOther(r, k, "accept", e)
    BY <2>1 DEF PairOK, AcceptOK
  <2> QED
    BY <2>1, <2>2 DEF NoOther
<1>12. CountedOK(i, e, acc, C, j, w, b, p, t)
  BY <1>1 DEF PairOK, CountedOK, Answered, Absent
<1> QED
  BY <1>7, <1>8, <1>9, <1>10, <1>11, <1>12 DEF PairOK

(* The peer accepts.                                                        *)
LEMMA PairAccepts ==
  ASSUME NEW i, NEW e, NEW acc, NEW A, NEW C, NEW j, NEW w, NEW a, NEW q, NEW r,
         PairOK(i, e, acc, A, C, j, w, a, q, r),
         Len(q) >= 1, Is(q[1], "begin", e), NEW p, DropIs(p, q, 1),
         NEW t, NEW s, ConcatOf(t, r, s), Absent(s, "last", e),
         \A k \in 1 .. Len(s) : Is(s[k], "accept", e) => NoOther(s, k, "accept", e)
  PROVE  PairOK(i, e, acc, A, C, j, w, a, p, t)
<1>1. 1 \in 1 .. Len(q)
  BY DEF DropIs
<1>2. j \in A /\ Absent(r, "accept", e) /\ NoOther(q, 1, "begin", e)
  BY <1>1 DEF PairOK, BeginOK
<1>3. \A k \in 1 .. Len(p) : k + 1 \in 1 .. Len(q) /\ k + 1 # 1 /\ p[k] = q[k + 1]
  BY DEF DropIs, IsSeq
<1>4. BeginOK(e, A, j, p, t)
  BY <1>2, <1>3 DEF BeginOK, NoOther
<1>5. AcceptOK(e, A, j, t)
  <2> SUFFICES ASSUME NEW k \in 1 .. Len(t), Is(t[k], "accept", e),
                      NEW h \in 1 .. Len(t), h # k, Is(t[h], "accept", e)
               PROVE  FALSE
    BY <1>2 DEF AcceptOK, NoOther
  <2>1. k \notin 1 .. Len(r) /\ h \notin 1 .. Len(r)
    BY <1>2 DEF Absent, ConcatOf
  <2>2. /\ k - Len(r) \in 1 .. Len(s) /\ t[k] = s[k - Len(r)]
        /\ h - Len(r) \in 1 .. Len(s) /\ t[h] = s[h - Len(r)]
        /\ k - Len(r) # h - Len(r)
    BY <2>1 DEF ConcatOf
  <2> QED
    BY <2>2 DEF NoOther
<1>6. \A k \in 1 .. Len(t) : Is(t[k], "last", e) => k \in 1 .. Len(r) /\ t[k] = r[k]
  BY DEF ConcatOf, Absent
<1>7. CollectOK(i, e, acc, w, a, p, t)
  <2> SUFFICES ASSUME NEW k \in 1 .. Len(p), Is(p[k], "collect", e)
               PROVE  /\ p[k].pn = acc => NoneAfter(p, k, "collect", e)
                      /\ \A h \in 1 .. Len(t) : Is(t[h], "last", e) => t[h].pn # acc
                      /\ MayHear(w, i, e) => a # acc
    BY DEF CollectOK
  <2>1. /\ q[k + 1].pn = acc => NoneAfter(q, k + 1, "collect", e)
        /\ \A h \in 1 .. Len(r) : Is(r[h], "last", e) => r[h].pn # acc
        /\ MayHear(w, i, e) => a # acc
    BY <1>3 DEF PairOK, CollectOK
  <2>2. ASSUME p[k].pn = acc PROVE NoneAfter(p, k, "collect", e)
    <3>1. NoneAfter(q, k + 1, "collect", e)
      BY <1>3, <2>1, <2>2
    <3>2. \A h \in 1 .. Len(p) : h > k => h + 1 > k + 1
      OBVIOUS
    <3> QED
      BY <1>3, <3>1, <3>2 DEF NoneAfter
  <2> QED
    BY <1>6, <2>1, <2>2
<1>8. LastOK(i, e, acc, w, a, p, t)
  <2> SUFFICES ASSUME NEW k \in 1 .. Len(t), Is(t[k], "last", e), t[k].pn = acc
               PROVE  NoneAfter(t, k, "last", e) /\ Answered(i, e, acc, w, a, p)
    BY DEF LastOK
  <2>1. NoneAfter(r, k, "last", e) /\ Answered(i, e, acc, w, a, q)
    BY <1>6 DEF PairOK, LastOK
  <2>2. NoneAfter(t, k, "last", e)
    BY <1>6, <2>1 DEF NoneAfter
  <2> QED
    BY <2>1, <2>2, AnsweredDrop
<1>9. VictoryOK(e, p)
  <2> SUFFICES ASSUME NEW k \in 1 .. Len(p), Is(p[k], "victory", e),
                      NEW h \in 1 .. Len(p), h < k
               PROVE  ~Is(p[h], "collect", e)
    BY DEF VictoryOK
  <2>1. h + 1 < k + 1
    OBVIOUS
  <2> QED
    BY <1>3, <2>1 DEF PairOK, VictoryOK
<1>10. CountedOK(i, e, acc, C, j, w, a, p, t)
  BY AnsweredDrop, AbsentConcat DEF PairOK, CountedOK
<1> QED
  BY <1>4, <1>5, <1>7, <1>8, <1>9, <1>10 DEF PairOK

(* What a begin relies on.                                                  *)
LEMMA PromiseDrop ==
  ASSUME NEW i, NEW w, NEW a, NEW q, PromiseOK(i, w, a, q), NEW p, NEW d, DropIs(p, q, d)
  PROVE  PromiseOK(i, w, a, p)
<1> SUFFICES ASSUME NEW k \in 1 .. Len(p), p[k].op = "begin", p[k].epoch % 2 = 0
             PROVE  Answered(i, p[k].epoch, p[k].pn, w, a, p)
  BY DEF PromiseOK
<1>1. k + d \in 1 .. Len(q) /\ p[k] = q[k + d]
  BY DEF DropIs, IsSeq
<1>2. Answered(i, p[k].epoch, p[k].pn, w, a, q)
  BY <1>1 DEF PromiseOK
<1> QED
  BY <1>2, AnsweredDrop

LEMMA PromiseMoves ==
  ASSUME NEW i, NEW w, NEW a, NEW q, PromiseOK(i, w, a, q), NEW x, NEW b,
         \A e : Joined(x, i, e) => Joined(w, i, e) /\ b = a
  PROVE  PromiseOK(i, x, b, q)
BY DEF PromiseOK, Answered

LEMMA PromiseSpeaks ==
  ASSUME NEW i, NEW w, NEW a, NEW q, PromiseOK(i, w, a, q), NEW t, NEW s, ConcatOf(t, q, s),
         \A k \in 1 .. Len(q) : q[k].op = "begin" /\ q[k].epoch % 2 = 0 =>
             Absent(s, "collect", q[k].epoch) /\ Absent(s, "victory", q[k].epoch),
         \A k \in 1 .. Len(s) : s[k].op = "begin" /\ s[k].epoch % 2 = 0 =>
             Answered(i, s[k].epoch, s[k].pn, w, a, t)
  PROVE  PromiseOK(i, w, a, t)
<1> SUFFICES ASSUME NEW k \in 1 .. Len(t), t[k].op = "begin", t[k].epoch % 2 = 0
             PROVE  Answered(i, t[k].epoch, t[k].pn, w, a, t)
  BY DEF PromiseOK
<1>1. CASE k \in 1 .. Len(q)
  <2>1. t[k] = q[k]
    BY <1>1 DEF ConcatOf
  <2>2. Answered(i, q[k].epoch, q[k].pn, w, a, q)
    BY <1>1, <2>1 DEF PromiseOK
  <2>3. Absent(s, "collect", q[k].epoch) /\ Absent(s, "victory", q[k].epoch)
    BY <1>1, <2>1
  <2>4. Absent(t, "collect", q[k].epoch) /\ Absent(t, "victory", q[k].epoch)
    BY <2>2, <2>3, AbsentConcat DEF Answered
  <2> QED
    BY <2>1, <2>2, <2>4 DEF Answered
<1>2. CASE k \notin 1 .. Len(q)
  <2>1. k - Len(q) \in 1 .. Len(s) /\ t[k] = s[k - Len(q)]
    BY <1>2 DEF ConcatOf
  <2> QED
    BY <2>1
<1> QED
  BY <1>1, <1>2

(* p is the end of q.                                                       *)
Suffix(p, q) == \E d : DropIs(p, q, d)

LEMMA SuffixSelf ==
  ASSUME NEW q, IsSeq(q)
  PROVE  Suffix(q, q)
<1>1. DropIs(q, q, 0)
  BY DEF DropIs, IsSeq
<1> QED
  BY <1>1 DEF Suffix

LEMMA SuffixEmpty ==
  ASSUME NEW q, IsSeq(q)
  PROVE  Suffix(<<>>, q)
<1>1. DropIs(<<>>, q, Len(q))
  BY EmptyIs DEF DropIs, IsSeq
<1> QED
  BY <1>1 DEF Suffix

LEMMA SuffixTrans ==
  ASSUME NEW p, NEW q, NEW r, Suffix(p, q), Suffix(q, r)
  PROVE  Suffix(p, r)
<1>1. PICK d : DropIs(p, q, d)
  BY DEF Suffix
<1>2. PICK f : DropIs(q, r, f)
  BY DEF Suffix
<1>3. Len(r) \in Int /\ d \in Int /\ f \in Int
  BY <1>1, <1>2 DEF DropIs, IsSeq
<1>4. d + f \in 0 .. Len(r) /\ IsSeq(p) /\ Len(p) = Len(r) - (d + f)
  BY <1>1, <1>2, <1>3 DEF DropIs
<1>5. ASSUME NEW k \in 1 .. Len(p) PROVE p[k] = r[k + (d + f)]
  <2>1. k + d \in 1 .. Len(q) /\ p[k] = q[k + d]
    BY <1>1, <1>3 DEF DropIs, IsSeq
  <2>2. q[k + d] = r[(k + d) + f]
    BY <1>2, <2>1 DEF DropIs
  <2>3. (k + d) + f = k + (d + f)
    BY <1>3
  <2> QED
    BY <2>1, <2>2, <2>3
<1>6. DropIs(p, r, d + f)
  BY <1>4, <1>5 DEF DropIs
<1> QED
  BY <1>6 DEF Suffix

LEMMA PairSuffix ==
  ASSUME NEW i, NEW e, NEW acc, NEW A, NEW C, NEW j, NEW w, NEW a, NEW q, NEW r,
         PairOK(i, e, acc, A, C, j, w, a, q, r), NEW p, Suffix(p, q), NEW o, Suffix(o, r)
  PROVE  PairOK(i, e, acc, A, C, j, w, a, p, o)
<1>1. PICK d : DropIs(p, q, d)
  BY DEF Suffix
<1>2. PICK f : DropIs(o, r, f)
  BY DEF Suffix
<1> QED
  BY <1>1, <1>2, PairDrop

(* Numbers.                                                                 *)
Grown(t, u) == \A p \in Mon : t[p].last_pn \in Nat /\ u[p].last_pn \in Nat
                              /\ t[p].last_pn <= u[p].last_pn

LEMMA UsedGrown ==
  ASSUME NEW t, NEW u, Grown(t, u), NEW pn, Used(t, pn)
  PROVE  Used(u, pn)
BY DEF Grown, Used

LEMMA SentGrown ==
  ASSUME NEW t, NEW u, Grown(t, u), NEW w, NEW q, SentOK(t, w, q)
  PROVE  SentOK(u, w, q)
BY UsedGrown DEF SentOK

LEMMA SentDrop ==
  ASSUME NEW t, NEW w, NEW q, SentOK(t, w, q), NEW p, Suffix(p, q)
  PROVE  SentOK(t, w, p)
<1>1. PICK d : DropIs(p, q, d)
  BY DEF Suffix
<1>2. \A k \in 1 .. Len(p) : k + d \in 1 .. Len(q) /\ p[k] = q[k + d]
  BY <1>1 DEF DropIs, IsSeq
<1> QED
  BY <1>2 DEF SentOK

LEMMA SentConcat ==
  ASSUME NEW t, NEW w, NEW x, w.epoch \in Int, x.epoch \in Int, w.epoch <= x.epoch,
         NEW q, SentOK(t, w, q), \A k \in 1 .. Len(q) : q[k].epoch \in Int,
         NEW s, SentOK(t, x, s), NEW r, ConcatOf(r, q, s)
  PROVE  SentOK(t, x, r)
<1> SUFFICES ASSUME NEW k \in 1 .. Len(r)
             PROVE  /\ r[k].epoch <= x.epoch
                    /\ r[k].op \in {"collect", "last"} => Used(t, r[k].pn)
  BY DEF SentOK
<1>1. CASE k \in 1 .. Len(q)
  <2>1. r[k] = q[k]
    BY <1>1 DEF ConcatOf
  <2> QED
    BY <1>1, <2>1 DEF SentOK
<1>2. CASE k \notin 1 .. Len(q)
  <2>1. k - Len(q) \in 1 .. Len(s) /\ r[k] = s[k - Len(q)]
    BY <1>2 DEF ConcatOf
  <2> QED
    BY <2>1 DEF SentOK
<1> QED
  BY <1>1, <1>2

----------------------------------------------------------------------------
(* A step of m keeps the rounds, if m does its part.  v, mm, t and g are    *)
(* the views, memories, stores and sessions before the step, w, nn, u and h *)
(* those after it; n are the sessions without what m has taken, and out is  *)
(* what it sends.                                                           *)

LeaderPart(w, nn, m, n, out) ==
    Leading(w[m]) =>
        \E C \in SUBSET (w[m].quorum \ {m}) :
            /\ CountOK(nn[m], C, w[m].quorum \ {m})
            /\ \A j \in w[m].quorum \ {m} :
                  PairOK(m, w[m].epoch, nn[m].accepted_pn, Awaited(nn[m]), C, j,
                         w[j], nn[j].accepted_pn, n[m][j] \o out[j], n[j][m])

(* For every leader i the part of m, with the promise b, is kept.           *)
PeerPart(v, mm, g, x, b, m, n, out) ==
    \A i \in Mon \ {m} : Leading(v[i]) /\ m \in v[i].quorum =>
        \A C : PairOK(i, v[i].epoch, mm[i].accepted_pn, Awaited(mm[i]), C, m,
                      v[m], mm[m].accepted_pn, g[i][m], g[m][i]) =>
               PairOK(i, v[i].epoch, mm[i].accepted_pn, Awaited(mm[i]), C, m,
                      x, b, n[i][m], n[m][i] \o out[i])

PromisePart(w, nn, m, n, out) ==
    \A j \in Mon \ {m} :
        /\ PromiseOK(m, w[j], nn[j].accepted_pn, n[m][j] \o out[j])
        /\ PromiseOK(j, w[m], nn[m].accepted_pn, n[j][m])

RecordPart(t, w, nn, u, m, n, out) ==
    /\ Grown(t, u)
    /\ \A j \in Mon : SentOK(u, w[m], n[m][j] \o out[j])
    /\ LocalOK(w[m], m, nn[m], u[m]) /\ NumbersOK(u, nn[m], u[m])

OthersStay(m, v, w, mm, nn, t, u) ==
    \A p \in Mon \ {m} : w[p] = v[p] /\ nn[p] = mm[p] /\ u[p] = t[p]

Carried(g, n, h, m, out) ==
    /\ \A i, j \in Mon : Suffix(n[i][j], g[i][j])
    /\ \A i, j \in Mon : Suffix(h[i][j], IF i = m THEN n[i][j] \o out[j] ELSE n[i][j])
    /\ Len(h[m][m]) = 0

LEMMA RoundStep ==
  ASSUME NEW v \in Views, NEW mm, NEW t, NEW g, Rounds(v, mm, t, g), NEW m \in Mon,
         NEW w \in Views, NEW nn, NEW u, NEW h, NEW n, NEW out,
         OthersStay(m, v, w, mm, nn, t, u), Carried(g, n, h, m, out),
         LeaderPart(w, nn, m, n, out),
         PeerPart(v, mm, g, w[m], nn[m].accepted_pn, m, n, out),
         PromisePart(w, nn, m, n, out), RecordPart(t, w, nn, u, m, n, out)
  PROVE  Rounds(w, nn, u, h)
<1>0. \A i \in Mon \ {m} : \A j \in Mon : Suffix(h[i][j], n[i][j]) /\ Suffix(h[i][j], g[i][j])
  BY SuffixTrans DEF Carried
<1>1. \A j \in Mon : Suffix(h[m][j], n[m][j] \o out[j])
  BY DEF Carried
<1>2. ASSUME NEW i \in Mon PROVE RoundOK(w, nn, h, i)
  <2> SUFFICES ASSUME Leading(w[i])
               PROVE  \E C \in SUBSET (w[i].quorum \ {i}) :
                        /\ CountOK(nn[i], C, w[i].quorum \ {i})
                        /\ \A j \in w[i].quorum \ {i} :
                              PairOK(i, w[i].epoch, nn[i].accepted_pn, Awaited(nn[i]), C, j,
                                     w[j], nn[j].accepted_pn, h[i][j], h[j][i])
    BY DEF RoundOK
  <2>1. CASE i = m
    <3>1. PICK C \in SUBSET (w[i].quorum \ {i}) :
            /\ CountOK(nn[i], C, w[i].quorum \ {i})
            /\ \A j \in w[i].quorum \ {i} :
                  PairOK(i, w[i].epoch, nn[i].accepted_pn, Awaited(nn[i]), C, j,
                         w[j], nn[j].accepted_pn, n[i][j] \o out[j], n[j][i])
      BY <2>1 DEF LeaderPart
    <3>2. ASSUME NEW j \in w[i].quorum \ {i}, j \in Mon
          PROVE  PairOK(i, w[i].epoch, nn[i].accepted_pn, Awaited(nn[i]), C, j,
                        w[j], nn[j].accepted_pn, h[i][j], h[j][i])
      <4>1. Suffix(h[i][j], n[i][j] \o out[j]) /\ Suffix(h[j][i], n[j][i])
        BY <1>0, <1>1, <2>1, <3>2
      <4> QED
        BY <3>1, <4>1, PairSuffix
    <3>3. w[i].quorum \in SUBSET Mon
      BY PlaceFields DEF Views
    <3> QED
      BY <3>1, <3>2, <3>3
  <2>2. CASE i # m
    <3>1. w[i] = v[i] /\ nn[i] = mm[i] /\ v[i].quorum \in SUBSET Mon
      BY <2>2, PlaceFields DEF OthersStay, Views
    <3>2. PICK C \in SUBSET (v[i].quorum \ {i}) :
            /\ CountOK(mm[i], C, v[i].quorum \ {i})
            /\ \A j \in v[i].quorum \ {i} :
                  PairOK(i, v[i].epoch, mm[i].accepted_pn, Awaited(mm[i]), C, j,
                         v[j], mm[j].accepted_pn, g[i][j], g[j][i])
      BY <3>1 DEF Rounds, RoundOK
    <3>3. ASSUME NEW j \in v[i].quorum \ {i}
          PROVE  PairOK(i, v[i].epoch, mm[i].accepted_pn, Awaited(mm[i]), C, j,
                        w[j], nn[j].accepted_pn, h[i][j], h[j][i])
      <4>0. j \in Mon
        BY <3>1, <3>3
      <4>1. CASE j = m
        <5>1. PairOK(i, v[i].epoch, mm[i].accepted_pn, Awaited(mm[i]), C, m,
                     v[m], mm[m].accepted_pn, g[i][m], g[m][i])
          BY <3>2, <3>3, <4>1
        <5>2. PairOK(i, v[i].epoch, mm[i].accepted_pn, Awaited(mm[i]), C, m,
                     w[m], nn[m].accepted_pn, n[i][m], n[m][i] \o out[i])
          BY <2>2, <3>1, <3>3, <4>1, <5>1 DEF PeerPart
        <5>3. Suffix(h[i][m], n[i][m]) /\ Suffix(h[m][i], n[m][i] \o out[i])
          BY <1>0, <1>1, <2>2
        <5>4. PairOK(i, v[i].epoch, mm[i].accepted_pn, Awaited(mm[i]), C, m,
                     w[m], nn[m].accepted_pn, h[i][m], h[m][i])
          BY <5>2, <5>3, PairSuffix
        <5> QED
          BY <4>1, <5>4
      <4>2. CASE j # m
        <5>1. w[j] = v[j] /\ nn[j] = mm[j]
          BY <4>0, <4>2 DEF OthersStay
        <5>2. Suffix(h[i][j], g[i][j]) /\ Suffix(h[j][i], g[j][i])
          BY <1>0, <2>2, <4>0, <4>2
        <5>3. PairOK(i, v[i].epoch, mm[i].accepted_pn, Awaited(mm[i]), C, j,
                     v[j], mm[j].accepted_pn, g[i][j], g[j][i])
          BY <3>2, <3>3
        <5>4. PairOK(i, v[i].epoch, mm[i].accepted_pn, Awaited(mm[i]), C, j,
                     v[j], mm[j].accepted_pn, h[i][j], h[j][i])
          BY <5>2, <5>3, PairSuffix
        <5> QED
          BY <5>1, <5>4
      <4> QED
        BY <4>1, <4>2
    <3> QED
      BY <3>1, <3>2, <3>3
  <2> QED
    BY <2>1, <2>2
<1>3. ASSUME NEW i \in Mon, NEW j \in Mon PROVE PromiseOK(i, w[j], nn[j].accepted_pn, h[i][j])
  <2>1. CASE i = m /\ j = m
    BY <2>1 DEF PromiseOK, Carried
  <2>2. CASE i = m /\ j # m
    <3>1. PromiseOK(i, w[j], nn[j].accepted_pn, n[i][j] \o out[j])
      BY <2>2 DEF PromisePart
    <3>2. PICK d : DropIs(h[i][j], n[i][j] \o out[j], d)
      BY <1>1, <2>2 DEF Suffix
    <3> QED
      BY <3>1, <3>2, PromiseDrop
  <2>3. CASE i # m /\ j = m
    <3>1. PromiseOK(i, w[j], nn[j].accepted_pn, n[i][j])
      BY <2>3 DEF PromisePart
    <3>2. PICK d : DropIs(h[i][j], n[i][j], d)
      BY <1>0, <2>3 DEF Suffix
    <3> QED
      BY <3>1, <3>2, PromiseDrop
  <2>4. CASE i # m /\ j # m
    <3>1. PromiseOK(i, v[j], mm[j].accepted_pn, g[i][j]) /\ w[j] = v[j] /\ nn[j] = mm[j]
      BY <2>4 DEF Rounds, OthersStay
    <3>2. PICK d : DropIs(h[i][j], g[i][j], d)
      BY <1>0, <2>4 DEF Suffix
    <3>3. PromiseOK(i, v[j], mm[j].accepted_pn, h[i][j])
      BY <3>1, <3>2, PromiseDrop
    <3> QED
      BY <3>1, <3>3
  <2> QED
    BY <2>1, <2>2, <2>3, <2>4
<1>4. ASSUME NEW i \in Mon, NEW j \in Mon PROVE SentOK(u, w[i], h[i][j])
  <2>1. CASE i = m
    BY <1>1, <2>1, SentDrop DEF RecordPart
  <2>2. CASE i # m
    <3>1. SentOK(t, v[i], g[i][j]) /\ w[i] = v[i]
      BY <2>2 DEF Rounds, OthersStay
    <3>2. SentOK(t, v[i], h[i][j])
      BY <1>0, <2>2, <3>1, SentDrop
    <3> QED
      BY <3>1, <3>2, SentGrown DEF RecordPart
  <2> QED
    BY <2>1, <2>2
<1>5. ASSUME NEW p \in Mon
      PROVE  LocalOK(w[p], p, nn[p], u[p]) /\ NumbersOK(u, nn[p], u[p])
  <2>1. CASE p = m
    BY <2>1 DEF RecordPart
  <2>2. CASE p # m
    <3>1. w[p] = v[p] /\ nn[p] = mm[p] /\ u[p] = t[p]
      BY <2>2 DEF OthersStay
    <3>2. LocalOK(v[p], p, mm[p], t[p]) /\ Used(t, mm[p].accepted_pn) /\ Used(t, t[p].accepted_pn)
      BY DEF Rounds, NumbersOK
    <3>3. Used(u, mm[p].accepted_pn) /\ Used(u, t[p].accepted_pn)
      BY <3>2, UsedGrown DEF RecordPart
    <3> QED
      BY <3>1, <3>2, <3>3 DEF NumbersOK
  <2> QED
    BY <2>1, <2>2
<1> QED
  BY <1>2, <1>3, <1>4, <1>5 DEF Rounds

----------------------------------------------------------------------------
(* Steps.                                                                   *)

LEMMA NextRounds ==
  ASSUME Inv, Inv', RoundInv, NEW m \in Mon, NEW n, NEW out,
         OthersStay(m, View, View', mem, mem', store, store'), Carried(net, n, net', m, out),
         LeaderPart(View', mem', m, n, out),
         PeerPart(View, mem, net, View'[m], mem'[m].accepted_pn, m, n, out),
         PromisePart(View', mem', m, n, out),
         RecordPart(store, View', mem', store', m, n, out)
  PROVE  RoundInv'
<1>1. PICK v, w : v = View /\ w = View'
  OBVIOUS
<1>2. v \in Views /\ w \in Views
  BY <1>1 DEF Inv, Views
<1>3. Rounds(v, mem, store, net)
  BY <1>1 DEF RoundInv
<1>4. Rounds(w, mem', store', net')
  BY <1>1, <1>2, <1>3, RoundStep
<1> QED
  BY <1>1, <1>4 DEF RoundInv

(* What m reads and what it sends.                                          *)
Taken(n) ==
    /\ n = [i \in Mon |-> [j \in Mon |-> n[i][j]]]
    /\ \A i, j \in Mon : IsSeq(n[i][j]) /\ Suffix(n[i][j], net[i][j])

LEMMA NetIs ==
  ASSUME Inv
  PROVE  /\ net = [i \in Mon |-> [j \in Mon |-> net[i][j]]]
         /\ \A i, j \in Mon : /\ IsSeq(net[i][j]) /\ Len(net[i][j]) \in Nat
                              /\ \A k \in 1 .. Len(net[i][j]) : MessageOK(View, net[i][j], k, i, j)
BY DEF Inv, NetOK, SessionOK, IsSeq

LEMMA TakenNone ==
  ASSUME Inv
  PROVE  Taken(net)
BY NetIs, SuffixSelf DEF Taken

LEMMA TakenHead ==
  ASSUME Inv, NEW m \in Mon, NEW from \in Mon, net[from][m] # <<>>
  PROVE  LET n == Consumed(from, m) IN
         /\ Taken(n) /\ DropIs(n[from][m], net[from][m], 1) /\ Len(net[from][m]) >= 1
         /\ Head(net[from][m]) = net[from][m][1]
         /\ \A i, j \in Mon : i # from \/ j # m => n[i][j] = net[i][j]
<1>1. PICK n : n = Consumed(from, m)
  OBVIOUS
<1>2. /\ n[from][m] = Tail(net[from][m])
      /\ \A i, j \in Mon : i # from \/ j # m => n[i][j] = net[i][j]
      /\ n = [i \in Mon |-> [j \in Mon |-> n[i][j]]]
  <2>1. net = [i \in Mon |-> [j \in Mon |-> net[i][j]]]
    BY NetIs
  <2> QED
    BY <1>1, <2>1 DEF Consumed
<1>3. DropIs(Tail(net[from][m]), net[from][m], 1) /\ Len(net[from][m]) >= 1
      /\ Head(net[from][m]) = net[from][m][1]
  BY NetIs, TailIs
<1>4. ASSUME NEW i \in Mon, NEW j \in Mon
      PROVE  IsSeq(n[i][j]) /\ Suffix(n[i][j], net[i][j])
  <2>1. CASE i = from /\ j = m
    <3>1. DropIs(n[i][j], net[i][j], 1)
      BY <1>2, <1>3, <2>1
    <3>2. IsSeq(n[i][j])
      BY <3>1 DEF DropIs
    <3> QED
      BY <3>1, <3>2 DEF Suffix
  <2>2. CASE i # from \/ j # m
    BY <1>2, <2>2, NetIs, SuffixSelf
  <2> QED
    BY <2>1, <2>2
<1> QED
  BY <1>1, <1>2, <1>3, <1>4 DEF Taken

(* m ends its step at x, with memory s and store st, and sends what c has.  *)
Ends(m, x, s, st, n, c) ==
    /\ Becomes(m, x) /\ mem' = [mem EXCEPT ![m] = s] /\ store' = [store EXCEPT ![m] = st]
    /\ net' = Prune(Sent(n, m, c))

LEMMA EndsIs ==
  ASSUME Inv, Inv', NEW m \in Mon, NEW x \in Place, NEW s, NEW st, NEW n, NEW c,
         IsCall(c), Taken(n), Ends(m, x, s, st, n, c)
  PROVE  /\ Carried(net, n, net', m, c.sent)
         /\ OthersStay(m, View, View', mem, mem', store, store')
         /\ View'[m] = x /\ mem'[m] = s /\ store'[m] = st
<1>1. View' = [View EXCEPT ![m] = x]
  BY ViewBecomes DEF Ends
<1>2. View \in Views /\ DOMAIN mem = Mon /\ DOMAIN store = Mon
  BY DEF Inv, Views
<1>3. OthersStay(m, View, View', mem, mem', store, store')
  BY <1>1, <1>2 DEF OthersStay, Ends, Views
<1>4. View'[m] = x /\ mem'[m] = s /\ store'[m] = st
  BY <1>1, <1>2 DEF Ends, Views
<1>5. ASSUME NEW i \in Mon, NEW j \in Mon
      PROVE  Suffix(net'[i][j], IF i = m THEN n[i][j] \o c.sent[j] ELSE n[i][j])
  <2>1. PICK q : q = IF i = m THEN n[i][j] \o c.sent[j] ELSE n[i][j]
    OBVIOUS
  <2>2. IsSeq(n[i][j]) /\ IsSeq(c.sent[j])
    BY DEF Taken, IsCall
  <2>3. IsSeq(q)
    BY <2>1, <2>2, ConcatParts
  <2>4. Sent(n, m, c)[i][j] = q
    BY <2>1 DEF Sent, Taken
  <2>5. net'[i][j] = Pending(q, epoch'[j], role'[j])
    BY <2>4 DEF Ends, Prune
  <2>6. Suffix(net'[i][j], q)
    BY <2>3, <2>5, PendingIs DEF Suffix
  <2> QED
    BY <2>1, <2>6
<1>6. Len(net'[m][m]) = 0
  <2>1. /\ Len(net'[m][m]) \in Nat
        /\ \A k \in 1 .. Len(net'[m][m]) : MessageOK(View', net'[m][m], k, m, m)
    BY DEF Inv, NetOK, SessionOK, IsSeq
  <2>2. \A k \in 1 .. Len(net'[m][m]) : FALSE
    BY <2>1 DEF MessageOK
  <2> QED
    BY <2>1, <2>2
<1>7. Carried(net, n, net', m, c.sent)
  BY <1>5, <1>6 DEF Carried, Taken
<1> QED
  BY <1>3, <1>4, <1>7

(* What m does means nothing to the leaders of others.                      *)
Bystands(m, x, b) ==
    \A i \in Mon \ {m} : Leading(View[i]) =>
        LET e == View[i].epoch IN
        /\ Joined(x, i, e) => Joined(View[m], i, e) /\ b = mem[m].accepted_pn
        /\ ~Absent(net[i][m], "collect", e) /\ MayHear(x, i, e) =>
               MayHear(View[m], i, e) /\ b = mem[m].accepted_pn

Mute(c) ==
    \A j \in Mon : \A k \in 1 .. Len(c.sent[j]) : c.sent[j][k].op \notin {"last", "accept"}

LEMMA PeerMoves ==
  ASSUME Inv, NEW m \in Mon, NEW x, NEW b, Bystands(m, x, b),
         NEW n, Taken(n), NEW c, IsCall(c), Mute(c)
  PROVE  PeerPart(View, mem, net, x, b, m, n, c.sent)
<1> SUFFICES ASSUME NEW i \in Mon \ {m}, Leading(View[i]), m \in View[i].quorum, NEW C,
                    PairOK(i, View[i].epoch, mem[i].accepted_pn, Awaited(mem[i]), C, m,
                           View[m], mem[m].accepted_pn, net[i][m], net[m][i])
             PROVE  PairOK(i, View[i].epoch, mem[i].accepted_pn, Awaited(mem[i]), C, m,
                           x, b, n[i][m], n[m][i] \o c.sent[i])
  BY DEF PeerPart
<1>1. PICK q, r, e, w, a :
        q = n[i][m] /\ r = n[m][i] /\ e = View[i].epoch /\ w = View[m] /\ a = mem[m].accepted_pn
  OBVIOUS
<1>2. Suffix(q, net[i][m]) /\ Suffix(r, net[m][i]) /\ IsSeq(r) /\ IsSeq(c.sent[i])
  BY <1>1 DEF Taken, IsCall
<1>3. PairOK(i, e, mem[i].accepted_pn, Awaited(mem[i]), C, m, w, a, q, r)
  BY <1>1, <1>2, PairSuffix
<1>4. Absent(net[i][m], "collect", e) => Absent(q, "collect", e)
  BY <1>2, AbsentDrop DEF Suffix
<1>5. /\ Joined(x, i, e) => Joined(w, i, e) /\ b = a
      /\ ~Absent(q, "collect", e) /\ MayHear(x, i, e) => MayHear(w, i, e) /\ b = a
  BY <1>1, <1>4 DEF Bystands
<1>6. PICK t, s : t = r \o c.sent[i] /\ s = c.sent[i]
  OBVIOUS
<1>7. ConcatOf(t, r, s)
  BY <1>2, <1>6, ConcatParts
<1>8. Absent(s, "last", e) /\ Absent(s, "accept", e)
  BY <1>6 DEF Mute, Absent, Is
<1>9. PairOK(i, e, mem[i].accepted_pn, Awaited(mem[i]), C, m, x, b, q, t)
  BY <1>3, <1>5, <1>7, <1>8, PairMoves
<1> QED
  BY <1>1, <1>6, <1>9

LEMMA BystandSame ==
  ASSUME NEW m \in Mon
  PROVE  Bystands(m, View[m], mem[m].accepted_pn)
BY DEF Bystands

(* A collect comes to a monitor that has got as far as the election.        *)
LEMMA CollectReaches ==
  ASSUME Inv, NEW i \in Mon, NEW m \in Mon, NEW e \in Nat, e % 2 = 0,
         ~Absent(net[i][m], "collect", e)
  PROVE  View[m].epoch >= e - 1
<1>1. PICK k \in 1 .. Len(net[i][m]) : Is(net[i][m][k], "collect", e)
  BY DEF Absent
<1>2. MessageOK(View, net[i][m], k, i, m)
  BY NetIs
<1>3. Announced(net[i][m], k, e) \/ Bound(View[m], i, e)
  BY <1>1, <1>2 DEF MessageOK, Is, LeaderOp
<1>4. View[m] \in Place /\ View[m].epoch \in Nat
  BY ViewIs, PlaceFields DEF Views
<1>5. CASE Bound(View[m], i, e)
  BY <1>4, <1>5 DEF Bound
<1>6. CASE Announced(net[i][m], k, e)
  <2>1. PICK h \in 1 .. k - 1 : net[i][m][h].op = "victory" /\ net[i][m][h].epoch = e
    BY <1>6 DEF Announced
  <2>2. h \in 1 .. Len(net[i][m])
    BY NetIs
  <2>3. MessageOK(View, net[i][m], h, i, m)
    BY <2>2, NetIs
  <2> QED
    BY <2>1, <2>3 DEF MessageOK
<1> QED
  BY <1>3, <1>5, <1>6

LEMMA BystandAway ==
  ASSUME Inv, NEW m \in Mon, NEW x \in Place, Evolves(At(m), x), x.role # "peon",
         NEW b, b = mem[m].accepted_pn \/ x.role = "probing"
  PROVE  Bystands(m, x, b)
<1> SUFFICES ASSUME NEW i \in Mon \ {m}, Leading(View[i]), NEW e, e = View[i].epoch,
                    ~Absent(net[i][m], "collect", e), x.epoch = e - 1,
                    x.role \in {"electing", "leader"}
             PROVE  MayHear(View[m], i, e)
  BY DEF Bystands, Joined, MayHear
<1>1. /\ View[m] = At(m) /\ View[m] \in Place /\ View[i] \in Place
      /\ PlaceOK(View, m) /\ PlaceOK(View, i)
  BY ViewIs DEF Inv, Views
<1>2. e \in Nat /\ e % 2 = 0
  BY <1>1, PlaceFields DEF Leading, PlaceOK, InQuorum
<1>3. View[m].epoch >= e - 1 /\ View[m].epoch \in Nat /\ View[m].role \in Role
      /\ x.epoch \in Nat /\ View[m].flushing \in BOOLEAN
  BY <1>1, <1>2, CollectReaches, PlaceFields
<1>4. View[m].role = "peon" => View[m].epoch % 2 = 0
  BY <1>1 DEF PlaceOK, InQuorum
<1>5. View[m].role = "electing" => View[m].epoch % 2 = 1
  BY <1>1 DEF PlaceOK
<1>6. View[m].epoch = e - 1 /\ View[m].role \in {"electing", "leader"}
  BY <1>1, <1>2, <1>3, <1>4, <1>5 DEF Evolves, InQuorum, Role
<1> QED
  BY <1>6 DEF MayHear

(* Nothing is sent that a begin under way depends on.                       *)
Tame(c) ==
    \A j \in Mon : \A k \in 1 .. Len(c.sent[j]) :
        /\ c.sent[j][k].op \notin {"collect", "victory"}
        /\ c.sent[j][k].op = "begin" => c.sent[j][k].epoch % 2 # 0

Pledged(m, n, c) ==
    \A j \in Mon \ {m} : PromiseOK(m, View[j], mem[j].accepted_pn, n[m][j] \o c.sent[j])

LEMMA TakenPromise ==
  ASSUME Inv, RoundInv, NEW n, Taken(n), NEW i \in Mon, NEW j \in Mon
  PROVE  PromiseOK(i, View[j], mem[j].accepted_pn, n[i][j])
<1>1. PromiseOK(i, View[j], mem[j].accepted_pn, net[i][j])
  BY DEF RoundInv, Rounds
<1>2. PICK d : DropIs(n[i][j], net[i][j], d)
  BY DEF Taken, Suffix
<1> QED
  BY <1>1, <1>2, PromiseDrop

LEMMA TamePledged ==
  ASSUME Inv, RoundInv, NEW m \in Mon, NEW n, Taken(n), NEW c, IsCall(c), Tame(c)
  PROVE  Pledged(m, n, c)
<1> SUFFICES ASSUME NEW j \in Mon \ {m}
             PROVE  PromiseOK(m, View[j], mem[j].accepted_pn, n[m][j] \o c.sent[j])
  BY DEF Pledged
<1>1. PICK q, s, t : q = n[m][j] /\ s = c.sent[j] /\ t = n[m][j] \o c.sent[j]
  OBVIOUS
<1>2. ConcatOf(t, q, s)
  BY <1>1, ConcatParts DEF Taken, IsCall
<1>3. PromiseOK(m, View[j], mem[j].accepted_pn, q)
  BY <1>1, TakenPromise
<1>4. /\ \A e : Absent(s, "collect", e) /\ Absent(s, "victory", e)
      /\ \A k \in 1 .. Len(s) : ~(s[k].op = "begin" /\ s[k].epoch % 2 = 0)
  BY <1>1 DEF Tame, Absent, Is
<1>5. PromiseOK(m, View[j], mem[j].accepted_pn, t)
  BY <1>2, <1>3, <1>4, PromiseSpeaks
<1> QED
  BY <1>1, <1>5

LEMMA PromiseKept ==
  ASSUME Inv, RoundInv, NEW m \in Mon, OthersStay(m, View, View', mem, mem', store, store'),
         NEW n, Taken(n), NEW c, Pledged(m, n, c),
         NEW x, NEW b, View'[m] = x, mem'[m].accepted_pn = b,
         \A i, e : Joined(x, i, e) => Joined(View[m], i, e) /\ b = mem[m].accepted_pn
  PROVE  PromisePart(View', mem', m, n, c.sent)
<1> SUFFICES ASSUME NEW j \in Mon \ {m}
             PROVE  /\ PromiseOK(m, View'[j], mem'[j].accepted_pn, n[m][j] \o c.sent[j])
                    /\ PromiseOK(j, View'[m], mem'[m].accepted_pn, n[j][m])
  BY DEF PromisePart
<1>1. View'[j] = View[j] /\ mem'[j] = mem[j]
  BY DEF OthersStay
<1>2. PromiseOK(m, View'[j], mem'[j].accepted_pn, n[m][j] \o c.sent[j])
  BY <1>1 DEF Pledged
<1>3. PICK w, a, q : w = View[m] /\ a = mem[m].accepted_pn /\ q = n[j][m]
  OBVIOUS
<1>4. PromiseOK(j, w, a, q) /\ \A e : Joined(x, j, e) => Joined(w, j, e) /\ b = a
  BY <1>3, TakenPromise
<1>5. PromiseOK(j, x, b, q)
  BY <1>4, PromiseMoves
<1> QED
  BY <1>2, <1>3, <1>5

LEMMA StoreNumbers ==
  ASSUME RoundInv, NEW p \in Mon
  PROVE  store[p].last_pn \in Nat /\ IsStore(store[p])
BY DEF RoundInv, Rounds, LocalOK

LEMMA RecordsKept ==
  ASSUME Inv, RoundInv, NEW m \in Mon, OthersStay(m, View, View', mem, mem', store, store'),
         NEW n, Taken(n), NEW c, IsCall(c),
         NEW x \in Place, View'[m] = x, x.epoch >= View[m].epoch,
         store[m].last_pn <= store'[m].last_pn,
         \A j \in Mon : SentOK(store', x, c.sent[j]),
         LocalOK(x, m, mem'[m], store'[m]), NumbersOK(store', mem'[m], store'[m])
  PROVE  RecordPart(store, View', mem', store', m, n, c.sent)
<1>1. Grown(store, store')
  <2> SUFFICES ASSUME NEW p \in Mon
               PROVE  /\ store[p].last_pn \in Nat /\ store'[p].last_pn \in Nat
                      /\ store[p].last_pn <= store'[p].last_pn
    BY DEF Grown
  <2>1. store[p].last_pn \in Nat
    BY StoreNumbers
  <2>2. store'[m].last_pn \in Nat
    BY DEF LocalOK
  <2>3. p # m => store'[p] = store[p]
    BY DEF OthersStay
  <2> QED
    BY <2>1, <2>2, <2>3
<1>2. ASSUME NEW j \in Mon PROVE SentOK(store', x, n[m][j] \o c.sent[j])
  <2>1. PICK q, s, t : q = n[m][j] /\ s = c.sent[j] /\ t = n[m][j] \o c.sent[j]
    OBVIOUS
  <2>2. ConcatOf(t, q, s) /\ Suffix(q, net[m][j])
    BY <2>1, ConcatParts DEF Taken, IsCall
  <2>3. SentOK(store, View[m], q)
    BY <2>2, SentDrop DEF RoundInv, Rounds
  <2>4. SentOK(store', View[m], q)
    BY <1>1, <2>3, SentGrown
  <2>5. x.epoch \in Int /\ View[m].epoch \in Int
    BY ViewIs, PlaceFields
  <2>6. ASSUME NEW k \in 1 .. Len(q) PROVE q[k].epoch \in Int
    <3>1. PICK d : DropIs(q, net[m][j], d)
      BY <2>2 DEF Suffix
    <3>2. k + d \in 1 .. Len(net[m][j]) /\ q[k] = net[m][j][k + d]
      BY <3>1 DEF DropIs, IsSeq
    <3>3. MessageOK(View, net[m][j], k + d, m, j)
      BY <3>2, NetIs
    <3> QED
      BY <3>2, <3>3 DEF MessageOK
  <2>7. SentOK(store', x, s)
    BY <2>1
  <2>8. SentOK(store', x, t)
    BY <2>2, <2>4, <2>5, <2>6, <2>7, SentConcat
  <2> QED
    BY <2>1, <2>8
<1> QED
  BY <1>1, <1>2 DEF RecordPart

----------------------------------------------------------------------------
(* A leader in its round.                                                   *)

Others(m) == View[m].quorum \ {m}

PairsOK(m, A, C, n) ==
    \A j \in Others(m) :
        PairOK(m, View[m].epoch, mem[m].accepted_pn, A, C, j,
               View[j], mem[j].accepted_pn, n[m][j], n[j][m])

LEMMA OthersAre ==
  ASSUME Inv, NEW m \in Mon
  PROVE  Others(m) \in SUBSET Mon /\ m \notin Others(m)
BY ViewIs, PlaceFields DEF Others

LEMMA RoundIs ==
  ASSUME Inv, RoundInv, NEW m \in Mon, Leading(View[m])
  PROVE  \E C \in SUBSET Others(m) :
            CountOK(mem[m], C, Others(m)) /\ PairsOK(m, Awaited(mem[m]), C, net)
BY DEF RoundInv, Rounds, RoundOK, PairsOK, Others

LEMMA PairsTaken ==
  ASSUME Inv, NEW m \in Mon, NEW A, NEW C, PairsOK(m, A, C, net), NEW n, Taken(n)
  PROVE  PairsOK(m, A, C, n)
<1> SUFFICES ASSUME NEW j \in Others(m)
             PROVE  PairOK(m, View[m].epoch, mem[m].accepted_pn, A, C, j,
                           View[j], mem[j].accepted_pn, n[m][j], n[j][m])
  BY DEF PairsOK
<1>1. j \in Mon
  BY OthersAre
<1>2. Suffix(n[m][j], net[m][j]) /\ Suffix(n[j][m], net[j][m])
  BY <1>1 DEF Taken
<1>3. PairOK(m, View[m].epoch, mem[m].accepted_pn, A, C, j,
             View[j], mem[j].accepted_pn, net[m][j], net[j][m])
  BY DEF PairsOK
<1> QED
  BY <1>2, <1>3, PairSuffix

(* What a leader says in a round: a begin comes last.                       *)
Speech(c, e, acc) ==
    \A j \in Mon : \A k \in 1 .. Len(c.sent[j]) :
        /\ c.sent[j][k].op \in {"commit", "lease", "begin"} /\ c.sent[j][k].epoch = e
        /\ c.sent[j][k].op = "begin" => c.sent[j][k].pn = acc /\ k = Len(c.sent[j])

(* It begins an update only when everyone has answered it and no accept of  *)
(* another update is awaited.                                               *)
LEMMA LeaderSpeaks ==
  ASSUME Inv, RoundInv, NEW m \in Mon, Leading(View[m]), View'[m] = View[m],
         OthersStay(m, View, View', mem, mem', store, store'),
         NEW s, mem'[m] = s, s.accepted_pn = mem[m].accepted_pn,
         NEW n, Taken(n), NEW c, IsCall(c), Speech(c, View[m].epoch, mem[m].accepted_pn),
         NEW C \in SUBSET Others(m), CountOK(s, C, Others(m)), NEW A, PairsOK(m, A, C, n),
         \A j \in Others(m) : j \in A => j \in Awaited(s),
         \A j \in Mon : \A k \in 1 .. Len(c.sent[j]) :
             c.sent[j][k].op = "begin" => j \in C /\ j \notin A /\ j \in Awaited(s)
  PROVE  LeaderPart(View', mem', m, n, c.sent) /\ Pledged(m, n, c)
<1>0. Others(m) \in SUBSET Mon /\ m \notin Others(m)
  BY OthersAre
<1>1. ASSUME NEW j \in Others(m)
      PROVE  PairOK(m, View[m].epoch, mem[m].accepted_pn, Awaited(s), C, j,
                    View[j], mem[j].accepted_pn, n[m][j] \o c.sent[j], n[j][m])
  <2>0. j \in Mon
    BY <1>0
  <2>1. PICK e, acc, q, o, t, w, a : e = View[m].epoch /\ acc = mem[m].accepted_pn
          /\ q = n[m][j] /\ o = c.sent[j] /\ t = n[m][j] \o c.sent[j]
          /\ w = View[j] /\ a = mem[j].accepted_pn
    OBVIOUS
  <2>2. ConcatOf(t, q, o)
    BY <2>0, <2>1, ConcatParts DEF Taken, IsCall
  <2>3. PairOK(m, e, acc, A, C, j, w, a, q, n[j][m])
    BY <2>1 DEF PairsOK
  <2>4. Absent(o, "collect", e) /\ Absent(o, "victory", e)
    BY <2>0, <2>1 DEF Speech, Absent, Is
  <2>5. ASSUME NEW k \in 1 .. Len(o), Is(o[k], "begin", e)
        PROVE  j \notin A /\ j \in Awaited(s) /\ NoOther(o, k, "begin", e)
    <3>1. j \notin A /\ j \in Awaited(s)
      BY <2>0, <2>1, <2>5 DEF Is
    <3>2. \A h \in 1 .. Len(o) : Is(o[h], "begin", e) => h = Len(o)
      BY <2>0, <2>1 DEF Speech, Is
    <3>3. NoOther(o, k, "begin", e)
      BY <2>5, <3>2 DEF NoOther
    <3> QED
      BY <3>1, <3>3
  <2>6. PairOK(m, e, acc, Awaited(s), C, j, w, a, t, n[j][m])
    BY <2>2, <2>3, <2>4, <2>5, PairSpeaks
  <2> QED
    BY <2>1, <2>6
<1>2. LeaderPart(View', mem', m, n, c.sent)
  <2>1. ASSUME NEW j \in Others(m)
        PROVE  PairOK(m, View'[m].epoch, mem'[m].accepted_pn, Awaited(mem'[m]), C, j,
                      View'[j], mem'[j].accepted_pn, n[m][j] \o c.sent[j], n[j][m])
    <3>1. View'[j] = View[j] /\ mem'[j] = mem[j]
      BY <1>0 DEF OthersStay
    <3> QED
      BY <1>1, <3>1
  <2>2. CountOK(mem'[m], C, Others(m)) /\ Others(m) = View'[m].quorum \ {m}
    BY DEF Others
  <2> QED
    BY <2>1, <2>2 DEF LeaderPart
<1>3. ASSUME NEW j \in Mon \ {m}
      PROVE  PromiseOK(m, View[j], mem[j].accepted_pn, n[m][j] \o c.sent[j])
  <2>1. PICK e, acc, q, o, t, w, a : e = View[m].epoch /\ acc = mem[m].accepted_pn
          /\ q = n[m][j] /\ o = c.sent[j] /\ t = n[m][j] \o c.sent[j]
          /\ w = View[j] /\ a = mem[j].accepted_pn
    OBVIOUS
  <2>2. ConcatOf(t, q, o)
    BY <2>1, ConcatParts DEF Taken, IsCall
  <2>3. PromiseOK(m, w, a, q)
    BY <2>1, TakenPromise
  <2>4. \A f : Absent(o, "collect", f) /\ Absent(o, "victory", f)
    BY <2>1 DEF Speech, Absent, Is
  <2>5. ASSUME NEW k \in 1 .. Len(o), o[k].op = "begin"
        PROVE  Answered(m, o[k].epoch, o[k].pn, w, a, t)
    <3>1. j \in C
      BY <2>1, <2>5
    <3>2. PairOK(m, e, acc, Awaited(s), C, j, w, a, t, n[j][m])
      BY <1>1, <2>1, <3>1
    <3>3. Answered(m, e, acc, w, a, t)
      BY <3>1, <3>2 DEF PairOK, CountedOK
    <3>4. o[k].epoch = e /\ o[k].pn = acc
      BY <2>1, <2>5 DEF Speech
    <3> QED
      BY <3>3, <3>4
  <2>6. PromiseOK(m, w, a, t)
    BY <2>2, <2>3, <2>4, <2>5, PromiseSpeaks
  <2> QED
    BY <2>1, <2>6
<1> QED
  BY <1>2, <1>3 DEF Pledged

(* Nobody is awaited unless an update is going on.                          *)
LEMMA NoneAwaited ==
  ASSUME NEW s, ~Updating(s)
  PROVE  Awaited(s) = {}
BY DEF Awaited

(* The same round goes on.                                                  *)
SameRound(s, z) ==
    /\ z.accepted_pn = s.accepted_pn /\ z.num_last = s.num_last
    /\ z.state = s.state /\ z.accepted = s.accepted

Plain(c) == \A j \in Mon : \A k \in 1 .. Len(c.sent[j]) : c.sent[j][k].op \in {"commit", "lease"}

LEMMA RoundGoesOn ==
  ASSUME Inv, RoundInv, NEW m \in Mon, Leading(View[m]), View'[m] = View[m],
         OthersStay(m, View, View', mem, mem', store, store'),
         NEW s, mem'[m] = s, SameRound(mem[m], s),
         NEW n, Taken(n), NEW c, IsCall(c), Plain(c), Speaks(m, c), c.epoch = View[m].epoch
  PROVE  LeaderPart(View', mem', m, n, c.sent) /\ Pledged(m, n, c)
<1>1. PICK C \in SUBSET Others(m) :
        CountOK(mem[m], C, Others(m)) /\ PairsOK(m, Awaited(mem[m]), C, net)
  BY RoundIs
<1>2. PairsOK(m, Awaited(mem[m]), C, n)
  BY <1>1, PairsTaken
<1>3. CountOK(s, C, Others(m)) /\ Awaited(s) = Awaited(mem[m])
  BY <1>1 DEF CountOK, SameRound, Awaited, Updating
<1>4. Speech(c, View[m].epoch, mem[m].accepted_pn)
  BY DEF Speech, Plain, Speaks
<1>5. \A j \in Mon : \A k \in 1 .. Len(c.sent[j]) : c.sent[j][k].op # "begin"
  BY DEF Plain
<1>6. s.accepted_pn = mem[m].accepted_pn
  BY DEF SameRound
<1>7. PICK A : A = Awaited(mem[m])
  OBVIOUS
<1>8. PairsOK(m, A, C, n) /\ \A j \in Others(m) : j \in A => j \in Awaited(s)
  BY <1>2, <1>3, <1>7
<1> QED
  BY <1>3, <1>4, <1>5, <1>6, <1>8, LeaderSpeaks

----------------------------------------------------------------------------
(* The calls of a leader, in a round.                                       *)

PlainCall(m, c) == LeaderCall(m, c) /\ Plain(c) /\ IsStore(c.st)

Holds(c, d) ==
    /\ d.s.accepted_pn = c.s.accepted_pn /\ d.s.num_last = c.s.num_last
    /\ d.s.last_committed = c.s.last_committed
    /\ IsStore(d.st) /\ d.st.last_pn = c.st.last_pn /\ d.st.accepted_pn = c.st.accepted_pn
    /\ d.st.last_committed = c.st.last_committed

LEMMA AppendOf ==
  ASSUME NEW q, IsSeq(q), NEW x, NEW t, t = Append(q, x)
  PROVE  /\ Len(q) \in Nat /\ Len(t) = Len(q) + 1
         /\ \A k \in 1 .. Len(t) : (k \in 1 .. Len(q) /\ t[k] = q[k]) \/ (k = Len(t) /\ t[k] = x)
<1>0. Len(q) \in Nat
  BY DEF IsSeq
<1>1. /\ Len(t) = Len(q) + 1 /\ t[Len(q) + 1] = x
      /\ \A k \in 1 .. Len(q) : t[k] = q[k]
  BY AppendIs
<1> QED
  BY <1>0, <1>1

LEMMA SaysPlain ==
  ASSUME NEW c, IsCall(c), Plain(c), NEW dest, NEW msg, msg.op \in {"commit", "lease"}
  PROVE  Plain(SendTo(c, dest, msg))
<1>1. PICK d : d = SendTo(c, dest, msg)
  OBVIOUS
<1>2. \A j \in Mon : d.sent[j] = IF j \in dest THEN Append(c.sent[j], msg) ELSE c.sent[j]
  BY <1>1, SentTo
<1>3. ASSUME NEW j \in Mon, NEW k \in 1 .. Len(d.sent[j])
      PROVE  d.sent[j][k].op \in {"commit", "lease"}
  <2>1. PICK q, t : q = c.sent[j] /\ t = d.sent[j]
    OBVIOUS
  <2>2. IsSeq(q) /\ \A h \in 1 .. Len(q) : q[h].op \in {"commit", "lease"}
    BY <2>1 DEF IsCall, Plain
  <2>3. CASE j \in dest
    <3>1. t = Append(q, msg)
      BY <1>2, <2>1, <2>3
    <3>2. (k \in 1 .. Len(q) /\ t[k] = q[k]) \/ (k = Len(t) /\ t[k] = msg)
      BY <2>1, <2>2, <3>1, AppendOf
    <3> QED
      BY <2>1, <2>2, <3>2
  <2>4. CASE j \notin dest
    BY <1>2, <2>1, <2>2, <2>4
  <2> QED
    BY <2>3, <2>4
<1> QED
  BY <1>1, <1>3 DEF Plain

LEMMA SaysBegin ==
  ASSUME NEW m, NEW c, LeaderCall(m, c), Plain(c), NEW dest, NEW msg,
         msg.op = "begin", msg.epoch = c.epoch, NEW acc, msg.pn = acc
  PROVE  Speech(SendTo(c, dest, msg), c.epoch, acc)
<1>1. PICK d : d = SendTo(c, dest, msg)
  OBVIOUS
<1>2. \A j \in Mon : d.sent[j] = IF j \in dest THEN Append(c.sent[j], msg) ELSE c.sent[j]
  BY <1>1, SentTo DEF LeaderCall
<1>3. ASSUME NEW j \in Mon, NEW k \in 1 .. Len(d.sent[j])
      PROVE  /\ d.sent[j][k].op \in {"commit", "lease", "begin"} /\ d.sent[j][k].epoch = c.epoch
             /\ d.sent[j][k].op = "begin" => d.sent[j][k].pn = acc /\ k = Len(d.sent[j])
  <2>1. PICK q, t : q = c.sent[j] /\ t = d.sent[j]
    OBVIOUS
  <2>2. IsSeq(q) /\ \A h \in 1 .. Len(q) : q[h].op \in {"commit", "lease"} /\ q[h].epoch = c.epoch
    BY <2>1 DEF LeaderCall, IsCall, Plain, Speaks
  <2>3. CASE j \in dest
    <3>1. t = Append(q, msg)
      BY <1>2, <2>1, <2>3
    <3>2. (k \in 1 .. Len(q) /\ t[k] = q[k]) \/ (k = Len(t) /\ t[k] = msg)
      BY <2>1, <2>2, <3>1, AppendOf
    <3> QED
      BY <2>1, <2>2, <3>2
  <2>4. CASE j \notin dest
    BY <1>2, <2>1, <2>2, <2>4
  <2> QED
    BY <2>3, <2>4
<1> QED
  BY <1>1, <1>3 DEF Speech

(* An update has begun...                                                   *)
Began(m, c, d) ==
    /\ Continues(m, c, d) /\ Speech(d, c.epoch, c.s.accepted_pn) /\ Holds(c, d)
    /\ Updating(d.s) /\ d.s.accepted = {m}
    /\ {"lease_ack", "lease_renew"} \cap d.s.timers = {}

(* ...or there is none.                                                     *)
Idles(m, c, d) ==
    /\ Continues(m, c, d) /\ Plain(d) /\ Holds(c, d)
    /\ d.s.state = "active" /\ d.s.new_value = c.s.new_value /\ "accept" \notin d.s.timers

LEMMA BeginRound ==
  ASSUME NEW m, NEW c, PlainCall(m, c), Updating(c.s), NEW x,
         {"lease_ack", "lease_renew"} \cap c.s.timers = {}
  PROVE  Began(m, c, begin(m, c, x))
<1> DEFINE v == c.s.last_committed + 1
           value == IF c.s.last_committed = 0 THEN Tx(x.pn, 1) ELSE x
           b == [c EXCEPT !.s.accepted = {m}, !.s.new_value = value,
                          !.s.timers = @ \union {"accept"},
                          !.st.log[v] = value,
                          !.st.pending_v = v, !.st.pending_pn = c.s.accepted_pn]
           msg == [op |-> "begin", epoch |-> c.epoch, pn |-> c.s.accepted_pn,
                   last_committed |-> c.s.last_committed, value |-> value]
           d == begin(m, c, x)
<1>1. d = SendTo(b, Peers(m, c), msg)
  BY DEF begin
<1>2. /\ DOMAIN b = {"s", "st", "epoch", "quorum", "sent"}
      /\ b.epoch = c.epoch /\ b.quorum = c.quorum /\ b.sent = c.sent
      /\ b.s = [c.s EXCEPT !.accepted = {m}, !.new_value = value,
                           !.timers = @ \union {"accept"}]
      /\ b.st = [c.st EXCEPT !.log[v] = value, !.pending_v = v, !.pending_pn = c.s.accepted_pn]
  BY DEF PlainCall, LeaderCall, IsCall
<1>3. msg.op = "begin" /\ msg.epoch = c.epoch /\ msg.pn = c.s.accepted_pn
  OBVIOUS
<1>4. Continues(m, c, d) /\ d.s.state = c.s.state /\ d.s.timers = c.s.timers \union {"accept"}
  BY Begin DEF PlainCall
<1> HIDE DEF b, msg, v, value, d
<1>5. /\ IsMem(b.s) /\ b.s.accepted = {m} /\ b.s.accepted_pn = c.s.accepted_pn
      /\ b.s.num_last = c.s.num_last /\ b.s.last_committed = c.s.last_committed
      /\ b.s.peer_last_committed = c.s.peer_last_committed
      /\ b.s.timers = c.s.timers \union {"accept"}
  BY <1>2 DEF PlainCall, LeaderCall, IsCall, IsMem
<1>6. /\ IsStore(b.st) /\ b.st.last_pn = c.st.last_pn /\ b.st.accepted_pn = c.st.accepted_pn
      /\ b.st.last_committed = c.st.last_committed
  BY <1>2 DEF PlainCall, IsStore
<1>7. Continues(m, c, b)
  BY <1>2, <1>5, SameSent DEF PlainCall, LeaderCall, LeaderMem
<1>8. LeaderCall(m, b) /\ IsCall(b) /\ Plain(b)
  BY <1>2, <1>7 DEF Continues, LeaderCall, PlainCall, Plain
<1>9. d.s = b.s /\ d.st = b.st
  BY <1>1, <1>8, SentTo
<1>10. Speech(d, c.epoch, c.s.accepted_pn)
  BY <1>1, <1>2, <1>3, <1>8, SaysBegin
<1>11. Holds(c, d)
  BY <1>5, <1>6, <1>9 DEF Holds
<1>12. Updating(d.s) /\ d.s.accepted = {m} /\ {"lease_ack", "lease_renew"} \cap d.s.timers = {}
  BY <1>4, <1>5, <1>9 DEF Updating
<1> QED
  BY <1>4, <1>10, <1>11, <1>12 DEF Began, d

(* Changes of the memory that the round does not depend on.                 *)
LEMMA PlainSame ==
  ASSUME NEW m, NEW c, PlainCall(m, c), NEW d, Continues(m, c, d), d.sent = c.sent, d.st = c.st
  PROVE  PlainCall(m, d)
BY DEF PlainCall, Continues, Plain

LEMMA ProposeRound ==
  ASSUME NEW m, NEW c, PlainCall(m, c), NEW first
  PROVE  Began(m, c, propose_pending(m, c, first))
<1> DEFINE b == [c EXCEPT !.s.state = "updating", !.s.pending = FALSE, !.s.timers = {}]
           x == Tx(c.s.accepted_pn, first)
<1>1. propose_pending(m, c, first) = begin(m, b, x)
  BY DEF propose_pending
<1>2. /\ DOMAIN b = {"s", "st", "epoch", "quorum", "sent"}
      /\ b.epoch = c.epoch /\ b.quorum = c.quorum /\ b.sent = c.sent /\ b.st = c.st
      /\ b.s = [c.s EXCEPT !.state = "updating", !.pending = FALSE, !.timers = {}]
  BY DEF PlainCall, LeaderCall, IsCall
<1> HIDE DEF b, x
<1>3. /\ IsMem(b.s) /\ b.s.state = "updating" /\ b.s.timers = {}
      /\ b.s.peer_last_committed = c.s.peer_last_committed
      /\ b.s.accepted_pn = c.s.accepted_pn /\ b.s.num_last = c.s.num_last
      /\ b.s.last_committed = c.s.last_committed
  BY <1>2 DEF PlainCall, LeaderCall, IsCall, IsMem, State
<1>4. Continues(m, c, b)
  BY <1>2, <1>3, SameSent DEF PlainCall, LeaderCall, LeaderMem
<1>5. PlainCall(m, b)
  BY <1>2, <1>4, PlainSame
<1>6. Updating(b.s) /\ {"lease_ack", "lease_renew"} \cap b.s.timers = {}
  BY <1>3 DEF Updating
<1>7. Began(m, b, begin(m, b, x))
  BY <1>5, <1>6, BeginRound
<1>8. PICK d : d = begin(m, b, x)
  OBVIOUS
<1>9. Began(m, c, d)
  BY <1>2, <1>3, <1>4, <1>7, <1>8 DEF Began, Continues, Holds
<1> QED
  BY <1>1, <1>8, <1>9

LEMMA LeaseRound ==
  ASSUME NEW m, NEW c, PlainCall(m, c)
  PROVE  LET d == extend_lease(m, c) IN
         /\ PlainCall(m, d) /\ Continues(m, c, d) /\ Holds(c, d)
         /\ d.s.state = c.s.state /\ d.s.new_value = c.s.new_value /\ d.s.accepted = c.s.accepted
         /\ d.s.timers = c.s.timers \union {"lease_ack", "lease_renew"}
<1> DEFINE b == [c EXCEPT !.s.lease = TRUE, !.s.acked_lease = {m},
                          !.s.timers = @ \union {"lease_ack", "lease_renew"}]
           msg == [op |-> "lease", epoch |-> c.epoch, last_committed |-> c.s.last_committed]
           d == extend_lease(m, c)
<1>1. d = SendTo(b, Peers(m, c), msg)
  BY DEF extend_lease
<1>2. /\ DOMAIN b = {"s", "st", "epoch", "quorum", "sent"}
      /\ b.epoch = c.epoch /\ b.quorum = c.quorum /\ b.sent = c.sent /\ b.st = c.st
      /\ b.s = [c.s EXCEPT !.lease = TRUE, !.acked_lease = {m},
                           !.timers = @ \union {"lease_ack", "lease_renew"}]
  BY DEF PlainCall, LeaderCall, IsCall
<1>3. msg.op \in {"commit", "lease"}
  OBVIOUS
<1>4. /\ Continues(m, c, d) /\ d.s.state = c.s.state
      /\ d.s.timers = c.s.timers \union {"lease_ack", "lease_renew"}
  BY ExtendLease DEF PlainCall
<1> HIDE DEF b, msg, d
<1>5. /\ IsMem(b.s) /\ b.s.accepted = c.s.accepted /\ b.s.accepted_pn = c.s.accepted_pn
      /\ b.s.num_last = c.s.num_last /\ b.s.last_committed = c.s.last_committed
      /\ b.s.peer_last_committed = c.s.peer_last_committed /\ b.s.new_value = c.s.new_value
      /\ b.s.timers = c.s.timers \union {"lease_ack", "lease_renew"}
  BY <1>2 DEF PlainCall, LeaderCall, IsCall, IsMem
<1>6. IsCall(b) /\ Plain(b)
  BY <1>2, <1>5 DEF PlainCall, LeaderCall, IsCall, Plain
<1>7. d.s = b.s /\ d.st = b.st
  BY <1>1, <1>6, SentTo
<1>8. Plain(d)
  BY <1>1, <1>3, <1>6, SaysPlain
<1>9. PlainCall(m, d)
  BY <1>2, <1>4, <1>7, <1>8 DEF PlainCall, Continues
<1>10. Holds(c, d) /\ d.s.new_value = c.s.new_value /\ d.s.accepted = c.s.accepted
  BY <1>2, <1>5, <1>7 DEF Holds, PlainCall
<1> QED
  BY <1>4, <1>9, <1>10 DEF d

LEMMA FinishesRound ==
  ASSUME NEW m, NEW c, PlainCall(m, c), "accept" \notin c.s.timers
  PROVE  LET d == finish_round(m, c) IN Began(m, c, d) \/ Idles(m, c, d)
<1> DEFINE a == [c EXCEPT !.s.state = "active"]
           first == trim(c.s)
<1>1. finish_round(m, c) = propose_pending(m, a, first) \/ finish_round(m, c) = a
  BY DEF finish_round
<1>2. /\ DOMAIN a = {"s", "st", "epoch", "quorum", "sent"}
      /\ a.epoch = c.epoch /\ a.quorum = c.quorum /\ a.sent = c.sent /\ a.st = c.st
      /\ a.s = [c.s EXCEPT !.state = "active"]
  BY DEF PlainCall, LeaderCall, IsCall
<1> HIDE DEF a, first
<1>3. /\ IsMem(a.s) /\ a.s.state = "active" /\ a.s.timers = c.s.timers
      /\ a.s.peer_last_committed = c.s.peer_last_committed /\ a.s.new_value = c.s.new_value
      /\ a.s.accepted_pn = c.s.accepted_pn /\ a.s.num_last = c.s.num_last
      /\ a.s.last_committed = c.s.last_committed
  BY <1>2 DEF PlainCall, LeaderCall, IsCall, IsMem, State
<1>4. Continues(m, c, a)
  BY <1>2, <1>3, SameSent DEF PlainCall, LeaderCall, LeaderMem
<1>5. PlainCall(m, a)
  BY <1>2, <1>4, PlainSame
<1>6. Holds(c, a)
  BY <1>2, <1>3 DEF Holds, PlainCall
<1>7. Idles(m, c, a)
  BY <1>3, <1>4, <1>5, <1>6 DEF Idles, PlainCall
<1>8. Began(m, a, propose_pending(m, a, first))
  BY <1>5, ProposeRound
<1>9. PICK d : d = propose_pending(m, a, first)
  OBVIOUS
<1>10. Began(m, c, d)
  BY <1>2, <1>3, <1>4, <1>6, <1>8, <1>9 DEF Began, Continues, Holds
<1> QED
  BY <1>1, <1>7, <1>9, <1>10

(* A round has ended: the next update has begun, or the leader is active.   *)
RoundEnds(m, c, d) ==
    /\ Continues(m, c, d) /\ Speech(d, c.epoch, c.s.accepted_pn)
    /\ d.s.accepted_pn = c.s.accepted_pn /\ d.s.num_last = c.s.num_last
    /\ d.s.last_committed = c.st.last_committed
    /\ IsStore(d.st) /\ d.st.last_pn = c.st.last_pn /\ d.st.accepted_pn = c.st.accepted_pn
    /\ d.st.last_committed = c.st.last_committed
    /\ \/ /\ Updating(d.s) /\ d.s.accepted = {m}
          /\ {"lease_ack", "lease_renew"} \cap d.s.timers = {}
       \/ /\ Plain(d) /\ d.s.state = "active" /\ d.s.new_value = NoValue
          /\ "accept" \notin d.s.timers

LEMMA PlainSpeech ==
  ASSUME NEW m, NEW c, Speaks(m, c), Plain(c), NEW acc
  PROVE  Speech(c, c.epoch, acc)
BY DEF Speaks, Plain, Speech

LEMMA RoundEnded ==
  ASSUME NEW m, NEW c, NEW b, NEW d, Began(m, b, d) \/ Idles(m, b, d), Continues(m, c, b),
         b.s.accepted_pn = c.s.accepted_pn, b.s.num_last = c.s.num_last,
         b.s.last_committed = c.st.last_committed, b.s.new_value = NoValue,
         b.st.last_pn = c.st.last_pn, b.st.accepted_pn = c.st.accepted_pn,
         b.st.last_committed = c.st.last_committed
  PROVE  RoundEnds(m, c, d)
<1>1. Continues(m, c, d) /\ d.epoch = c.epoch /\ b.epoch = c.epoch
  BY DEF Began, Idles, Continues
<1>2. /\ d.s.accepted_pn = c.s.accepted_pn /\ d.s.num_last = c.s.num_last
      /\ d.s.last_committed = c.st.last_committed
      /\ IsStore(d.st) /\ d.st.last_pn = c.st.last_pn /\ d.st.accepted_pn = c.st.accepted_pn
      /\ d.st.last_committed = c.st.last_committed
  BY DEF Began, Idles, Holds
<1>3. ASSUME Idles(m, b, d) PROVE Speech(d, c.epoch, c.s.accepted_pn)
  <2>1. Speaks(m, d) /\ Plain(d)
    BY <1>3 DEF Idles, Continues, LeaderCall
  <2> QED
    BY <1>1, <2>1, PlainSpeech
<1>4. Speech(d, c.epoch, c.s.accepted_pn)
  BY <1>1, <1>3 DEF Began
<1> QED
  BY <1>1, <1>2, <1>4 DEF RoundEnds, Began, Idles

LEMMA CommitRound ==
  ASSUME NEW m, NEW c, PlainCall(m, c), "accept" \notin c.s.timers,
         c.st.last_committed = c.s.last_committed + 1
  PROVE  RoundEnds(m, c, commit_finish(m, c))
<1> DEFINE v == c.s.last_committed + 1
           s == [c.s EXCEPT !.lease = FALSE, !.last_committed = v,
                            !.first_committed = c.st.first_committed,
                            !.new_value = NoValue]
           b == [c EXCEPT !.s = s]
           msg == [op |-> "commit", epoch |-> c.epoch, last_committed |-> v,
                   values |-> [w \in {v} |-> c.s.new_value]]
           told == SendTo(b, Peers(m, c), msg)
           l == extend_lease(m, told)
<1>1. commit_finish(m, c) = finish_round(m, l)
  BY DEF commit_finish
<1>2. /\ DOMAIN b = {"s", "st", "epoch", "quorum", "sent"}
      /\ b.epoch = c.epoch /\ b.quorum = c.quorum /\ b.sent = c.sent /\ b.s = s /\ b.st = c.st
  BY DEF PlainCall, LeaderCall, IsCall
<1>3. msg.op \in LeaderOp /\ msg.epoch = c.epoch /\ msg.op \in {"commit", "lease"}
  BY DEF LeaderOp
<1>4. /\ IsMem(s) /\ s.peer_last_committed = c.s.peer_last_committed /\ s.timers = c.s.timers
      /\ s.accepted_pn = c.s.accepted_pn /\ s.num_last = c.s.num_last
      /\ s.last_committed = c.st.last_committed /\ s.new_value = NoValue
  BY DEF PlainCall, LeaderCall, IsCall, IsMem
<1> HIDE DEF b, msg, s, v
<1>5. Continues(m, c, b)
  BY <1>2, <1>4, SameSent DEF PlainCall, LeaderCall, LeaderMem
<1>6. Peers(m, c) = Peers(m, b)
  BY <1>2 DEF Peers
<1>7. Continues(m, b, told) /\ told.s = b.s /\ told.st = b.st
  BY <1>2, <1>3, <1>5, <1>6, SentPeers DEF Continues
<1>8. PlainCall(m, b) /\ IsCall(b) /\ Plain(b)
  BY <1>2, <1>5, PlainSame DEF PlainCall, LeaderCall
<1>9. Plain(told)
  BY <1>3, <1>8, SaysPlain
<1> HIDE DEF told
<1>10. PlainCall(m, told) /\ Continues(m, c, told)
  BY <1>5, <1>7, <1>8, <1>9 DEF PlainCall, Continues
<1>11. /\ PlainCall(m, l) /\ Continues(m, told, l) /\ Holds(told, l)
       /\ l.s.new_value = told.s.new_value
       /\ l.s.timers = told.s.timers \union {"lease_ack", "lease_renew"}
  BY <1>10, LeaseRound
<1> HIDE DEF l
<1>12. PICK d : d = finish_round(m, l)
  OBVIOUS
<1>13. Began(m, l, d) \/ Idles(m, l, d)
  BY <1>2, <1>4, <1>7, <1>11, <1>12, FinishesRound
<1>14. /\ Continues(m, c, l) /\ l.s.accepted_pn = c.s.accepted_pn /\ l.s.num_last = c.s.num_last
       /\ l.s.last_committed = c.st.last_committed /\ l.s.new_value = NoValue
       /\ l.st.last_pn = c.st.last_pn /\ l.st.accepted_pn = c.st.accepted_pn
       /\ l.st.last_committed = c.st.last_committed
  BY <1>2, <1>4, <1>7, <1>10, <1>11 DEF Continues, Holds
<1>15. RoundEnds(m, c, d)
  BY <1>13, <1>14, RoundEnded
<1> QED
  BY <1>1, <1>12, <1>15

LEMMA CollectedRound ==
  ASSUME NEW m, NEW c, PlainCall(m, c), "accept" \notin c.s.timers,
         {"lease_ack", "lease_renew"} \cap c.s.timers = {}, c.s.new_value = NoValue,
         c.st.last_committed = c.s.last_committed
  PROVE  RoundEnds(m, c, collected(m, c))
<1> DEFINE d == [c EXCEPT !.s.timers = @ \ {"collect"},
                          !.s.peer_last_committed = [p \in Mon |-> None]]
           u == [d EXCEPT !.s.state = "updating_previous"]
           x == c.s.uncommitted_value
<1>1. \/ collected(m, c) = begin(m, u, x)
      \/ collected(m, c) = finish_round(m, extend_lease(m, d))
  BY DEF collected
<1>2. /\ DOMAIN d = {"s", "st", "epoch", "quorum", "sent"}
      /\ d.epoch = c.epoch /\ d.quorum = c.quorum /\ d.sent = c.sent /\ d.st = c.st
      /\ d.s = [c.s EXCEPT !.timers = @ \ {"collect"},
                           !.peer_last_committed = [p \in Mon |-> None]]
  BY DEF PlainCall, LeaderCall, IsCall
<1> HIDE DEF d, x
<1>3. /\ IsMem(d.s) /\ d.s.peer_last_committed = [p \in Mon |-> None]
      /\ d.s.timers = c.s.timers \ {"collect"} /\ d.s.new_value = NoValue
      /\ d.s.accepted_pn = c.s.accepted_pn /\ d.s.num_last = c.s.num_last
      /\ d.s.last_committed = c.st.last_committed
  BY <1>2 DEF PlainCall, LeaderCall, IsCall, IsMem
<1>4. Continues(m, c, d)
  BY <1>2, <1>3, SameSent DEF PlainCall, LeaderCall, LeaderMem
<1>5. PlainCall(m, d)
  BY <1>2, <1>4, PlainSame
<1>6. CASE collected(m, c) = begin(m, u, x)
  <2>1. /\ DOMAIN u = {"s", "st", "epoch", "quorum", "sent"}
        /\ u.epoch = d.epoch /\ u.quorum = d.quorum /\ u.sent = d.sent /\ u.st = d.st
        /\ u.s = [d.s EXCEPT !.state = "updating_previous"]
    BY <1>2
  <2> HIDE DEF u
  <2>2. /\ IsMem(u.s) /\ u.s.state = "updating_previous" /\ u.s.timers = d.s.timers
        /\ u.s.peer_last_committed = d.s.peer_last_committed /\ u.s.new_value = NoValue
        /\ u.s.accepted_pn = c.s.accepted_pn /\ u.s.num_last = c.s.num_last
        /\ u.s.last_committed = c.st.last_committed
    BY <1>3, <2>1 DEF IsMem, State
  <2>3. LeaderMem(m, u)
    BY <1>3, <2>2 DEF PlainCall, LeaderCall, LeaderMem
  <2>4. Continues(m, d, u)
    BY <1>4, <2>1, <2>2, <2>3, SameSent DEF Continues
  <2>5. PlainCall(m, u)
    BY <1>5, <2>1, <2>4, PlainSame
  <2>6. Updating(u.s) /\ {"lease_ack", "lease_renew"} \cap u.s.timers = {}
    BY <1>3, <2>2 DEF Updating
  <2>7. PICK b : b = begin(m, u, x)
    OBVIOUS
  <2>8. Began(m, u, b)
    BY <2>5, <2>6, <2>7, BeginRound
  <2>9. Continues(m, c, u) /\ u.st = c.st
    BY <1>2, <1>4, <2>1, <2>4 DEF Continues
  <2>10. RoundEnds(m, c, b)
    BY <2>2, <2>8, <2>9, RoundEnded
  <2> QED
    BY <1>6, <2>7, <2>10
<1>7. CASE collected(m, c) = finish_round(m, extend_lease(m, d))
  <2> DEFINE l == extend_lease(m, d)
  <2>1. /\ PlainCall(m, l) /\ Continues(m, d, l) /\ Holds(d, l)
        /\ l.s.new_value = d.s.new_value
        /\ l.s.timers = d.s.timers \union {"lease_ack", "lease_renew"}
    BY <1>5, LeaseRound
  <2>2. collected(m, c) = finish_round(m, l)
    BY <1>7
  <2> HIDE DEF l
  <2>3. PICK f : f = finish_round(m, l)
    OBVIOUS
  <2>4. Began(m, l, f) \/ Idles(m, l, f)
    BY <1>3, <2>1, <2>3, FinishesRound
  <2>5. /\ Continues(m, c, l) /\ l.s.accepted_pn = c.s.accepted_pn /\ l.s.num_last = c.s.num_last
        /\ l.s.last_committed = c.st.last_committed /\ l.s.new_value = NoValue
        /\ l.st.last_pn = c.st.last_pn /\ l.st.accepted_pn = c.st.accepted_pn
        /\ l.st.last_committed = c.st.last_committed
    BY <1>2, <1>3, <1>4, <2>1 DEF Continues, Holds
  <2>6. RoundEnds(m, c, f)
    BY <2>4, <2>5, RoundEnded
  <2> QED
    BY <2>2, <2>3, <2>6
<1> QED
  BY <1>1, <1>6, <1>7

(* d goes on with the round of c.                                           *)
Retains(c, d) ==
    /\ SameRound(c.s, d.s) /\ d.s.new_value = c.s.new_value /\ d.s.timers = c.s.timers
    /\ IsStore(d.st) /\ d.st.last_pn = c.st.last_pn /\ d.st.accepted_pn = c.st.accepted_pn
    /\ c.st.last_committed = c.s.last_committed => d.st.last_committed = d.s.last_committed

LEMMA ApplyIs ==
  ASSUME NEW st, IsStore(st), NEW x
  PROVE  LET t == apply(st, x) IN
         /\ IsStore(t) /\ t.last_pn = st.last_pn /\ t.accepted_pn = st.accepted_pn
         /\ t.last_committed = st.last_committed
BY DEF apply, IsStore

LEMMA StoreRound ==
  ASSUME NEW c, IsCall(c), IsStore(c.st), NEW lc, NEW values
  PROVE  Retains(c, store_state(c, lc, values))
<1> DEFINE future == DOMAIN values # {} /\ Min(DOMAIN values) > c.s.last_committed + 1
           new == {v \in DOMAIN values : v > c.s.last_committed /\ v <= lc}
           last == Max(new)
           log == [v \in Version |-> IF v \in new THEN values[v] ELSE c.st.log[v]]
           put == [c.st EXCEPT !.last_committed = last, !.log = log]
           x == Tx(0, Max({values[v].first : v \in new}))
           st == apply(put, x)
           stale == c.s.uncommitted_v <= st.last_committed
           d == [c EXCEPT !.st = st,
                       !.s.last_committed = st.last_committed,
                       !.s.first_committed = st.first_committed,
                       !.s.uncommitted_v = IF stale THEN 0 ELSE @,
                       !.s.uncommitted_pn = IF stale THEN 0 ELSE @,
                       !.s.uncommitted_value = IF stale THEN NoValue ELSE @]
<1>1. store_state(c, lc, values) = IF future \/ new = {} THEN c ELSE d
  BY DEF store_state
<1> HIDE DEF future, new, last, log, x
<1>2. IsStore(put) /\ put.last_pn = c.st.last_pn /\ put.accepted_pn = c.st.accepted_pn
  BY DEF IsStore
<1> HIDE DEF put
<1>3. IsStore(st) /\ st.last_pn = c.st.last_pn /\ st.accepted_pn = c.st.accepted_pn
  BY <1>2, ApplyIs
<1> HIDE DEF st, stale
<1>4. /\ d.st = st
      /\ d.s = [c.s EXCEPT !.last_committed = st.last_committed,
                           !.first_committed = st.first_committed,
                           !.uncommitted_v = IF stale THEN 0 ELSE @,
                           !.uncommitted_pn = IF stale THEN 0 ELSE @,
                           !.uncommitted_value = IF stale THEN NoValue ELSE @]
  BY DEF IsCall
<1> HIDE DEF d
<1>5. /\ d.s.state = c.s.state /\ d.s.timers = c.s.timers /\ d.s.accepted = c.s.accepted
      /\ d.s.accepted_pn = c.s.accepted_pn /\ d.s.num_last = c.s.num_last
      /\ d.s.new_value = c.s.new_value /\ d.s.last_committed = st.last_committed
  BY <1>4 DEF IsCall, IsMem
<1>6. Retains(c, d)
  BY <1>3, <1>4, <1>5 DEF Retains, SameRound
<1>7. Retains(c, c)
  BY DEF Retains, SameRound
<1> QED
  BY <1>1, <1>6, <1>7

LEMMA UpdateRound ==
  ASSUME NEW m, NEW c, PlainCall(m, c)
  PROVE  LET d == update_peers(c) IN
         /\ PlainCall(m, d) /\ Continues(m, c, d) /\ d.s = c.s /\ d.st = c.st
<1> DEFINE told == {p \in Mon : Behind(c.s, p) /\ \A q \in 0 .. p : ~TooLow(c.s, q)}
           Msg(p) == [op |-> "commit", epoch |-> c.epoch,
                      last_committed |-> c.s.last_committed,
                      values |-> share_state(c, c.s.peer_last_committed[p])]
           d == update_peers(c)
<1>1. /\ d.st = c.st
      /\ d.sent = [p \in Mon |-> IF p \in told THEN Append(c.sent[p], Msg(p)) ELSE c.sent[p]]
  BY DEF update_peers, PlainCall, LeaderCall, IsCall
<1>2. Continues(m, c, d) /\ d.s = c.s
  BY UpdatePeers DEF PlainCall
<1>3. \A p : Msg(p).op = "commit"
  OBVIOUS
<1> HIDE DEF d, told, Msg
<1>4. ASSUME NEW j \in Mon, NEW k \in 1 .. Len(d.sent[j])
      PROVE  d.sent[j][k].op \in {"commit", "lease"}
  <2>1. PICK q : q = c.sent[j]
    OBVIOUS
  <2>2. IsSeq(q) /\ \A h \in 1 .. Len(q) : q[h].op \in {"commit", "lease"}
    BY <2>1 DEF PlainCall, LeaderCall, IsCall, Plain
  <2>3. PICK t : t = d.sent[j]
    OBVIOUS
  <2>4. CASE j \in told
    <3>1. t = Append(q, Msg(j))
      BY <1>1, <2>1, <2>3, <2>4
    <3>2. (k \in 1 .. Len(q) /\ t[k] = q[k]) \/ t[k] = Msg(j)
      BY <2>2, <2>3, <3>1, AppendOf
    <3> QED
      BY <1>3, <2>2, <2>3, <3>2
  <2>5. CASE j \notin told
    BY <1>1, <2>1, <2>2, <2>5
  <2> QED
    BY <2>4, <2>5
<1>5. Plain(d)
  BY <1>4 DEF Plain
<1> QED
  BY <1>1, <1>2, <1>5 DEF PlainCall, Continues, d

LEMMA LearnRound ==
  ASSUME NEW m, NEW c, PlainCall(m, c), NEW msg
  PROVE  LET d == learn_uncommitted(c, msg) IN
         /\ PlainCall(m, d) /\ Continues(m, c, d) /\ d.st = c.st
         /\ SameRound(c.s, d.s) /\ d.s.new_value = c.s.new_value /\ d.s.timers = c.s.timers
         /\ d.s.last_committed = c.s.last_committed
<1> DEFINE d == [c EXCEPT !.s.uncommitted_v = msg.last_committed + 1,
                          !.s.uncommitted_pn = msg.uncommitted_pn,
                          !.s.uncommitted_value = msg.values[msg.last_committed + 1]]
<1>1. learn_uncommitted(c, msg) = d \/ learn_uncommitted(c, msg) = c
  BY DEF learn_uncommitted
<1>2. /\ DOMAIN d = {"s", "st", "epoch", "quorum", "sent"} /\ d.st = c.st
      /\ d.epoch = c.epoch /\ d.quorum = c.quorum /\ d.sent = c.sent
      /\ d.s = [c.s EXCEPT !.uncommitted_v = msg.last_committed + 1,
                           !.uncommitted_pn = msg.uncommitted_pn,
                           !.uncommitted_value = msg.values[msg.last_committed + 1]]
  BY DEF PlainCall, LeaderCall, IsCall
<1> HIDE DEF d
<1>3. /\ IsMem(d.s) /\ d.s.state = c.s.state /\ d.s.timers = c.s.timers
      /\ d.s.peer_last_committed = c.s.peer_last_committed
      /\ d.s.accepted_pn = c.s.accepted_pn /\ d.s.num_last = c.s.num_last
      /\ d.s.accepted = c.s.accepted
      /\ d.s.new_value = c.s.new_value /\ d.s.last_committed = c.s.last_committed
  BY <1>2 DEF PlainCall, LeaderCall, IsCall, IsMem
<1>4. Continues(m, c, d)
  BY <1>2, <1>3, SameSent DEF PlainCall, LeaderCall, LeaderMem
<1>5. PlainCall(m, d)
  BY <1>2, <1>4, PlainSame
<1>6. Continues(m, c, c)
  BY DEF Continues, PlainCall
<1> QED
  BY <1>1, <1>2, <1>3, <1>4, <1>5, <1>6 DEF SameRound

LEMMA MaxIs ==
  ASSUME NEW a \in Nat, NEW b \in Nat
  PROVE  Max({a, b}) \in Nat /\ Max({a, b}) >= a /\ Max({a, b}) >= b
<1>1. \E x \in {a, b} : \A y \in {a, b} : x >= y
  <2>1. a >= b \/ b >= a
    OBVIOUS
  <2> QED
    BY <2>1
<1>2. Max({a, b}) \in {a, b} /\ \A y \in {a, b} : Max({a, b}) >= y
  BY <1>1 DEF Max
<1> QED
  BY <1>2

(* A number of m that nobody has seen.                                      *)
Fresh(m, st, pn) == pn \in Nat /\ pn % 100 = m /\ pn > st.last_pn

LEMMA NewNumber ==
  ASSUME NEW m \in Mon, NEW st, st.last_pn \in Nat, NEW gt \in Nat
  PROVE  Fresh(m, st, get_new_proposal_number(m, st, gt))
<1>1. PICK x : x = Max({st.last_pn, gt})
  OBVIOUS
<1>2. x \in Nat /\ x >= st.last_pn
  BY <1>1, MaxIs
<1>3. m \in Nat /\ m < 100
  BY PaxosAssumption DEF Mon
<1>4. PICK k : k = x \div 100
  OBVIOUS
<1>5. k \in Nat /\ x < (k + 1) * 100
  BY <1>2, <1>4
<1>6. PICK pn : pn = (k + 1) * 100 + m
  OBVIOUS
<1>7. pn \in Nat /\ pn % 100 = m /\ pn > st.last_pn
  BY <1>2, <1>3, <1>5, <1>6
<1> QED
  BY <1>1, <1>4, <1>6, <1>7 DEF Fresh, get_new_proposal_number

(* A recovery has started with the number pn.                               *)
Collects(m, c, d, pn) ==
    /\ IsCall(d) /\ d.epoch = c.epoch /\ d.quorum = c.quorum
    /\ d.s.state = "recovering" /\ d.s.accepted_pn = pn /\ d.s.num_last = 1
    /\ d.s.new_value = c.s.new_value /\ d.s.timers = c.s.timers \union {"collect"}
    /\ d.s.last_committed = c.s.last_committed
    /\ IsStore(d.st) /\ d.st.last_pn = pn /\ d.st.accepted_pn = c.st.accepted_pn
    /\ d.st.last_committed = c.st.last_committed
    /\ \E msg : /\ msg.op = "collect" /\ msg.epoch = c.epoch /\ msg.pn = pn
                /\ \A j \in Mon : d.sent[j] = IF j \in Peers(m, c) THEN Append(c.sent[j], msg)
                                              ELSE c.sent[j]

LEMMA CollectRound ==
  ASSUME NEW m \in Mon, NEW c, IsCall(c), IsStore(c.st), c.st.last_pn \in Nat,
         c.s.accepted_pn \in Nat, NEW oldpn \in Nat
  PROVE  \E pn : Fresh(m, c.st, pn) /\ Collects(m, c, collect(m, c, oldpn), pn)
<1> DEFINE v == c.s.last_committed + 1
           own == c.st.log[v] # NoValue
           gt == Max({c.s.accepted_pn, oldpn})
           pn == get_new_proposal_number(m, c.st, gt)
           s == [c.s EXCEPT
                 !.state = "recovering",
                 !.uncommitted_v = IF own THEN v ELSE 0,
                 !.uncommitted_pn = IF own THEN pending_pn(c.st, v, c.s.accepted_pn) ELSE 0,
                 !.uncommitted_value = c.st.log[v],
                 !.peer_last_committed = [p \in Mon |-> None],
                 !.accepted_pn = pn,
                 !.num_last = 1,
                 !.timers = @ \union {"collect"}]
           b == [c EXCEPT !.s = s, !.st.last_pn = pn]
           msg == [op |-> "collect", epoch |-> c.epoch, pn |-> pn,
                   last_committed |-> s.last_committed, first_committed |-> s.first_committed]
<1>1. collect(m, c, oldpn) = SendTo(b, Peers(m, c), msg)
  BY DEF collect
<1> HIDE DEF v, own
<1>2. gt \in Nat
  BY MaxIs
<1> HIDE DEF gt
<1>3. Fresh(m, c.st, pn)
  BY <1>2, NewNumber
<1> HIDE DEF pn
<1>4. /\ DOMAIN b = {"s", "st", "epoch", "quorum", "sent"}
      /\ b.epoch = c.epoch /\ b.quorum = c.quorum /\ b.sent = c.sent /\ b.s = s
      /\ b.st = [c.st EXCEPT !.last_pn = pn]
  BY DEF IsCall
<1>5. msg.op = "collect" /\ msg.epoch = c.epoch /\ msg.pn = pn
  OBVIOUS
<1>6. /\ IsMem(s) /\ s.state = "recovering" /\ s.timers = c.s.timers \union {"collect"}
      /\ s.accepted_pn = pn /\ s.num_last = 1 /\ s.new_value = c.s.new_value
      /\ s.last_committed = c.s.last_committed
  BY DEF IsCall, IsMem, State
<1> HIDE DEF b, msg, s
<1>7. /\ IsStore(b.st) /\ b.st.last_pn = pn /\ b.st.accepted_pn = c.st.accepted_pn
      /\ b.st.last_committed = c.st.last_committed
  BY <1>4 DEF IsStore
<1>8. IsCall(b)
  BY <1>4, <1>6 DEF IsCall
<1>9. PICK d : d = SendTo(b, Peers(m, c), msg)
  OBVIOUS
<1>10. /\ IsCall(d) /\ d.s = b.s /\ d.st = b.st /\ d.epoch = b.epoch /\ d.quorum = b.quorum
       /\ \A j \in Mon : d.sent[j] = IF j \in Peers(m, c) THEN Append(b.sent[j], msg)
                                     ELSE b.sent[j]
  BY <1>8, <1>9, SentTo
<1>11. Collects(m, c, d, pn)
  BY <1>4, <1>5, <1>6, <1>7, <1>10 DEF Collects
<1> QED
  BY <1>1, <1>3, <1>9, <1>11

----------------------------------------------------------------------------
(* Leaving.                                                                 *)

LEMMA AwayRound ==
  ASSUME Inv, Inv', RoundInv, NEW m \in Mon, NEW x \in Place, Evolves(At(m), x),
         ~Leading(x), x.role # "peon",
         NEW n, Taken(n), NEW c, IsCall(c), Mute(c), Tame(c), Carried(net, n, net', m, c.sent),
         OthersStay(m, View, View', mem, mem', store, store'), View'[m] = x,
         mem'[m].accepted_pn = mem[m].accepted_pn \/ x.role = "probing",
         store'[m].last_pn = store[m].last_pn,
         \A j \in Mon : \A k \in 1 .. Len(c.sent[j]) : c.sent[j][k].epoch <= x.epoch,
         LocalOK(x, m, mem'[m], store'[m]), NumbersOK(store', mem'[m], store'[m])
  PROVE  RoundInv'
<1>1. PICK b : b = mem'[m].accepted_pn
  OBVIOUS
<1>2. LeaderPart(View', mem', m, n, c.sent)
  BY DEF LeaderPart
<1>3. Bystands(m, x, b)
  BY <1>1, BystandAway
<1>4. PeerPart(View, mem, net, View'[m], mem'[m].accepted_pn, m, n, c.sent)
  BY <1>1, <1>3, PeerMoves
<1>5. Pledged(m, n, c)
  BY TamePledged
<1>6. \A i, e : Joined(x, i, e) => Joined(View[m], i, e) /\ b = mem[m].accepted_pn
  BY DEF Joined
<1>7. PromisePart(View', mem', m, n, c.sent)
  BY <1>1, <1>5, <1>6, PromiseKept
<1>8. \A j \in Mon : SentOK(store', x, c.sent[j])
  BY DEF SentOK, Mute, Tame
<1>9. View[m] = At(m) /\ At(m) \in Place
  BY ViewIs
<1>10. x.epoch >= View[m].epoch
  BY <1>9, EpochKept
<1>11. store[m].last_pn <= store'[m].last_pn
  <2>1. store[m].last_pn \in Nat
    BY StoreNumbers
  <2> QED
    BY <2>1
<1>12. RecordPart(store, View', mem', store', m, n, c.sent)
  BY <1>8, <1>10, <1>11, RecordsKept
<1> QED
  BY <1>2, <1>4, <1>7, <1>12, NextRounds

LEMMA NumbersSame ==
  ASSUME Inv, RoundInv, NEW m \in Mon, OthersStay(m, View, View', mem, mem', store, store'),
         store'[m].last_pn = store[m].last_pn
  PROVE  /\ Grown(store, store')
         /\ Used(store', mem[m].accepted_pn) /\ Used(store', store[m].accepted_pn)
<1>1. \A p \in Mon : store[p].last_pn \in Nat
  BY StoreNumbers
<1>2. Grown(store, store')
  BY <1>1 DEF Grown, OthersStay
<1>3. Used(store, mem[m].accepted_pn) /\ Used(store, store[m].accepted_pn)
  BY DEF RoundInv, Rounds, NumbersOK
<1> QED
  BY <1>2, <1>3, UsedGrown

LEMMA ResetRound ==
  ASSUME NEW s
  PROVE  LET t == Reset(s) IN
         /\ t.state = "recovering" /\ t.timers = {} /\ t.new_value = NoValue
         /\ t.accepted_pn = s.accepted_pn /\ t.last_committed = s.last_committed
BY DEF Reset, Loaded

(* m leaves after the calls c.                                              *)
LEMMA LeaveRound ==
  ASSUME Inv, Inv', RoundInv, NEW m \in Mon, NEW e \in Nat, NEW r \in {"probing", "electing"},
         Evolves(At(m), Gone(e, r)), NEW n, Taken(n),
         NEW c, IsCall(c), Mute(c), Tame(c), Leave(m, c, e, r, n),
         c.s.accepted_pn = mem[m].accepted_pn, IsStore(c.st),
         c.st.last_pn = store[m].last_pn, c.st.accepted_pn = store[m].accepted_pn,
         c.st.last_committed = c.s.last_committed,
         \A j \in Mon : \A k \in 1 .. Len(c.sent[j]) : c.sent[j][k].epoch <= e
  PROVE  RoundInv'
<1>1. PICK x : x = Gone(e, r)
  OBVIOUS
<1>2. /\ x \in Place /\ ~Leading(x) /\ x.epoch = e /\ x.role = r /\ x.flushing = FALSE
      /\ x.leader = None /\ x.quorum = {}
  BY <1>1, GoneIs
<1>3. Becomes(m, x)
  BY <1>2 DEF Leave, Becomes
<1>4. PICK s : s = Reset(c.s)
  OBVIOUS
<1>5. PICK st : st = c.st
  OBVIOUS
<1>6. Ends(m, x, s, st, n, c)
  BY <1>3, <1>4, <1>5 DEF Leave, Ends
<1>7. /\ Carried(net, n, net', m, c.sent)
      /\ OthersStay(m, View, View', mem, mem', store, store')
      /\ View'[m] = x /\ mem'[m] = s /\ store'[m] = st
  BY <1>2, <1>6, EndsIs
<1>8. /\ s.state = "recovering" /\ s.timers = {} /\ s.new_value = NoValue
      /\ s.accepted_pn = mem[m].accepted_pn /\ s.last_committed = st.last_committed
  BY <1>4, <1>5, ResetRound
<1>9. store[m].last_pn \in Nat
  BY StoreNumbers
<1>10. LocalOK(x, m, s, st)
  BY <1>2, <1>5, <1>8, <1>9 DEF LocalOK, Writing, Updating
<1>11. NumbersOK(store', mem'[m], store'[m])
  BY <1>5, <1>7, <1>8, NumbersSame DEF NumbersOK
<1>12. Evolves(At(m), x) /\ x.role # "peon"
  BY <1>1, <1>2
<1>13. /\ mem'[m].accepted_pn = mem[m].accepted_pn /\ store'[m].last_pn = store[m].last_pn
       /\ LocalOK(x, m, mem'[m], store'[m])
  BY <1>5, <1>7, <1>8, <1>10
<1>14. \A j \in Mon : \A k \in 1 .. Len(c.sent[j]) : c.sent[j][k].epoch <= x.epoch
  BY <1>2
<1> QED
  BY <1>2, <1>7, <1>11, <1>12, <1>13, <1>14, AwayRound

LEMMA Silent ==
  ASSUME NEW c, \A j \in Mon : c.sent[j] = <<>>
  PROVE  /\ Mute(c) /\ Tame(c) /\ Plain(c)
         /\ \A e : \A j \in Mon : \A k \in 1 .. Len(c.sent[j]) : c.sent[j][k].epoch <= e
<1>1. \A j \in Mon : 1 .. Len(c.sent[j]) = {}
  BY EmptyIs
<1> QED
  BY <1>1 DEF Mute, Tame, Plain

LEMMA CallRound ==
  ASSUME Inv, RoundInv, NEW m \in Mon, NEW c, c = Call(m)
  PROVE  /\ IsCall(c) /\ c.s = mem[m] /\ c.st = store[m] /\ IsStore(c.st)
         /\ c.epoch = epoch[m] /\ c.quorum = quorum[m]
         /\ \A j \in Mon : c.sent[j] = <<>>
<1>1. c.st = store[m]
  BY DEF Call
<1> QED
  BY <1>1, CallIs, StoreNumbers

LEMMA MemRound ==
  ASSUME RoundInv, NEW m \in Mon
  PROVE  LocalOK(View[m], m, mem[m], store[m])
BY DEF RoundInv, Rounds

(* m leaves without a word; it is not writing.                              *)
LEMMA LeaveSilent ==
  ASSUME Inv, Inv', RoundInv, NEW m \in Mon, NEW e \in Nat, NEW r \in {"probing", "electing"},
         Evolves(At(m), Gone(e, r)), NEW n, Taken(n), ~Writing(mem[m]),
         Leave(m, Call(m), e, r, n)
  PROVE  RoundInv'
<1>1. PICK c : c = Call(m)
  OBVIOUS
<1>2. /\ IsCall(c) /\ c.s = mem[m] /\ c.st = store[m] /\ IsStore(c.st)
      /\ \A j \in Mon : c.sent[j] = <<>>
  BY <1>1, CallRound
<1>3. Leave(m, c, e, r, n)
  BY <1>1
<1>4. c.st.last_committed = c.s.last_committed
  BY <1>2, MemRound DEF LocalOK
<1>5. /\ Mute(c) /\ Tame(c)
      /\ \A j \in Mon : \A k \in 1 .. Len(c.sent[j]) : c.sent[j][k].epoch <= e
  BY <1>2, Silent
<1>6. /\ c.s.accepted_pn = mem[m].accepted_pn /\ c.st.last_pn = store[m].last_pn
      /\ c.st.accepted_pn = store[m].accepted_pn
  BY <1>2
<1> QED
  BY <1>2, <1>3, <1>4, <1>5, <1>6, LeaveRound

LEMMA StartElectionRounds ==
  ASSUME Inv, Inv', RoundInv, NEW m \in Mon, start_election(m)
  PROVE  RoundInv'
<1>1. PICK e : e = NextOdd(epoch[m])
  OBVIOUS
<1>2. e \in Nat /\ e > epoch[m] /\ e % 2 = 1
  BY <1>1, Facts, NextOddIs
<1>3. Leave(m, Call(m), e, "electing", net) /\ ~Writing(mem[m])
  BY <1>1 DEF start_election
<1>4. Evolves(At(m), Gone(e, "electing"))
  BY <1>2, AtFields, GoneIs DEF Evolves
<1> QED
  BY <1>2, <1>3, <1>4, TakenNone, LeaveSilent

LEMMA BootstrapRounds ==
  ASSUME Inv, Inv', RoundInv, NEW m \in Mon, NEW n, Taken(n), bootstrap(m, Call(m), n)
  PROVE  RoundInv'
<1>1. PICK e : e = epoch[m]
  OBVIOUS
<1>2. e \in Nat
  BY <1>1, Facts
<1>3. Leave(m, Call(m), e, "probing", n) /\ ~Writing(mem[m])
  BY <1>1 DEF bootstrap
<1>4. Evolves(At(m), Gone(e, "probing"))
  BY <1>1, <1>2, AtFields, GoneIs DEF Evolves, InQuorum
<1> QED
  BY <1>2, <1>3, <1>4, LeaveSilent

LEMMA ExpireRounds ==
  ASSUME Inv, Inv', RoundInv, NEW m \in Mon, NEW t, Expire(m, t)
  PROVE  RoundInv'
BY TakenNone, BootstrapRounds DEF Expire

(* net' follows from net without a word of m.                               *)
LEMMA CarriedSilent ==
  ASSUME Inv, Inv', NEW m \in Mon, NEW n, Taken(n), NEW c, \A j \in Mon : c.sent[j] = <<>>,
         \A i, j \in Mon : Suffix(net'[i][j], n[i][j])
  PROVE  Carried(net, n, net', m, c.sent)
<1>1. \A i, j \in Mon : Suffix(n[i][j], net[i][j]) /\ IsSeq(n[i][j])
  BY DEF Taken
<1>2. ASSUME NEW j \in Mon PROVE n[m][j] \o c.sent[j] = n[m][j]
  <2>1. PICK q : q = n[m][j]
    OBVIOUS
  <2>2. q \in Seq({q[k] : k \in 1 .. Len(q)})
    BY <1>1, <2>1, SeqIs
  <2>3. q \o <<>> = q
    BY <2>2
  <2> QED
    BY <2>1, <2>3
<1>3. \A i, j \in Mon : Suffix(net'[i][j], IF i = m THEN n[i][j] \o c.sent[j] ELSE n[i][j])
  BY <1>2
<1>4. PICK h : h = net'
  OBVIOUS
<1>5. Len(h[m][m]) = 0
  <2>1. /\ Len(h[m][m]) \in Nat
        /\ \A k \in 1 .. Len(h[m][m]) : MessageOK(View', h[m][m], k, m, m)
    BY <1>4 DEF Inv, NetOK, SessionOK, IsSeq
  <2>2. \A k \in 1 .. Len(h[m][m]) : FALSE
    BY <2>1 DEF MessageOK
  <2> QED
    BY <2>1, <2>2
<1> QED
  BY <1>1, <1>3, <1>4, <1>5 DEF Carried

LEMMA JoinElectionRounds ==
  ASSUME Inv, Inv', RoundInv, NEW m \in Mon, NEW p \in Mon, join_election(m, p)
  PROVE  RoundInv'
<1>1. PICK e : e = epoch[p]
  OBVIOUS
<1>2. e \in Nat /\ e > epoch[m] /\ e % 2 = 1
  BY <1>1, Facts DEF join_election
<1>3. CASE ~Writing(mem[m]) /\ Leave(m, Call(m), epoch[p], "electing", net)
  <2>1. Evolves(At(m), Gone(e, "electing"))
    BY <1>2, AtFields, GoneIs DEF Evolves
  <2> QED
    BY <1>1, <1>2, <1>3, <2>1, TakenNone, LeaveSilent
<1>4. CASE /\ Writing(mem[m])
           /\ epoch' = [epoch EXCEPT ![m] = epoch[p]]
           /\ flushing' = [flushing EXCEPT ![m] = TRUE]
           /\ UNCHANGED <<role, leader, quorum, mem, store, net>>
  <2>1. PICK x : x = [epoch |-> e, role |-> "leader", leader |-> leader[m],
                      quorum |-> quorum[m], flushing |-> TRUE]
    OBVIOUS
  <2>2. /\ x \in Place /\ x.epoch = e /\ x.role = "leader" /\ x.flushing = TRUE
        /\ x.quorum = quorum[m] /\ x.leader = leader[m]
    BY <1>2, <2>1, Facts DEF Place, Role
  <2>3. role[m] = "leader"
    BY <1>4, Facts
  <2>4. Becomes(m, x)
    <3>1. /\ epoch' = [epoch EXCEPT ![m] = x.epoch]
          /\ flushing' = [flushing EXCEPT ![m] = x.flushing]
      BY <1>1, <1>4, <2>2
    <3>2. role' = [role EXCEPT ![m] = x.role]
      BY <1>4, <2>2, <2>3 DEF Inv
    <3>3. leader' = [leader EXCEPT ![m] = x.leader] /\ quorum' = [quorum EXCEPT ![m] = x.quorum]
      BY <1>4, <2>2 DEF Inv
    <3> QED
      BY <3>1, <3>2, <3>3 DEF Becomes
  <2>5. View' = [View EXCEPT ![m] = x]
    BY <2>2, <2>4, ViewBecomes
  <2>6. View'[m] = x /\ \A j \in Mon \ {m} : View'[j] = View[j]
    BY <2>5, ViewIs DEF Views
  <2>7. mem' = mem /\ store' = store /\ net' = net
    BY <1>4
  <2>8. OthersStay(m, View, View', mem, mem', store, store')
    BY <2>6, <2>7 DEF OthersStay
  <2>9. PICK c : c = Call(m)
    OBVIOUS
  <2>10. IsCall(c) /\ \A j \in Mon : c.sent[j] = <<>>
    BY <2>9, CallRound
  <2>11. /\ Mute(c) /\ Tame(c)
         /\ \A j \in Mon : \A k \in 1 .. Len(c.sent[j]) : c.sent[j][k].epoch <= x.epoch
    BY <2>10, Silent
  <2>12. PICK n : n = net
    OBVIOUS
  <2>13. Taken(n)
    BY <2>12, TakenNone
  <2>14. \A i, j \in Mon : Suffix(net'[i][j], n[i][j])
    BY <2>7, <2>12, <2>13, SuffixSelf DEF Taken
  <2>15. Carried(net, n, net', m, c.sent)
    BY <2>10, <2>13, <2>14, CarriedSilent
  <2>16. Evolves(At(m), x) /\ ~Leading(x) /\ x.role # "peon"
    BY <1>2, <2>2, AtFields DEF Evolves, Leading
  <2>17. LocalOK(x, m, mem[m], store[m])
    <3>1. LocalOK(At(m), m, mem[m], store[m])
      BY MemRound, ViewIs
    <3>2. At(m).role = "leader" /\ At(m).quorum = x.quorum
      BY <2>2, <2>3, AtFields
    <3> QED
      BY <1>4, <2>2, <3>1, <3>2 DEF LocalOK
  <2>18. NumbersOK(store', mem'[m], store'[m])
    BY <2>7 DEF RoundInv, Rounds
  <2>19. /\ mem'[m].accepted_pn = mem[m].accepted_pn /\ store'[m].last_pn = store[m].last_pn
         /\ LocalOK(x, m, mem'[m], store'[m])
    BY <2>7, <2>17
  <2> QED
    BY <2>2, <2>6, <2>8, <2>10, <2>11, <2>13, <2>15, <2>16, <2>18, <2>19, AwayRound
<1> QED
  BY <1>3, <1>4 DEF join_election

LEMMA CrashRounds ==
  ASSUME Inv, Inv', RoundInv, NEW m \in Mon, crash(m)
  PROVE  RoundInv'
<1>1. PICK e \in Nat : e = epoch[m]
  BY Facts
<1>2. PICK x : x = Gone(e, "probing")
  OBVIOUS
<1>3. /\ x \in Place /\ ~Leading(x) /\ x.epoch = e /\ x.role = "probing" /\ x.flushing = FALSE
      /\ x.leader = None /\ x.quorum = {}
  BY <1>2, GoneIs
<1>4. Becomes(m, x)
  <2>1. epoch' = [epoch EXCEPT ![m] = x.epoch]
    BY <1>1, <1>3 DEF crash, Inv
  <2> QED
    BY <1>3, <2>1 DEF crash, Becomes
<1>5. Evolves(At(m), x)
  BY <1>1, <1>3, AtFields DEF Evolves, InQuorum
<1>6. View' = [View EXCEPT ![m] = x] /\ \A j \in Mon : epoch'[j] \in Nat
  BY <1>3, <1>4, ViewBecomes
<1>7. View'[m] = x /\ \A j \in Mon \ {m} : View'[j] = View[j]
  BY <1>6, ViewIs DEF Views
<1>8. store' = store /\ mem' = [mem EXCEPT ![m] = Loaded(store[m])] /\ DOMAIN mem = Mon
  BY DEF crash, Inv
<1>9. mem'[m] = Loaded(store[m]) /\ \A j \in Mon \ {m} : mem'[j] = mem[j]
  BY <1>8
<1>10. OthersStay(m, View, View', mem, mem', store, store')
  BY <1>7, <1>8, <1>9 DEF OthersStay
<1>11. PICK g : g = net
  OBVIOUS
<1>12. PICK lost : net' = Prune([i \in Mon |-> [j \in Mon |->
                       IF j = m \/ (i = m /\ j \in lost) THEN <<>> ELSE g[i][j]]])
  BY <1>11 DEF crash
<1>13. PICK n : n = [i \in Mon |-> [j \in Mon |->
                       IF j = m \/ (i = m /\ j \in lost) THEN <<>> ELSE g[i][j]]]
  OBVIOUS
<1>14. \A i, j \in Mon : n[i][j] = <<>> \/ n[i][j] = g[i][j]
  BY <1>13
<1>15. n = [i \in Mon |-> [j \in Mon |-> n[i][j]]]
  BY <1>13
<1>16. ASSUME NEW i \in Mon, NEW j \in Mon
       PROVE  IsSeq(n[i][j]) /\ Suffix(n[i][j], g[i][j])
  <2>1. IsSeq(g[i][j])
    BY <1>11, NetIs
  <2> QED
    BY <1>14, <2>1, EmptyIs, SuffixSelf, SuffixEmpty
<1>17. Taken(n)
  BY <1>11, <1>15, <1>16 DEF Taken
<1>18. ASSUME NEW i \in Mon, NEW j \in Mon PROVE Suffix(net'[i][j], n[i][j])
  <2>1. PICK q : q = n[i][j]
    OBVIOUS
  <2>2. net' = Prune(n)
    BY <1>12, <1>13
  <2>3. net'[i][j] = Pending(q, epoch'[j], role'[j])
    BY <2>1, <2>2 DEF Prune
  <2>4. PICK a, b : a = epoch'[j] /\ b = role'[j]
    OBVIOUS
  <2>5. PICK d \in 0 .. Len(q) : DropIs(Pending(q, a, b), q, d)
    BY <1>16, <2>1, PendingIs
  <2> QED
    BY <2>1, <2>3, <2>4, <2>5 DEF Suffix
<1>19. PICK c : c = Call(m)
  OBVIOUS
<1>20. IsCall(c) /\ \A j \in Mon : c.sent[j] = <<>>
  BY <1>19, CallRound
<1>21. /\ Mute(c) /\ Tame(c)
       /\ \A j \in Mon : \A k \in 1 .. Len(c.sent[j]) : c.sent[j][k].epoch <= x.epoch
  BY <1>20, Silent
<1>22. Carried(net, n, net', m, c.sent)
  BY <1>17, <1>18, <1>20, CarriedSilent
<1>23. PICK s : s = Loaded(store[m])
  OBVIOUS
<1>24. /\ s.state = "recovering" /\ s.timers = {} /\ s.new_value = NoValue
       /\ s.accepted_pn = store[m].accepted_pn /\ s.last_committed = store[m].last_committed
  BY <1>23 DEF Loaded
<1>25. LocalOK(x, m, s, store[m])
  BY <1>3, <1>24, StoreNumbers DEF LocalOK, Writing, Updating
<1>26. NumbersOK(store', s, store[m])
  <2>1. Used(store, store[m].accepted_pn)
    BY DEF RoundInv, Rounds, NumbersOK
  <2> QED
    BY <1>8, <1>24, <2>1 DEF NumbersOK
<1>27. /\ store'[m].last_pn = store[m].last_pn /\ LocalOK(x, m, mem'[m], store'[m])
       /\ NumbersOK(store', mem'[m], store'[m])
  BY <1>8, <1>9, <1>23, <1>25, <1>26
<1> QED
  BY <1>3, <1>5, <1>7, <1>10, <1>17, <1>20, <1>21, <1>22, <1>27, AwayRound

----------------------------------------------------------------------------
(* Staying.                                                                 *)

LEMMA ReturnRound ==
  ASSUME Inv, Inv', NEW m \in Mon, NEW c, IsCall(c), NEW n, Taken(n), Return(m, c, n)
  PROVE  /\ Carried(net, n, net', m, c.sent)
         /\ OthersStay(m, View, View', mem, mem', store, store')
         /\ View'[m] = View[m] /\ mem'[m] = c.s /\ store'[m] = c.st
<1>1. PICK x : x = At(m)
  OBVIOUS
<1>2. x \in Place /\ View[m] = x
  BY <1>1, ViewIs
<1>3. Becomes(m, x)
  BY <1>1 DEF Return, Becomes, At, Inv
<1>4. PICK s, st : s = c.s /\ st = c.st
  OBVIOUS
<1>5. Ends(m, x, s, st, n, c)
  BY <1>3, <1>4 DEF Return, Ends
<1> QED
  BY <1>2, <1>4, <1>5, EndsIs

LEMMA StayRound ==
  ASSUME Inv, Inv', RoundInv, NEW m \in Mon, NEW n, Taken(n), NEW c, IsCall(c), Mute(c),
         Carried(net, n, net', m, c.sent),
         OthersStay(m, View, View', mem, mem', store, store'), View'[m] = View[m],
         mem'[m].accepted_pn = mem[m].accepted_pn,
         store'[m].last_pn = store[m].last_pn, store'[m].accepted_pn = store[m].accepted_pn,
         LeaderPart(View', mem', m, n, c.sent), Pledged(m, n, c),
         \A j \in Mon : SentOK(store', View[m], c.sent[j]),
         LocalOK(View[m], m, mem'[m], store'[m])
  PROVE  RoundInv'
<1>1. PICK x, b : x = View[m] /\ b = mem[m].accepted_pn
  OBVIOUS
<1>2. x \in Place
  BY <1>1, ViewIs
<1>3. Bystands(m, x, b)
  BY <1>1, BystandSame
<1>4. PeerPart(View, mem, net, x, b, m, n, c.sent)
  BY <1>3, PeerMoves
<1>5. \A i, e : Joined(x, i, e) => Joined(View[m], i, e) /\ b = mem[m].accepted_pn
  BY <1>1
<1>6. View'[m] = x /\ mem'[m].accepted_pn = b
  BY <1>1
<1>7. PromisePart(View', mem', m, n, c.sent)
  BY <1>5, <1>6, PromiseKept
<1>8. x.epoch >= View[m].epoch
  BY <1>1, <1>2, PlaceFields
<1>9. store[m].last_pn <= store'[m].last_pn
  <2>1. store[m].last_pn \in Nat
    BY StoreNumbers
  <2> QED
    BY <2>1
<1>10. NumbersOK(store', mem'[m], store'[m])
  BY NumbersSame DEF NumbersOK
<1>11. /\ \A j \in Mon : SentOK(store', x, c.sent[j])
       /\ LocalOK(x, m, mem'[m], store'[m])
  BY <1>1
<1>12. RecordPart(store, View', mem', store', m, n, c.sent)
  BY <1>2, <1>6, <1>8, <1>9, <1>10, <1>11, RecordsKept
<1>13. PeerPart(View, mem, net, View'[m], mem'[m].accepted_pn, m, n, c.sent)
  BY <1>4, <1>6
<1> QED
  BY <1>7, <1>12, <1>13, NextRounds

LEMMA SpeechOK ==
  ASSUME Inv, NEW m \in Mon, NEW c, NEW acc, Speech(c, View[m].epoch, acc), NEW t
  PROVE  Mute(c) /\ \A j \in Mon : SentOK(t, View[m], c.sent[j])
<1>1. View[m].epoch \in Nat
  BY ViewIs, PlaceFields
<1>2. Mute(c)
  BY DEF Speech, Mute
<1>3. \A j \in Mon : SentOK(t, View[m], c.sent[j])
  BY <1>1 DEF Speech, SentOK
<1> QED
  BY <1>2, <1>3

(* A leader goes on with its number.                                        *)
LEMMA LeaderReturns ==
  ASSUME Inv, Inv', RoundInv, NEW m \in Mon, Leading(View[m]), NEW n, Taken(n),
         NEW c, IsCall(c), Speech(c, View[m].epoch, mem[m].accepted_pn), Return(m, c, n),
         c.s.accepted_pn = mem[m].accepted_pn, c.st.last_pn = store[m].last_pn,
         c.st.accepted_pn = store[m].accepted_pn, LocalOK(View[m], m, c.s, c.st),
         NEW C \in SUBSET Others(m), CountOK(c.s, C, Others(m)), NEW A, PairsOK(m, A, C, n),
         \A j \in Others(m) : j \in A => j \in Awaited(c.s),
         \A j \in Mon : \A k \in 1 .. Len(c.sent[j]) :
             c.sent[j][k].op = "begin" => j \in C /\ j \notin A /\ j \in Awaited(c.s)
  PROVE  RoundInv'
<1>1. /\ Carried(net, n, net', m, c.sent)
      /\ OthersStay(m, View, View', mem, mem', store, store')
      /\ View'[m] = View[m] /\ mem'[m] = c.s /\ store'[m] = c.st
  BY ReturnRound
<1>2. PICK s : s = c.s
  OBVIOUS
<1>3. LeaderPart(View', mem', m, n, c.sent) /\ Pledged(m, n, c)
  BY <1>1, <1>2, LeaderSpeaks
<1>4. PICK t : t = store'
  OBVIOUS
<1>5. Mute(c) /\ \A j \in Mon : SentOK(t, View[m], c.sent[j])
  BY SpeechOK
<1>6. /\ mem'[m].accepted_pn = mem[m].accepted_pn
      /\ store'[m].last_pn = store[m].last_pn /\ store'[m].accepted_pn = store[m].accepted_pn
      /\ LocalOK(View[m], m, mem'[m], store'[m])
  BY <1>1
<1> QED
  BY <1>1, <1>3, <1>4, <1>5, <1>6, StayRound

(* It goes on with the round.                                               *)
LEMMA LeaderContinues ==
  ASSUME Inv, Inv', RoundInv, NEW m \in Mon, Leading(View[m]), NEW n, Taken(n),
         NEW c, IsCall(c), Plain(c), Speaks(m, c), c.epoch = epoch[m], Return(m, c, n),
         SameRound(mem[m], c.s), c.st.last_pn = store[m].last_pn,
         c.st.accepted_pn = store[m].accepted_pn, LocalOK(View[m], m, c.s, c.st)
  PROVE  RoundInv'
<1>1. PICK C \in SUBSET Others(m) :
          CountOK(mem[m], C, Others(m)) /\ PairsOK(m, Awaited(mem[m]), C, net)
  BY RoundIs
<1>2. PICK A : A = Awaited(mem[m])
  OBVIOUS
<1>3. PairsOK(m, A, C, n)
  BY <1>1, <1>2, PairsTaken
<1>4. CountOK(c.s, C, Others(m))
  BY <1>1 DEF CountOK, SameRound
<1>5. Awaited(c.s) = A
  BY <1>2 DEF Awaited, SameRound, Updating
<1>6. View[m].epoch = epoch[m]
  BY ViewIs, AtFields
<1>7. PICK acc : acc = mem[m].accepted_pn
  OBVIOUS
<1>8. Speech(c, View[m].epoch, mem[m].accepted_pn)
  BY <1>6, <1>7, PlainSpeech
<1>9. c.s.accepted_pn = mem[m].accepted_pn
  BY DEF SameRound
<1>10. \A j \in Mon : \A k \in 1 .. Len(c.sent[j]) :
           c.sent[j][k].op = "begin" => j \in C /\ j \notin A /\ j \in Awaited(c.s)
  BY DEF Plain
<1> QED
  BY <1>3, <1>4, <1>5, <1>8, <1>9, <1>10, LeaderReturns

(* It ends the round.                                                       *)
LEMMA LeaderEndsRound ==
  ASSUME Inv, Inv', RoundInv, NEW m \in Mon, Leading(View[m]), NEW n, Taken(n),
         PairsOK(m, {}, Others(m), n), NEW b, b.epoch = epoch[m], b.quorum = quorum[m],
         b.s.accepted_pn = mem[m].accepted_pn, b.s.num_last = 1 + Cardinality(Others(m)),
         b.st.last_pn = store[m].last_pn, b.st.accepted_pn = store[m].accepted_pn,
         NEW d, RoundEnds(m, b, d), Return(m, d, n)
  PROVE  RoundInv'
<1>1. View[m].epoch = epoch[m] /\ View[m].quorum = quorum[m]
  BY ViewIs, AtFields
<1>2. IsCall(d) /\ Speaks(m, d) /\ d.quorum = quorum[m]
  BY DEF RoundEnds, Continues, LeaderCall
<1>3. Speech(d, View[m].epoch, mem[m].accepted_pn)
  BY <1>1 DEF RoundEnds
<1>4. /\ d.s.accepted_pn = mem[m].accepted_pn /\ d.st.last_pn = store[m].last_pn
      /\ d.st.accepted_pn = store[m].accepted_pn
  BY DEF RoundEnds
<1>5. LocalOK(View[m], m, d.s, d.st)
  <2>1. LocalOK(View[m], m, mem[m], store[m])
    BY MemRound
  <2>2. View[m].role = "leader" /\ ~View[m].flushing
    BY DEF Leading
  <2>3. store[m].last_pn \in Nat
    BY StoreNumbers
  <2> QED
    BY <2>1, <2>2, <2>3 DEF LocalOK, RoundEnds, Updating, Writing
<1>6. PICK C : C = Others(m)
  OBVIOUS
<1>7. C \in SUBSET Others(m) /\ CountOK(d.s, C, Others(m))
  BY <1>6 DEF CountOK, RoundEnds
<1>8. PICK A : A = {}
  OBVIOUS
<1>9. PairsOK(m, A, C, n)
  BY <1>6, <1>8
<1>10. \A j \in Others(m) : j \in A => j \in Awaited(d.s)
  BY <1>8
<1>11. ASSUME NEW j \in Mon, NEW k \in 1 .. Len(d.sent[j]), d.sent[j][k].op = "begin"
       PROVE  j \in C /\ j \notin A /\ j \in Awaited(d.s)
  <2>1. j \in quorum[m] \ {m}
    BY <1>2 DEF Speaks
  <2>2. ~Plain(d)
    BY <1>11 DEF Plain
  <2>3. Updating(d.s) /\ d.s.accepted = {m}
    BY <2>2 DEF RoundEnds
  <2> QED
    BY <1>1, <1>6, <1>8, <2>1, <2>3 DEF Others, Awaited
<1> QED
  BY <1>2, <1>3, <1>4, <1>5, <1>7, <1>9, <1>10, <1>11, LeaderReturns

----------------------------------------------------------------------------
(* What does not depend on a message.                                       *)

LEMMA LeadingIs ==
  ASSUME Inv, NEW m \in Mon
  PROVE  Leading(View[m]) <=> role[m] = "leader" /\ ~flushing[m]
BY ViewIs, AtFields DEF Leading

LEMMA LeaderCallRound ==
  ASSUME Inv, RoundInv, NEW m \in Mon, role[m] = "leader", NEW c, c = Call(m)
  PROVE  /\ PlainCall(m, c) /\ IsCall(c) /\ Continues(m, c, c) /\ Speaks(m, c) /\ Plain(c)
         /\ c.s = mem[m] /\ c.st = store[m] /\ c.epoch = epoch[m] /\ c.quorum = quorum[m]
<1>1. /\ IsCall(c) /\ c.s = mem[m] /\ c.st = store[m] /\ IsStore(c.st)
      /\ c.epoch = epoch[m] /\ c.quorum = quorum[m]
      /\ \A j \in Mon : c.sent[j] = <<>>
  BY CallRound
<1>2. LeaderCall(m, c)
  BY CallIs
<1>3. Plain(c)
  BY <1>1, Silent
<1> QED
  BY <1>1, <1>2, <1>3 DEF PlainCall, Continues, LeaderCall

(* Everyone has answered, and nobody is awaited.                            *)
LEMMA QuietRound ==
  ASSUME Inv, RoundInv, NEW m \in Mon, Leading(View[m]), ~Updating(mem[m]),
         mem[m].state # "recovering"
  PROVE  PairsOK(m, {}, Others(m), net) /\ mem[m].num_last = 1 + Cardinality(Others(m))
<1>1. PICK C \in SUBSET Others(m) :
          CountOK(mem[m], C, Others(m)) /\ PairsOK(m, Awaited(mem[m]), C, net)
  BY RoundIs
<1>2. C = Others(m) /\ mem[m].num_last = 1 + Cardinality(Others(m))
  BY <1>1 DEF CountOK
<1>3. Awaited(mem[m]) = {}
  BY NoneAwaited
<1> QED
  BY <1>1, <1>2, <1>3

LEMMA CommittedRounds ==
  ASSUME Inv, Inv', RoundInv, NEW m \in Mon, committed(m)
  PROVE  RoundInv'
<1>1. role[m] = "leader" /\ (flushing[m] => epoch[m] % 2 = 1) /\ epoch[m] \in Nat
  BY Facts DEF committed
<1>2. PICK b : b = Call(m)
  OBVIOUS
<1>3. /\ PlainCall(m, b) /\ IsCall(b) /\ b.s = mem[m] /\ b.st = store[m]
      /\ b.epoch = epoch[m] /\ b.quorum = quorum[m]
  BY <1>1, <1>2, LeaderCallRound
<1>4. Writing(mem[m]) /\ store[m].last_committed = mem[m].last_committed + 1
  BY DEF committed
<1>5. "accept" \notin mem[m].timers
  BY <1>4, MemRound DEF LocalOK, Writing, Updating
<1>6. PICK d : d = commit_finish(m, b)
  OBVIOUS
<1>7. RoundEnds(m, b, d)
  BY <1>3, <1>4, <1>5, <1>6, CommitRound
<1>8. CASE ~flushing[m] /\ Return(m, d, net)
  <2>1. Leading(View[m])
    BY <1>1, <1>8, LeadingIs
  <2>2. PairsOK(m, {}, Others(m), net) /\ mem[m].num_last = 1 + Cardinality(Others(m))
    BY <1>4, <2>1, QuietRound DEF Writing, Updating
  <2>3. PICK n : n = net
    OBVIOUS
  <2>4. Taken(n) /\ Return(m, d, n) /\ PairsOK(m, {}, Others(m), n)
    BY <1>8, <2>2, <2>3, TakenNone
  <2>5. /\ b.s.accepted_pn = mem[m].accepted_pn /\ b.s.num_last = 1 + Cardinality(Others(m))
        /\ b.st.last_pn = store[m].last_pn /\ b.st.accepted_pn = store[m].accepted_pn
    BY <1>3, <2>2
  <2> QED
    BY <1>3, <1>7, <2>1, <2>4, <2>5, LeaderEndsRound
<1>9. CASE flushing[m] /\ Leave(m, d, epoch[m], "electing", net)
  <2>1. PICK e : e = epoch[m]
    OBVIOUS
  <2>2. e \in Nat /\ e % 2 = 1
    BY <1>1, <1>9, <2>1
  <2>3. Leave(m, d, e, "electing", net)
    BY <1>9, <2>1
  <2>4. Evolves(At(m), Gone(e, "electing"))
    BY <1>1, <2>1, <2>2, AtFields, GoneIs DEF Evolves, InQuorum
  <2>5. IsCall(d) /\ Speech(d, e, mem[m].accepted_pn)
    BY <1>3, <1>7, <2>1 DEF RoundEnds, Continues, LeaderCall
  <2>6. Mute(d) /\ Tame(d)
    <3>1. Mute(d)
      BY <2>5 DEF Speech, Mute
    <3>2. \A j \in Mon : \A k \in 1 .. Len(d.sent[j]) :
              d.sent[j][k].op \notin {"collect", "victory"} /\ d.sent[j][k].epoch = e
      BY <2>5 DEF Speech
    <3>3. e % 2 # 0
      BY <2>2
    <3> QED
      BY <3>1, <3>2, <3>3 DEF Tame
  <2>7. \A j \in Mon : \A k \in 1 .. Len(d.sent[j]) : d.sent[j][k].epoch <= e
    BY <2>2, <2>5 DEF Speech
  <2>8. /\ d.s.accepted_pn = mem[m].accepted_pn /\ IsStore(d.st)
        /\ d.st.last_pn = store[m].last_pn /\ d.st.accepted_pn = store[m].accepted_pn
        /\ d.st.last_committed = d.s.last_committed
    BY <1>3, <1>7 DEF RoundEnds
  <2> QED
    BY <2>2, <2>3, <2>4, <2>5, <2>6, <2>7, <2>8, TakenNone, LeaveRound
<1> QED
  BY <1>2, <1>6, <1>8, <1>9 DEF committed

LEMMA TriggerProposeRounds ==
  ASSUME Inv, Inv', RoundInv, NEW m \in Mon, trigger_propose(m)
  PROVE  RoundInv'
<1>1. role[m] = "leader" /\ Leading(View[m])
  BY LeadingIs DEF trigger_propose
<1>2. PICK b : b = Call(m)
  OBVIOUS
<1>3. /\ PlainCall(m, b) /\ IsCall(b) /\ Continues(m, b, b) /\ Speaks(m, b) /\ Plain(b)
      /\ b.s = mem[m] /\ b.st = store[m] /\ b.epoch = epoch[m] /\ b.quorum = quorum[m]
  BY <1>1, <1>2, LeaderCallRound
<1>4. LocalOK(View[m], m, mem[m], store[m])
  BY MemRound
<1>5. PICK n : n = net
  OBVIOUS
<1>6. Taken(n)
  BY <1>5, TakenNone
<1>7. PICK c : c = propose_pending(m, b, 0)
  OBVIOUS
<1>8. PICK d : d = [b EXCEPT !.s.pending = TRUE]
  OBVIOUS
<1>9. CASE mem[m].state = "active" /\ Return(m, c, n)
  <2>1. Began(m, b, c)
    BY <1>3, <1>7, ProposeRound
  <2>2. ~Updating(mem[m]) /\ ~Writing(mem[m]) /\ mem[m].state # "recovering"
    BY <1>9 DEF Updating, Writing
  <2>3. b.s.new_value = NoValue /\ b.s.last_committed = b.st.last_committed
    BY <1>3, <1>4, <2>2 DEF LocalOK
  <2>4. RoundEnds(m, b, c)
    BY <1>3, <2>1, <2>3, RoundEnded
  <2>5. PairsOK(m, {}, Others(m), n) /\ mem[m].num_last = 1 + Cardinality(Others(m))
    BY <1>1, <1>5, <2>2, QuietRound
  <2>6. /\ b.s.accepted_pn = mem[m].accepted_pn /\ b.s.num_last = 1 + Cardinality(Others(m))
        /\ b.st.last_pn = store[m].last_pn /\ b.st.accepted_pn = store[m].accepted_pn
    BY <1>3, <2>5
  <2> QED
    BY <1>1, <1>3, <1>6, <1>9, <2>4, <2>5, <2>6, LeaderEndsRound
<1>10. CASE Return(m, d, n)
  <2>1. /\ DOMAIN d = {"s", "st", "epoch", "quorum", "sent"} /\ d.sent = b.sent /\ d.st = b.st
        /\ d.epoch = b.epoch /\ d.quorum = b.quorum /\ d.s = [b.s EXCEPT !.pending = TRUE]
    BY <1>3, <1>8 DEF IsCall
  <2>2. /\ IsMem(d.s) /\ d.s.state = b.s.state /\ d.s.timers = b.s.timers
        /\ d.s.accepted_pn = b.s.accepted_pn /\ d.s.num_last = b.s.num_last
        /\ d.s.accepted = b.s.accepted /\ d.s.new_value = b.s.new_value
        /\ d.s.last_committed = b.s.last_committed
    BY <1>3, <2>1 DEF IsCall, IsMem
  <2>3. IsCall(d) /\ Plain(d) /\ Speaks(m, d) /\ d.epoch = epoch[m]
    BY <1>3, <2>1, <2>2 DEF IsCall, Plain, Speaks
  <2>4. SameRound(mem[m], d.s)
    BY <1>3, <2>2 DEF SameRound
  <2>5. LocalOK(View[m], m, d.s, d.st)
    BY <1>3, <1>4, <2>1, <2>2 DEF LocalOK, Updating, Writing
  <2>6. d.st.last_pn = store[m].last_pn /\ d.st.accepted_pn = store[m].accepted_pn
    BY <1>3, <2>1
  <2> QED
    BY <1>1, <1>6, <1>10, <2>3, <2>4, <2>5, <2>6, LeaderContinues
<1>11. (mem[m].state = "active" /\ Return(m, c, n)) \/ Return(m, d, n)
  BY <1>2, <1>3, <1>5, <1>7, <1>8 DEF trigger_propose
<1> QED
  BY <1>9, <1>10, <1>11

LEMMA LeaseRenewRounds ==
  ASSUME Inv, Inv', RoundInv, NEW m \in Mon, lease_renew_timeout(m)
  PROVE  RoundInv'
<1>0. role[m] = "leader" /\ Leading(View[m]) /\ "lease_renew" \in mem[m].timers
  <2>1. MemOK(At(m), m, mem[m]) /\ "lease_renew" \in mem[m].timers /\ ~flushing[m]
    BY Facts DEF lease_renew_timeout
  <2>2. role[m] = "leader"
    BY <2>1, AtFields DEF MemOK, TimedWait
  <2> QED
    BY <2>1, <2>2, LeadingIs
<1>1. PICK b : b = Call(m)
  OBVIOUS
<1>2. /\ PlainCall(m, b) /\ b.s = mem[m] /\ b.st = store[m] /\ b.epoch = epoch[m]
  BY <1>0, <1>1, LeaderCallRound
<1>3. PICK d : d = extend_lease(m, b)
  OBVIOUS
<1>4. /\ PlainCall(m, d) /\ Continues(m, b, d) /\ Holds(b, d)
      /\ d.s.state = b.s.state /\ d.s.new_value = b.s.new_value /\ d.s.accepted = b.s.accepted
      /\ d.s.timers = b.s.timers \union {"lease_ack", "lease_renew"}
  BY <1>2, <1>3, LeaseRound
<1>5. PICK n : n = net
  OBVIOUS
<1>6. Taken(n) /\ Return(m, d, n)
  BY <1>1, <1>3, <1>5, TakenNone DEF lease_renew_timeout
<1>7. IsCall(d) /\ Plain(d) /\ Speaks(m, d) /\ d.epoch = epoch[m]
  BY <1>2, <1>4 DEF PlainCall, LeaderCall, Continues
<1>8. SameRound(mem[m], d.s)
  BY <1>2, <1>4 DEF SameRound, Holds
<1>9. LocalOK(View[m], m, d.s, d.st)
  <2>1. LocalOK(View[m], m, mem[m], store[m]) /\ mem[m].state = "active"
    BY <1>0, MemRound DEF LocalOK
  <2>2. IsStore(d.st) /\ d.st.last_pn = store[m].last_pn
        /\ d.st.last_committed = store[m].last_committed
        /\ d.s.last_committed = mem[m].last_committed
    BY <1>2, <1>4 DEF Holds
  <2>3. /\ d.s.state = mem[m].state /\ d.s.new_value = mem[m].new_value
        /\ d.s.timers = mem[m].timers \union {"lease_ack", "lease_renew"}
    BY <1>2, <1>4
  <2> QED
    BY <2>1, <2>2, <2>3 DEF LocalOK, Updating, Writing
<1>10. d.st.last_pn = store[m].last_pn /\ d.st.accepted_pn = store[m].accepted_pn
  BY <1>2, <1>4 DEF Holds
<1> QED
  BY <1>0, <1>6, <1>7, <1>8, <1>9, <1>10, LeaderContinues

LEMMA ApplyTransactionRounds ==
  ASSUME Inv, Inv', RoundInv, NEW m \in Mon, apply_transaction(m)
  PROVE  RoundInv'
<1>1. /\ UNCHANGED <<epoch, role, flushing, leader, quorum, mem, net>>
      /\ Writing(mem[m]) /\ DOMAIN store = Mon
  BY DEF apply_transaction, Inv
<1>2. View' = View
  BY <1>1 DEF View, At
<1>3. PICK v, x : v = mem[m].last_committed + 1 /\ x = mem[m].new_value
  OBVIOUS
<1>4. PICK y : y = [store[m] EXCEPT !.last_committed = v]
  OBVIOUS
<1>5. store' = [store EXCEPT ![m] = apply(y, x)]
  BY <1>3, <1>4 DEF apply_transaction
<1>6. PICK z : z = apply(y, x)
  OBVIOUS
<1>7. store'[m] = z /\ \A p \in Mon \ {m} : store'[p] = store[p]
  BY <1>1, <1>5, <1>6
<1>8. IsStore(y) /\ y.last_pn = store[m].last_pn /\ y.accepted_pn = store[m].accepted_pn
  BY <1>4, StoreNumbers DEF IsStore
<1>9. IsStore(z) /\ z.last_pn = store[m].last_pn /\ z.accepted_pn = store[m].accepted_pn
  BY <1>6, <1>8, ApplyIs
<1>10. PICK c : c = Call(m)
  OBVIOUS
<1>11. IsCall(c) /\ c.epoch = epoch[m] /\ \A j \in Mon : c.sent[j] = <<>>
  BY <1>10, CallRound
<1>12. Mute(c) /\ Tame(c) /\ Plain(c)
  BY <1>11, Silent
<1>13. PICK n : n = net
  OBVIOUS
<1>14. Taken(n)
  BY <1>13, TakenNone
<1>15. Carried(net, n, net', m, c.sent)
  <2>1. \A i, j \in Mon : Suffix(net'[i][j], n[i][j])
    BY <1>1, <1>13, <1>14, SuffixSelf DEF Taken
  <2> QED
    BY <1>11, <1>14, <2>1, CarriedSilent
<1>16. OthersStay(m, View, View', mem, mem', store, store')
  BY <1>1, <1>2, <1>7 DEF OthersStay
<1>17. Pledged(m, n, c)
  BY <1>11, <1>12, <1>14, TamePledged
<1>18. LeaderPart(View', mem', m, n, c.sent)
  <2>1. CASE Leading(View[m])
    <3>1. Speaks(m, c)
      BY <1>1, <1>10, Facts, LeaderCallRound
    <3>2. PICK s : s = mem[m]
      OBVIOUS
    <3>3. SameRound(mem[m], s) /\ mem'[m] = s /\ View'[m] = View[m]
      BY <1>1, <1>2, <3>2 DEF SameRound
    <3>4. c.epoch = View[m].epoch
      BY <1>11, ViewIs, AtFields
    <3> QED
      BY <1>11, <1>12, <1>14, <1>16, <2>1, <3>1, <3>3, <3>4, RoundGoesOn
  <2>2. CASE ~Leading(View[m])
    BY <1>2, <2>2 DEF LeaderPart
  <2> QED
    BY <2>1, <2>2
<1>19. \A j \in Mon : SentOK(store', View[m], c.sent[j])
  BY <1>11, EmptyIs DEF SentOK
<1>20. LocalOK(View[m], m, mem'[m], store'[m])
  <2>1. LocalOK(View[m], m, mem[m], store[m])
    BY MemRound
  <2> QED
    BY <1>1, <1>7, <1>9, <2>1 DEF LocalOK
<1>21. /\ View'[m] = View[m] /\ mem'[m].accepted_pn = mem[m].accepted_pn
       /\ store'[m].last_pn = store[m].last_pn /\ store'[m].accepted_pn = store[m].accepted_pn
  BY <1>1, <1>2, <1>7, <1>9
<1> QED
  BY <1>11, <1>12, <1>14, <1>15, <1>16, <1>17, <1>18, <1>19, <1>20, <1>21, StayRound

----------------------------------------------------------------------------
(* The answers that a leader hears.                                         *)

LEMMA HeadTaken ==
  ASSUME Inv, NEW m, NEW from, NEW msg, Hears(m, from, msg), NEW n, n = Consumed(from, m)
  PROVE  /\ m \in Mon /\ from \in Mon /\ from # m /\ Taken(n)
         /\ DropIs(n[from][m], net[from][m], 1) /\ Len(net[from][m]) >= 1
         /\ msg = net[from][m][1] /\ msg.epoch = View[m].epoch
         /\ \A i, j \in Mon : i # from \/ j # m => n[i][j] = net[i][j]
<1>1. /\ m \in Mon /\ from \in Mon /\ net[from][m] # <<>> /\ msg = Head(net[from][m])
      /\ msg.epoch = epoch[m] /\ ~flushing[m]
  BY DEF Hears
<1>2. /\ Taken(n) /\ DropIs(n[from][m], net[from][m], 1) /\ Len(net[from][m]) >= 1
      /\ msg = net[from][m][1]
      /\ \A i, j \in Mon : i # from \/ j # m => n[i][j] = net[i][j]
  BY <1>1, TakenHead
<1>3. from # m
  BY <1>1, HeadIs
<1>4. View[m].epoch = epoch[m]
  BY <1>1, ViewIs, AtFields
<1> QED
  BY <1>1, <1>2, <1>3, <1>4

LEMMA ReplyHeard ==
  ASSUME Inv, NEW m, NEW from, NEW msg, Hears(m, from, msg), msg.op \in ReplyOp
  PROVE  role[m] = "leader" /\ Leading(View[m]) /\ from \in Others(m)
<1>1. /\ m \in Mon /\ from \in Mon /\ net[from][m] # <<>> /\ msg = Head(net[from][m])
      /\ msg.epoch = epoch[m] /\ ~flushing[m]
  BY DEF Hears
<1>2. role[m] = "leader" /\ from \in quorum[m] /\ from # m
  BY <1>1, Roles
<1>3. View[m].quorum = quorum[m]
  BY <1>1, ViewIs, AtFields
<1> QED
  BY <1>1, <1>2, <1>3, LeadingIs DEF Others

LEMMA LeaseAckRounds ==
  ASSUME Inv, Inv', RoundInv, NEW m, NEW from, NEW msg, Hears(m, from, msg),
         msg.op = "lease_ack", handle_lease_ack(m, from, msg)
  PROVE  RoundInv'
<1>1. PICK n : n = Consumed(from, m)
  OBVIOUS
<1>2. m \in Mon /\ Taken(n)
  BY <1>1, HeadTaken
<1>3. role[m] = "leader" /\ Leading(View[m])
  BY ReplyHeard DEF ReplyOp
<1>4. PICK b : b = Call(m)
  OBVIOUS
<1>5. /\ PlainCall(m, b) /\ IsCall(b) /\ IsMem(b.s) /\ Speaks(m, b) /\ Plain(b)
      /\ b.s = mem[m] /\ b.st = store[m] /\ b.epoch = epoch[m] /\ b.quorum = quorum[m]
  BY <1>2, <1>3, <1>4, LeaderCallRound DEF IsCall
<1>6. PICK a : a = b.s.acked_lease \union {from}
  OBVIOUS
<1>7. PICK c : c = [b EXCEPT !.s.acked_lease = a,
                             !.s.timers = IF a = quorum[m] THEN @ \ {"lease_ack"} ELSE @]
  OBVIOUS
<1>8. /\ DOMAIN c = {"s", "st", "epoch", "quorum", "sent"} /\ c.sent = b.sent
      /\ c.epoch = b.epoch /\ c.quorum = b.quorum /\ c.st = b.st
      /\ c.s = [b.s EXCEPT !.acked_lease = a,
                           !.timers = IF a = quorum[m] THEN @ \ {"lease_ack"} ELSE @]
  BY <1>5, <1>7 DEF IsCall
<1>9. /\ IsMem(c.s) /\ c.s.state = b.s.state
      /\ c.s.timers = b.s.timers \/ c.s.timers = b.s.timers \ {"lease_ack"}
      /\ c.s.accepted_pn = b.s.accepted_pn /\ c.s.num_last = b.s.num_last
      /\ c.s.accepted = b.s.accepted /\ c.s.new_value = b.s.new_value
      /\ c.s.last_committed = b.s.last_committed
  BY <1>5, <1>8 DEF IsMem
<1>10. LocalOK(View[m], m, b.s, b.st)
  BY <1>2, <1>5, MemRound
<1>11. LocalOK(View[m], m, c.s, c.st)
  BY <1>8, <1>9, <1>10 DEF LocalOK, Updating, Writing
<1>12. SameRound(mem[m], c.s) /\ SameRound(mem[m], b.s)
  BY <1>5, <1>9 DEF SameRound
<1>13. IsCall(c) /\ Plain(c) /\ Speaks(m, c)
  BY <1>5, <1>8, <1>9 DEF IsCall, Plain, Speaks
<1>14. /\ c.st.last_pn = store[m].last_pn /\ c.st.accepted_pn = store[m].accepted_pn
       /\ b.st.last_pn = store[m].last_pn /\ b.st.accepted_pn = store[m].accepted_pn
       /\ c.epoch = epoch[m]
  BY <1>5, <1>8
<1>15. Return(m, b, n) \/ Return(m, c, n)
  BY <1>1, <1>4, <1>6, <1>7 DEF handle_lease_ack
<1>16. CASE Return(m, b, n)
  BY <1>2, <1>3, <1>5, <1>10, <1>12, <1>14, <1>16, LeaderContinues
<1>17. CASE Return(m, c, n)
  BY <1>2, <1>3, <1>11, <1>12, <1>13, <1>14, <1>17, LeaderContinues
<1> QED
  BY <1>15, <1>16, <1>17

(* The leader has taken the accept of from.                                 *)
LEMMA PairsAccepted ==
  ASSUME Inv, RoundInv, NEW m, NEW from, NEW msg, Hears(m, from, msg), msg.op = "accept",
         NEW n, n = Consumed(from, m), NEW A, NEW C, PairsOK(m, A, C, net),
         NEW B, \A j \in Others(m) \ {from} : j \in A => j \in B
  PROVE  PairsOK(m, B, C, n)
<1>1. /\ m \in Mon /\ from \in Mon /\ from # m
      /\ DropIs(n[from][m], net[from][m], 1) /\ Len(net[from][m]) >= 1
      /\ msg = net[from][m][1] /\ msg.epoch = View[m].epoch
      /\ \A i, j \in Mon : i # from \/ j # m => n[i][j] = net[i][j]
  BY HeadTaken
<1>2. PICK e, acc : e = View[m].epoch /\ acc = mem[m].accepted_pn
  OBVIOUS
<1> SUFFICES ASSUME NEW j \in Others(m)
             PROVE  PairOK(m, e, acc, B, C, j, View[j], mem[j].accepted_pn, n[m][j], n[j][m])
  BY <1>2 DEF PairsOK
<1>3. j \in Mon /\ j # m
  BY <1>1, OthersAre
<1>4. PICK w, a, q, r : w = View[j] /\ a = mem[j].accepted_pn /\ q = net[m][j] /\ r = net[j][m]
  OBVIOUS
<1>5. PairOK(m, e, acc, A, C, j, w, a, q, r)
  BY <1>2, <1>4 DEF PairsOK
<1>6. CASE j = from
  <2>1. PICK o : o = n[j][m]
    OBVIOUS
  <2>2. Len(r) >= 1 /\ Is(r[1], "accept", e) /\ DropIs(o, r, 1)
    BY <1>1, <1>2, <1>4, <1>6, <2>1 DEF Is
  <2>3. PairOK(m, e, acc, B, C, j, w, a, q, o)
    BY <1>5, <2>2, PairAccepted
  <2>4. n[m][j] = q
    BY <1>1, <1>3, <1>4
  <2> QED
    BY <1>4, <2>1, <2>3, <2>4
<1>7. CASE j # from
  <2>1. j \in A => j \in B
    BY <1>7
  <2>2. PairOK(m, e, acc, B, C, j, w, a, q, r)
    BY <1>5, <2>1, PairMore
  <2>3. n[m][j] = q /\ n[j][m] = r
    BY <1>1, <1>3, <1>4, <1>7
  <2> QED
    BY <1>4, <2>2, <2>3
<1> QED
  BY <1>6, <1>7

LEMMA AcceptRounds ==
  ASSUME Inv, Inv', RoundInv, NEW m, NEW from, NEW msg, Hears(m, from, msg),
         msg.op = "accept", handle_accept(m, from, msg)
  PROVE  RoundInv'
<1>1. PICK n : n = Consumed(from, m)
  OBVIOUS
<1>2. /\ m \in Mon /\ from \in Mon /\ from # m /\ Taken(n) /\ Len(net[from][m]) >= 1
      /\ msg = net[from][m][1] /\ msg.epoch = View[m].epoch
  BY <1>1, HeadTaken
<1>3. role[m] = "leader" /\ Leading(View[m]) /\ from \in Others(m)
  BY ReplyHeard DEF ReplyOp
<1>4. PICK b : b = Call(m)
  OBVIOUS
<1>5. /\ PlainCall(m, b) /\ IsCall(b) /\ IsMem(b.s) /\ Speaks(m, b) /\ Plain(b)
      /\ b.s = mem[m] /\ b.st = store[m] /\ b.epoch = epoch[m] /\ b.quorum = quorum[m]
  BY <1>2, <1>3, <1>4, LeaderCallRound DEF IsCall
<1>6. LocalOK(View[m], m, b.s, b.st)
  BY <1>2, <1>5, MemRound
<1>7. PICK C \in SUBSET Others(m) :
          CountOK(mem[m], C, Others(m)) /\ PairsOK(m, Awaited(mem[m]), C, net)
  BY <1>2, <1>3, RoundIs
<1>8. PICK A : A = Awaited(mem[m])
  OBVIOUS
<1>9. PairsOK(m, A, C, net)
  BY <1>7, <1>8
<1>10. from \in A
  <2>1. AcceptOK(View[m].epoch, A, from, net[from][m])
    BY <1>3, <1>9 DEF PairsOK, PairOK
  <2>2. 1 \in 1 .. Len(net[from][m]) /\ Is(net[from][m][1], "accept", View[m].epoch)
    <3>1. Len(net[from][m]) \in Nat
      BY <1>2, NetIs
    <3> QED
      BY <1>2, <3>1 DEF Is
  <2> QED
    BY <2>1, <2>2 DEF AcceptOK
<1>11. Updating(mem[m]) /\ from \notin mem[m].accepted
  BY <1>8, <1>10 DEF Awaited
<1>12. PICK c : c = [b EXCEPT !.s.accepted = @ \union {from}]
  OBVIOUS
<1>13. /\ DOMAIN c = {"s", "st", "epoch", "quorum", "sent"} /\ c.sent = b.sent
       /\ c.epoch = b.epoch /\ c.quorum = b.quorum /\ c.st = b.st
       /\ c.s = [b.s EXCEPT !.accepted = @ \union {from}]
  BY <1>5, <1>12 DEF IsCall
<1>14. /\ IsMem(c.s) /\ c.s.state = b.s.state /\ c.s.timers = b.s.timers
       /\ c.s.accepted_pn = b.s.accepted_pn /\ c.s.num_last = b.s.num_last
       /\ c.s.accepted = b.s.accepted \union {from} /\ c.s.new_value = b.s.new_value
       /\ c.s.last_committed = b.s.last_committed
  BY <1>5, <1>13 DEF IsMem
<1>15. PICK d : d = commit_start(c)
  OBVIOUS
<1>16. /\ DOMAIN d = {"s", "st", "epoch", "quorum", "sent"} /\ d.sent = b.sent
       /\ d.epoch = b.epoch /\ d.quorum = b.quorum /\ d.st = b.st
       /\ d.s = [c.s EXCEPT !.state = IF c.s.state = "updating" THEN "writing"
                                      ELSE "writing_previous",
                            !.timers = @ \ {"accept"}]
  BY <1>13, <1>15 DEF commit_start
<1>17. /\ IsMem(d.s) /\ d.s.state \in {"writing", "writing_previous"}
       /\ d.s.timers = b.s.timers \ {"accept"}
       /\ d.s.accepted_pn = b.s.accepted_pn /\ d.s.num_last = b.s.num_last
       /\ d.s.new_value = b.s.new_value
  BY <1>14, <1>16 DEF IsMem, State
<1>18. LocalOK(View[m], m, c.s, c.st)
  BY <1>6, <1>13, <1>14 DEF LocalOK, Updating, Writing
<1>19. LocalOK(View[m], m, d.s, d.st)
  <2>1. Writing(d.s) /\ b.s.state # "active" /\ d.st = b.st
    BY <1>5, <1>11, <1>16, <1>17 DEF Writing, Updating
  <2>2. {"lease_ack", "lease_renew"} \cap d.s.timers = {} /\ "accept" \notin d.s.timers
    BY <1>6, <1>17, <2>1 DEF LocalOK
  <2> QED
    BY <1>6, <1>17, <2>1, <2>2 DEF LocalOK
<1>20. /\ IsCall(c) /\ IsCall(d) /\ Plain(c) /\ Plain(d) /\ Speaks(m, c) /\ Speaks(m, d)
       /\ c.epoch = View[m].epoch /\ d.epoch = View[m].epoch
  <2>1. View[m].epoch = epoch[m]
    BY <1>2, ViewIs, AtFields
  <2> QED
    BY <1>5, <1>13, <1>14, <1>16, <1>17, <2>1 DEF IsCall, Plain, Speaks
<1>21. PICK acc : acc = mem[m].accepted_pn
  OBVIOUS
<1>22. Speech(c, View[m].epoch, acc) /\ Speech(d, View[m].epoch, acc)
  BY <1>20, PlainSpeech
<1>23. /\ c.s.accepted_pn = acc /\ d.s.accepted_pn = acc
       /\ c.st.last_pn = store[m].last_pn /\ c.st.accepted_pn = store[m].accepted_pn
       /\ d.st.last_pn = store[m].last_pn /\ d.st.accepted_pn = store[m].accepted_pn
  BY <1>5, <1>13, <1>14, <1>16, <1>17, <1>21
<1>24. CountOK(c.s, C, Others(m)) /\ CountOK(d.s, C, Others(m))
  <2>1. C = Others(m) /\ b.s.num_last = 1 + Cardinality(C)
    BY <1>5, <1>7, <1>11 DEF CountOK, Updating
  <2> QED
    BY <1>14, <1>17, <2>1 DEF CountOK
<1>25. CASE Return(m, b, n)
  <2>1. SameRound(mem[m], b.s)
    BY <1>5 DEF SameRound
  <2>2. b.st.last_pn = store[m].last_pn /\ b.st.accepted_pn = store[m].accepted_pn
    BY <1>5
  <2> QED
    BY <1>2, <1>3, <1>5, <1>6, <1>25, <2>1, <2>2, LeaderContinues
<1>26. CASE Return(m, c, n)
  <2>1. PICK B : B = Awaited(c.s)
    OBVIOUS
  <2>2. \A j \in Others(m) \ {from} : j \in A => j \in B
    BY <1>5, <1>8, <1>14, <2>1 DEF Awaited, Updating
  <2>3. PairsOK(m, B, C, n)
    BY <1>1, <1>9, <2>2, PairsAccepted
  <2>4. \A j \in Mon : \A k \in 1 .. Len(c.sent[j]) :
            c.sent[j][k].op = "begin" => j \in C /\ j \notin B /\ j \in Awaited(c.s)
    BY <1>20 DEF Plain
  <2> QED
    BY <1>2, <1>3, <1>18, <1>20, <1>21, <1>22, <1>23, <1>24, <1>26, <2>1, <2>3, <2>4, LeaderReturns
<1>27. CASE c.s.accepted = quorum[m] /\ Return(m, d, n)
  <2>1. PICK B : B = {}
    OBVIOUS
  <2>2. \A j \in Others(m) \ {from} : j \in A => j \in B
    <3>1. \A j \in Others(m) : j \in quorum[m]
      BY <1>2, ViewIs, AtFields DEF Others
    <3> QED
      BY <1>5, <1>8, <1>14, <1>27, <3>1 DEF Awaited
  <2>3. PairsOK(m, B, C, n)
    BY <1>1, <1>9, <2>2, PairsAccepted
  <2>4. \A j \in Mon : \A k \in 1 .. Len(d.sent[j]) :
            d.sent[j][k].op = "begin" => j \in C /\ j \notin B /\ j \in Awaited(d.s)
    BY <1>20 DEF Plain
  <2>5. \A j \in Others(m) : j \in B => j \in Awaited(d.s)
    BY <2>1
  <2> QED
    BY <1>2, <1>3, <1>19, <1>20, <1>21, <1>22, <1>23, <1>24, <1>27, <2>3, <2>4, <2>5, LeaderReturns
<1>28. \/ Return(m, b, n) \/ Return(m, c, n) \/ (c.s.accepted = quorum[m] /\ Return(m, d, n))
  BY <1>1, <1>4, <1>12, <1>15 DEF handle_accept
<1> QED
  BY <1>25, <1>26, <1>27, <1>28

(* A new number has not been seen by anyone.                                *)
LEMMA FreshIs ==
  ASSUME RoundInv, NEW m \in Mon, NEW pn, Fresh(m, store[m], pn)
  PROVE  \A x : Used(store, x) => x # pn
<1>1. pn % 100 \in Mon /\ store[pn % 100] = store[m] /\ pn > store[m].last_pn /\ pn \in Nat
  BY DEF Fresh
<1>2. store[m].last_pn \in Nat
  BY StoreNumbers
<1> QED
  BY <1>1, <1>2 DEF Used

LEMMA CollectPair ==
  ASSUME Inv, RoundInv, NEW m \in Mon, NEW j \in Mon, NEW pn, Fresh(m, store[m], pn),
         NEW n, Taken(n), NEW e, Absent(n[m][j], "begin", e), Absent(n[j][m], "accept", e),
         NEW t, NEW s, ConcatOf(t, n[m][j], s), VictoryOK(e, t), Absent(s, "begin", e),
         \A k \in 1 .. Len(s) : Is(s[k], "collect", e) => k = Len(s), NEW A
  PROVE  PairOK(m, e, pn, A, {}, j, View[j], mem[j].accepted_pn, t, n[j][m])
<1>1. \A x : Used(store, x) => x # pn
  BY FreshIs
<1>2. PICK w, a, q, r : w = View[j] /\ a = mem[j].accepted_pn /\ q = n[m][j] /\ r = n[j][m]
  OBVIOUS
<1>3. a # pn
  <2>1. Used(store, a)
    BY <1>2 DEF RoundInv, Rounds, NumbersOK
  <2> QED
    BY <1>1, <2>1
<1>4. SentOK(store, View[m], q) /\ SentOK(store, View[j], r)
  <2>1. SentOK(store, View[m], net[m][j]) /\ SentOK(store, View[j], net[j][m])
    BY DEF RoundInv, Rounds
  <2>2. Suffix(q, net[m][j]) /\ Suffix(r, net[j][m])
    BY <1>2 DEF Taken
  <2> QED
    BY <2>1, <2>2, SentDrop
<1>5. \A k \in 1 .. Len(q) : Is(q[k], "collect", e) => q[k].pn # pn
  BY <1>1, <1>4 DEF SentOK, Is
<1>6. \A k \in 1 .. Len(r) : Is(r[k], "last", e) => r[k].pn # pn
  BY <1>1, <1>4 DEF SentOK, Is
<1>7. PICK C : C = {}
  OBVIOUS
<1>8. j \notin C /\ Absent(q, "begin", e) /\ Absent(r, "accept", e) /\ ConcatOf(t, q, s)
  BY <1>2, <1>7
<1>9. PairOK(m, e, pn, A, C, j, w, a, t, r)
  BY <1>3, <1>5, <1>6, <1>8, PairCollects
<1> QED
  BY <1>2, <1>7, <1>9

(* What follows the words of a plain call is one collect.                   *)
CollectSaid(m, c, d, pn, j) ==
    \A k \in 1 .. Len(d.sent[j]) :
        \/ k \in 1 .. Len(c.sent[j]) /\ d.sent[j][k] = c.sent[j][k]
        \/ /\ j \in Peers(m, c) /\ k = Len(d.sent[j])
           /\ Is(d.sent[j][k], "collect", c.epoch) /\ d.sent[j][k].pn = pn

LEMMA CollectSays ==
  ASSUME NEW m, NEW c, IsCall(c), NEW d, NEW pn, Collects(m, c, d, pn), NEW j \in Mon
  PROVE  IsSeq(d.sent[j]) /\ CollectSaid(m, c, d, pn, j)
<1>1. IsSeq(d.sent[j]) /\ IsSeq(c.sent[j])
  BY DEF Collects, IsCall
<1>2. PICK msg : /\ msg.op = "collect" /\ msg.epoch = c.epoch /\ msg.pn = pn
                 /\ d.sent[j] = IF j \in Peers(m, c) THEN Append(c.sent[j], msg) ELSE c.sent[j]
  BY DEF Collects
<1>3. PICK q, t : q = c.sent[j] /\ t = d.sent[j]
  OBVIOUS
<1>4. CASE j \in Peers(m, c)
  <2>1. t = Append(q, msg)
    BY <1>2, <1>3, <1>4
  <2>2. \A k \in 1 .. Len(t) : (k \in 1 .. Len(q) /\ t[k] = q[k]) \/ (k = Len(t) /\ t[k] = msg)
    BY <1>1, <1>3, <2>1, AppendOf
  <2>3. Is(msg, "collect", c.epoch) /\ msg.pn = pn
    BY <1>2 DEF Is
  <2>4. \A k \in 1 .. Len(t) :
            \/ k \in 1 .. Len(q) /\ t[k] = q[k]
            \/ k = Len(t) /\ Is(t[k], "collect", c.epoch) /\ t[k].pn = pn
    BY <2>2, <2>3
  <2> QED
    BY <1>1, <1>3, <1>4, <2>4 DEF CollectSaid
<1>5. CASE j \notin Peers(m, c)
  BY <1>1, <1>2, <1>5 DEF CollectSaid
<1> QED
  BY <1>4, <1>5

(* A leader that has sent what c says, and collects with a new number.      *)
LEMMA LeaderCollects ==
  ASSUME Inv, Inv', RoundInv, NEW m \in Mon, Leading(View[m]), mem[m].state = "recovering",
         NEW n, Taken(n), NEW c, PlainCall(m, c), c.epoch = epoch[m], c.quorum = quorum[m],
         c.st.last_pn = store[m].last_pn, c.st.accepted_pn = store[m].accepted_pn,
         c.st.last_committed = c.s.last_committed, c.s.new_value = NoValue,
         c.s.timers = mem[m].timers,
         NEW pn, Fresh(m, c.st, pn), NEW d, Collects(m, c, d, pn), Return(m, d, n)
  PROVE  RoundInv'
<1>1. IsCall(c) /\ Plain(c) /\ Speaks(m, c) /\ IsCall(d)
  BY DEF PlainCall, LeaderCall, Collects
<1>2. /\ Carried(net, n, net', m, d.sent)
      /\ OthersStay(m, View, View', mem, mem', store, store')
      /\ View'[m] = View[m] /\ mem'[m] = d.s /\ store'[m] = d.st
  BY <1>1, ReturnRound
<1>3. PICK x, e : x = View[m] /\ e = View[m].epoch
  OBVIOUS
<1>4. /\ x \in Place /\ e \in Nat /\ e = epoch[m] /\ e % 2 = 0 /\ x.role = "leader"
      /\ View[m].quorum = quorum[m]
  BY <1>3, ViewIs, AtFields, Facts DEF Leading, InQuorum
<1>5. Fresh(m, store[m], pn)
  BY DEF Fresh
<1>6. ASSUME NEW j \in Mon
      PROVE  /\ IsSeq(d.sent[j])
             /\ \A k \in 1 .. Len(d.sent[j]) :
                   \/ d.sent[j][k].op \in {"commit", "lease"} /\ d.sent[j][k].epoch = e
                   \/ /\ j \in Others(m) /\ k = Len(d.sent[j])
                      /\ Is(d.sent[j][k], "collect", e) /\ d.sent[j][k].pn = pn
  <2>1. /\ IsSeq(d.sent[j])
        /\ \A k \in 1 .. Len(d.sent[j]) :
               \/ k \in 1 .. Len(c.sent[j]) /\ d.sent[j][k] = c.sent[j][k]
               \/ /\ j \in Peers(m, c) /\ k = Len(d.sent[j])
                  /\ Is(d.sent[j][k], "collect", c.epoch) /\ d.sent[j][k].pn = pn
    <3>1. IsSeq(d.sent[j]) /\ CollectSaid(m, c, d, pn, j)
      BY <1>1, CollectSays
    <3> QED
      BY <3>1 DEF CollectSaid
  <2>2. \A k \in 1 .. Len(c.sent[j]) :
            c.sent[j][k].op \in {"commit", "lease"} /\ c.sent[j][k].epoch = e
    BY <1>1, <1>4 DEF Plain, Speaks
  <2>3. Peers(m, c) = Others(m)
    BY <1>4 DEF Peers, Others
  <2> QED
    BY <1>4, <2>1, <2>2, <2>3
<1>7. PICK C : C \in SUBSET Others(m) /\ PairsOK(m, {}, C, n)
  <2>1. PICK C \in SUBSET Others(m) :
            CountOK(mem[m], C, Others(m)) /\ PairsOK(m, Awaited(mem[m]), C, net)
    BY RoundIs
  <2>2. PICK A : A = {}
    OBVIOUS
  <2>3. Awaited(mem[m]) = A
    BY <2>2, NoneAwaited DEF Updating
  <2>4. PairsOK(m, A, C, n)
    BY <2>1, <2>3, PairsTaken
  <2> QED
    BY <2>2, <2>4
<1>8. ASSUME NEW j \in Others(m)
      PROVE  /\ Absent(n[m][j], "begin", e) /\ Absent(n[j][m], "accept", e)
             /\ VictoryOK(e, n[m][j])
  <2>1. PICK A : A = {}
    OBVIOUS
  <2>2. BeginOK(e, A, j, n[m][j], n[j][m]) /\ AcceptOK(e, A, j, n[j][m]) /\ VictoryOK(e, n[m][j])
    BY <1>3, <1>7, <2>1 DEF PairsOK, PairOK
  <2> QED
    BY <2>1, <2>2 DEF BeginOK, AcceptOK, Absent
<1>9. ASSUME NEW j \in Mon PROVE ConcatOf(n[m][j] \o d.sent[j], n[m][j], d.sent[j])
  <2>1. PICK q, s : q = n[m][j] /\ s = d.sent[j]
    OBVIOUS
  <2>2. IsSeq(q) /\ IsSeq(s)
    BY <1>6, <2>1 DEF Taken
  <2> QED
    BY <2>1, <2>2, ConcatParts
<1>10. LeaderPart(View', mem', m, n, d.sent)
  <2>1. PICK D : D = {}
    OBVIOUS
  <2>2. D \in SUBSET Others(m) /\ CountOK(d.s, D, Others(m))
    BY <2>1, FS_EmptySet DEF CountOK, Collects
  <2>3. PICK A : A = Awaited(d.s)
    OBVIOUS
  <2>4. ASSUME NEW j \in Others(m)
        PROVE  PairOK(m, e, pn, A, {}, j, View[j], mem[j].accepted_pn,
                      n[m][j] \o d.sent[j], n[j][m])
    <3>1. j \in Mon
      BY OthersAre
    <3>2. PICK q, s, t : q = n[m][j] /\ s = d.sent[j] /\ t = n[m][j] \o d.sent[j]
      OBVIOUS
    <3>3. ConcatOf(t, q, s) /\ Absent(q, "begin", e) /\ VictoryOK(e, q)
      BY <1>8, <1>9, <3>1, <3>2
    <3>4. /\ Absent(s, "begin", e) /\ Absent(s, "victory", e)
          /\ \A k \in 1 .. Len(s) : Is(s[k], "collect", e) => k = Len(s)
      BY <1>6, <3>1, <3>2 DEF Absent, Is
    <3>5. VictoryOK(e, t)
      <4> SUFFICES ASSUME NEW k \in 1 .. Len(t), Is(t[k], "victory", e),
                          NEW h \in 1 .. Len(t), h < k
                   PROVE  ~Is(t[h], "collect", e)
        BY DEF VictoryOK
      <4>1. k \in 1 .. Len(q) /\ t[k] = q[k]
        BY <3>3, <3>4 DEF ConcatOf, Absent
      <4>2. h \in 1 .. Len(q) /\ t[h] = q[h]
        BY <3>3, <4>1 DEF ConcatOf
      <4> QED
        BY <3>3, <4>1, <4>2 DEF VictoryOK
    <3>6. Absent(n[m][j], "begin", e) /\ Absent(n[j][m], "accept", e) /\ ConcatOf(t, n[m][j], s)
      BY <1>8, <3>2, <3>3
    <3>7. PairOK(m, e, pn, A, {}, j, View[j], mem[j].accepted_pn, t, n[j][m])
      BY <1>5, <3>1, <3>4, <3>5, <3>6, CollectPair
    <3> QED
      BY <3>2, <3>7
  <2>5. d.s.accepted_pn = pn
    BY DEF Collects
  <2>6. \A j \in Others(m) : View'[j] = View[j] /\ mem'[j] = mem[j]
    BY <1>2, OthersAre DEF OthersStay
  <2>7. \A j \in Others(m) :
           PairOK(m, View'[m].epoch, mem'[m].accepted_pn, Awaited(mem'[m]), D, j,
                  View'[j], mem'[j].accepted_pn, n[m][j] \o d.sent[j], n[j][m])
    BY <1>2, <1>3, <2>1, <2>3, <2>4, <2>5, <2>6
  <2>8. View'[m].quorum \ {m} = Others(m)
    BY <1>2 DEF Others
  <2> QED
    BY <1>2, <2>2, <2>7, <2>8 DEF LeaderPart
<1>11. PICK b : b = d.s.accepted_pn
  OBVIOUS
<1>12. Bystands(m, x, b)
  <2> SUFFICES ASSUME NEW i \in Mon \ {m}, Leading(View[i])
               PROVE  ~Joined(x, i, View[i].epoch) /\ ~MayHear(x, i, View[i].epoch)
    BY DEF Bystands
  <2>1. View[i].epoch \in Nat /\ View[i].epoch % 2 = 0
    BY ViewIs, AtFields, Facts DEF Leading, InQuorum
  <2>2. x.epoch = e
    BY <1>3
  <2>3. x.epoch # View[i].epoch - 1
    BY <1>4, <2>1, <2>2
  <2> QED
    BY <1>4, <2>3 DEF Joined, MayHear
<1>13. Mute(d)
  BY <1>6 DEF Mute, Is
<1>14. PeerPart(View, mem, net, View'[m], mem'[m].accepted_pn, m, n, d.sent)
  BY <1>1, <1>2, <1>3, <1>11, <1>12, <1>13, PeerMoves
<1>15. Pledged(m, n, d)
  <2> SUFFICES ASSUME NEW j \in Mon \ {m}
               PROVE  PromiseOK(m, View[j], mem[j].accepted_pn, n[m][j] \o d.sent[j])
    BY DEF Pledged
  <2>1. PICK q, s, t : q = n[m][j] /\ s = d.sent[j] /\ t = n[m][j] \o d.sent[j]
    OBVIOUS
  <2>2. PICK w, a : w = View[j] /\ a = mem[j].accepted_pn
    OBVIOUS
  <2>3. PromiseOK(m, w, a, q) /\ ConcatOf(t, q, s)
    BY <1>9, <2>1, <2>2, TakenPromise
  <2>4. \A k \in 1 .. Len(q) : q[k].op = "begin" /\ q[k].epoch % 2 = 0 =>
            Absent(s, "collect", q[k].epoch) /\ Absent(s, "victory", q[k].epoch)
    <3> SUFFICES ASSUME NEW k \in 1 .. Len(q), q[k].op = "begin"
                 PROVE  Absent(s, "collect", q[k].epoch) /\ Absent(s, "victory", q[k].epoch)
      OBVIOUS
    <3>1. \A h \in 1 .. Len(s) : s[h].op # "victory"
      BY <1>6, <2>1 DEF Is
    <3>2. ASSUME NEW h \in 1 .. Len(s), Is(s[h], "collect", q[k].epoch) PROVE FALSE
      <4>1. j \in Others(m) /\ q[k].epoch = e
        BY <1>6, <2>1, <3>2 DEF Is
      <4>2. Absent(q, "begin", e)
        BY <1>8, <2>1, <4>1
      <4> QED
        BY <4>1, <4>2 DEF Absent, Is
    <3> QED
      BY <3>1, <3>2 DEF Absent, Is
  <2>5. \A k \in 1 .. Len(s) : s[k].op = "begin" /\ s[k].epoch % 2 = 0 =>
            Answered(m, s[k].epoch, s[k].pn, w, a, t)
    BY <1>6, <2>1 DEF Is
  <2>6. PromiseOK(m, w, a, t)
    BY <2>3, <2>4, <2>5, PromiseSpeaks
  <2> QED
    BY <2>1, <2>2, <2>6
<1>16. \A i, f : Joined(x, i, f) => Joined(View[m], i, f) /\ b = mem[m].accepted_pn
  BY <1>4 DEF Joined
<1>17. View'[m] = x /\ mem'[m].accepted_pn = b
  BY <1>2, <1>3, <1>11
<1>18. PromisePart(View', mem', m, n, d.sent)
  BY <1>2, <1>15, <1>16, <1>17, PromiseKept
<1>19. store[m].last_pn \in Nat /\ pn \in Nat /\ pn > store[m].last_pn /\ pn % 100 = m
  BY <1>5, StoreNumbers DEF Fresh
<1>20. store'[m].last_pn = pn /\ store[m].last_pn <= store'[m].last_pn
  BY <1>2, <1>19 DEF Collects
<1>21. Used(store', pn)
  BY <1>19, <1>20 DEF Used
<1>22. \A j \in Mon : SentOK(store', x, d.sent[j])
  <2>1. x.epoch = e
    BY <1>3
  <2> QED
    BY <1>4, <1>6, <1>21, <2>1 DEF SentOK, Is
<1>23. LocalOK(x, m, mem'[m], store'[m])
  <2>1. LocalOK(x, m, mem[m], store[m])
    BY <1>3, MemRound
  <2>2. /\ d.s.state = "recovering" /\ d.s.new_value = NoValue
        /\ d.s.timers = mem[m].timers \union {"collect"}
        /\ d.st.last_committed = d.s.last_committed /\ IsStore(d.st)
    BY DEF Collects
  <2>3. "accept" \notin mem[m].timers /\ {"lease_ack", "lease_renew"} \cap mem[m].timers = {}
    BY <2>1 DEF LocalOK, Updating
  <2>4. ~x.flushing
    BY <1>3 DEF Leading
  <2> QED
    BY <1>2, <1>19, <1>20, <2>1, <2>2, <2>3, <2>4 DEF LocalOK
<1>24. NumbersOK(store', mem'[m], store'[m])
  <2>1. Grown(store, store')
    BY <1>2, <1>19, <1>20, StoreNumbers DEF Grown, OthersStay
  <2>2. Used(store, store[m].accepted_pn)
    BY DEF RoundInv, Rounds, NumbersOK
  <2>3. Used(store', store[m].accepted_pn)
    BY <2>1, <2>2, UsedGrown
  <2>4. mem'[m].accepted_pn = pn /\ store'[m].accepted_pn = store[m].accepted_pn
    BY <1>2 DEF Collects
  <2> QED
    BY <1>21, <2>3, <2>4 DEF NumbersOK
<1>25. x.epoch >= View[m].epoch
  BY <1>3, <1>4
<1>26. RecordPart(store, View', mem', store', m, n, d.sent)
  BY <1>1, <1>2, <1>4, <1>17, <1>20, <1>22, <1>23, <1>24, <1>25, RecordsKept
<1> QED
  BY <1>2, <1>10, <1>14, <1>18, <1>26, NextRounds

(* The leader has counted the answer of from.                               *)
LEMMA PairsCounted ==
  ASSUME Inv, RoundInv, NEW m, NEW from, NEW msg, Hears(m, from, msg), msg.op = "last",
         msg.pn = mem[m].accepted_pn,
         NEW n, n = Consumed(from, m), NEW A, NEW C, PairsOK(m, A, C, net)
  PROVE  PairsOK(m, A, C \union {from}, n)
<1>1. /\ m \in Mon /\ from \in Mon /\ from # m
      /\ DropIs(n[from][m], net[from][m], 1) /\ Len(net[from][m]) >= 1
      /\ msg = net[from][m][1] /\ msg.epoch = View[m].epoch
      /\ \A i, j \in Mon : i # from \/ j # m => n[i][j] = net[i][j]
  BY HeadTaken
<1>2. PICK e, acc : e = View[m].epoch /\ acc = mem[m].accepted_pn
  OBVIOUS
<1>0. PICK D : D = C \union {from}
  OBVIOUS
<1> SUFFICES ASSUME NEW j \in Others(m)
             PROVE  PairOK(m, e, acc, A, D, j, View[j], mem[j].accepted_pn, n[m][j], n[j][m])
  BY <1>0, <1>2 DEF PairsOK
<1>3. j \in Mon /\ j # m
  BY <1>1, OthersAre
<1>4. PICK w, a, q, r : w = View[j] /\ a = mem[j].accepted_pn /\ q = net[m][j] /\ r = net[j][m]
  OBVIOUS
<1>5. PairOK(m, e, acc, A, C, j, w, a, q, r)
  BY <1>2, <1>4 DEF PairsOK
<1>6. CASE j = from
  <2>1. PICK o : o = n[j][m]
    OBVIOUS
  <2>2. Len(r) >= 1 /\ Is(r[1], "last", e) /\ r[1].pn = acc /\ DropIs(o, r, 1)
    BY <1>1, <1>2, <1>4, <1>6, <2>1 DEF Is
  <2>3. PairOK(m, e, acc, A, D, j, w, a, q, o)
    BY <1>5, <2>2, PairCounts
  <2>4. n[m][j] = q
    BY <1>1, <1>3, <1>4
  <2> QED
    BY <1>4, <2>1, <2>3, <2>4
<1>7. CASE j # from
  <2>1. (j \in D => j \in C) /\ (j \in A => j \in A)
    BY <1>0, <1>7
  <2>2. PairOK(m, e, acc, A, D, j, w, a, q, r)
    BY <1>5, <2>1, PairMore
  <2>3. n[m][j] = q /\ n[j][m] = r
    BY <1>1, <1>3, <1>4, <1>7
  <2> QED
    BY <1>4, <2>2, <2>3
<1> QED
  BY <1>6, <1>7

LEMMA MonFinite == IsFiniteSet(Mon)
<1>1. PICK h : h = N - 1
  OBVIOUS
<1>2. 0 \in Int /\ h \in Int
  BY <1>1, PaxosAssumption
<1>3. IsFiniteSet(0 .. h)
  BY <1>2, FS_Interval
<1> QED
  BY <1>1, <1>3 DEF Mon

LEMMA CountMore ==
  ASSUME NEW C \in SUBSET Mon, NEW x, x \notin C
  PROVE  Cardinality(C) \in Nat /\ Cardinality(C \union {x}) = Cardinality(C) + 1
<1>1. IsFiniteSet(C)
  BY MonFinite, FS_Subset
<1> QED
  BY <1>1, FS_AddElement, FS_CardinalityType

(* As many answers as there are peers are the answers of all.               *)
LEMMA CountAll ==
  ASSUME NEW Q \in SUBSET Mon, NEW m \in Q, NEW D \in SUBSET (Q \ {m}),
         1 + Cardinality(D) = Cardinality(Q)
  PROVE  D = Q \ {m}
<1>1. PICK P : P = Q \ {m}
  OBVIOUS
<1>2. IsFiniteSet(Q) /\ IsFiniteSet(P)
  <2>1. Q \in SUBSET Mon /\ P \in SUBSET Mon
    BY <1>1
  <2> QED
    BY <2>1, MonFinite, FS_Subset
<1>3. Cardinality(P) \in Nat /\ Cardinality(Q) \in Nat /\ Cardinality(D) \in Nat
  BY <1>1, <1>2, FS_Subset, FS_CardinalityType
<1>4. Cardinality(P) = Cardinality(Q) - 1
  BY <1>1, <1>2, FS_RemoveElement
<1>5. Cardinality(D) = Cardinality(P)
  BY <1>3, <1>4
<1>6. D \in SUBSET P
  BY <1>1
<1>7. D = P
  BY <1>2, <1>5, <1>6, FS_Subset
<1> QED
  BY <1>1, <1>7

LEMMA RetainsOn ==
  ASSUME NEW b, NEW c, Retains(b, c), NEW d, Retains(c, d)
  PROVE  Retains(b, d)
BY DEF Retains, SameRound

(* The answer is noted, and what it tells is stored and passed on.          *)
LEMMA LastCalls ==
  ASSUME Inv, RoundInv, NEW m, NEW from, NEW msg, Hears(m, from, msg), msg.op = "last",
         NEW b, b = Call(m),
         NEW noted, noted = [b EXCEPT !.s.peer_last_committed[from] = msg.last_committed],
         NEW c, c = update_peers(store_state(noted, msg.last_committed, msg.values))
  PROVE  /\ PlainCall(m, noted) /\ Retains(b, noted) /\ Continues(m, b, noted)
         /\ PlainCall(m, c) /\ Retains(b, c) /\ Continues(m, b, c)
<1>1. m \in Mon /\ from \in Mon
  BY DEF Hears
<1>2. role[m] = "leader" /\ from \in quorum[m] /\ from # m
  BY <1>1, Roles DEF Hears, ReplyOp
<1>3. /\ PlainCall(m, b) /\ IsCall(b) /\ IsMem(b.s) /\ LeaderCall(m, b) /\ Plain(b)
      /\ IsStore(b.st) /\ b.quorum = quorum[m]
  BY <1>1, <1>2, LeaderCallRound DEF IsCall, PlainCall
<1>4. /\ PlainCall(m, noted) /\ Retains(b, noted) /\ Continues(m, b, noted)
  <2>1. /\ DOMAIN noted = {"s", "st", "epoch", "quorum", "sent"} /\ noted.sent = b.sent
        /\ noted.epoch = b.epoch /\ noted.quorum = b.quorum /\ noted.st = b.st
        /\ noted.s = [b.s EXCEPT !.peer_last_committed[from] = msg.last_committed]
    BY <1>3 DEF IsCall
  <2>2. /\ IsMem(noted.s) /\ noted.s.state = b.s.state /\ noted.s.timers = b.s.timers
        /\ noted.s.accepted_pn = b.s.accepted_pn /\ noted.s.num_last = b.s.num_last
        /\ noted.s.accepted = b.s.accepted /\ noted.s.new_value = b.s.new_value
        /\ noted.s.last_committed = b.s.last_committed
        /\ \A p \in Mon \ {from} :
               noted.s.peer_last_committed[p] = b.s.peer_last_committed[p]
    BY <1>3, <2>1 DEF IsMem
  <2>3. LeaderMem(m, noted)
    BY <1>2, <1>3, <2>1, <2>2 DEF LeaderCall, LeaderMem
  <2>4. Continues(m, b, noted)
    BY <1>3, <2>1, <2>2, <2>3, SameSent
  <2>5. PlainCall(m, noted)
    BY <1>3, <2>1, <2>4, PlainSame
  <2>6. SameRound(b.s, noted.s)
    BY <2>2 DEF SameRound
  <2>7. Retains(b, noted)
    BY <1>3, <2>1, <2>2, <2>6 DEF Retains
  <2> QED
    BY <2>4, <2>5, <2>7
<1>5. PICK a : a = store_state(noted, msg.last_committed, msg.values)
  OBVIOUS
<1>6. IsCall(noted) /\ IsStore(noted.st) /\ LeaderCall(m, noted) /\ Plain(noted)
  BY <1>4 DEF PlainCall, LeaderCall
<1>7. Retains(noted, a)
  BY <1>5, <1>6, StoreRound
<1>8. Continues(m, noted, a) /\ a.sent = noted.sent
  <2>1. /\ DOMAIN a = {"s", "st", "epoch", "quorum", "sent"} /\ IsMem(a.s)
        /\ a.epoch = noted.epoch /\ a.quorum = noted.quorum /\ a.sent = noted.sent
        /\ a.s.state = noted.s.state /\ a.s.timers = noted.s.timers
        /\ a.s.peer_last_committed = noted.s.peer_last_committed
    <3>1. PICK lc, values : a = store_state(noted, lc, values)
      BY <1>5
    <3>2. IsCall(noted)
      BY <1>6
    <3> HIDE DEF IsMem
    <3> QED
      BY ONLY <3>1, <3>2, StoreState
  <2>2. LeaderMem(m, a)
    BY <1>6, <2>1 DEF LeaderCall, LeaderMem
  <2> QED
    BY <1>6, <2>1, <2>2, SameSent
<1>9. PlainCall(m, a)
  <2>1. Plain(a)
    BY <1>6, <1>8 DEF Plain
  <2> QED
    BY <1>7, <1>8, <2>1 DEF PlainCall, Continues, Retains
<1>10. c = update_peers(a)
  BY <1>5
<1>11. PlainCall(m, c) /\ Continues(m, a, c) /\ c.s = a.s /\ c.st = a.st
  BY <1>9, <1>10, UpdateRound
<1>12. Retains(a, c)
  <2>1. IsStore(a.st)
    BY <1>7 DEF Retains
  <2> QED
    BY <1>11, <2>1 DEF Retains, SameRound
<1>13. Retains(b, c)
  BY <1>4, <1>7, <1>12, RetainsOn
<1>14. Continues(m, b, c)
  BY <1>4, <1>8, <1>11, Onward
<1> QED
  BY <1>4, <1>11, <1>13, <1>14

(* Before it has counted the answer of from, the leader is recovering.      *)
LEMMA LastAwaited ==
  ASSUME Inv, RoundInv, NEW m, NEW from, NEW msg, Hears(m, from, msg), msg.op = "last"
  PROVE  /\ mem[m].state = "recovering" /\ msg.pn \in Nat
         /\ \E C \in SUBSET Others(m) :
               /\ from \notin C /\ mem[m].num_last = 1 + Cardinality(C)
               /\ PairsOK(m, {}, C, net)
<1>1. PICK n : n = Consumed(from, m)
  OBVIOUS
<1>2. /\ m \in Mon /\ from \in Mon /\ Len(net[from][m]) >= 1
      /\ msg = net[from][m][1] /\ msg.epoch = View[m].epoch
  BY <1>1, HeadTaken
<1>3. Leading(View[m]) /\ from \in Others(m)
  BY ReplyHeard DEF ReplyOp
<1>4. PICK C \in SUBSET Others(m) :
          CountOK(mem[m], C, Others(m)) /\ PairsOK(m, Awaited(mem[m]), C, net)
  BY <1>2, <1>3, RoundIs
<1>5. PICK A : A = Awaited(mem[m])
  OBVIOUS
<1>6. PairsOK(m, A, C, net)
  BY <1>4, <1>5
<1>7. 1 \in 1 .. Len(net[from][m]) /\ Is(net[from][m][1], "last", View[m].epoch)
  <2>1. Len(net[from][m]) \in Nat
    BY <1>2, NetIs
  <2> QED
    BY <1>2, <2>1 DEF Is
<1>8. from \notin C
  <2>1. CountedOK(m, View[m].epoch, mem[m].accepted_pn, C, from, View[from],
                  mem[from].accepted_pn, net[m][from], net[from][m])
    BY <1>3, <1>6 DEF PairsOK, PairOK
  <2> QED
    BY <1>7, <2>1 DEF CountedOK, Absent
<1>9. mem[m].state = "recovering" /\ mem[m].num_last = 1 + Cardinality(C)
  BY <1>3, <1>4, <1>8 DEF CountOK
<1>10. A = {}
  BY <1>5, <1>9, NoneAwaited DEF Updating
<1>11. msg.pn \in Nat
  <2>1. SentOK(store, View[from], net[from][m])
    BY <1>2 DEF RoundInv, Rounds
  <2> QED
    BY <1>2, <1>7, <2>1 DEF SentOK, Used
<1> QED
  BY <1>6, <1>8, <1>9, <1>10, <1>11

(* A leader gives up after the calls c.                                     *)
LEMMA LeaderLeaves ==
  ASSUME Inv, Inv', RoundInv, NEW m \in Mon, ~Writing(mem[m]), NEW n, Taken(n),
         NEW c, PlainCall(m, c), c.epoch = epoch[m], Retains(Call(m), c), bootstrap(m, c, n)
  PROVE  RoundInv'
<1>1. PICK b : b = Call(m)
  OBVIOUS
<1>2. b.s = mem[m] /\ b.st = store[m] /\ Retains(b, c)
  BY <1>1, CallRound
<1>3. LocalOK(View[m], m, mem[m], store[m])
  BY MemRound
<1>4. /\ c.s.accepted_pn = mem[m].accepted_pn /\ IsStore(c.st)
      /\ c.st.last_pn = store[m].last_pn /\ c.st.accepted_pn = store[m].accepted_pn
      /\ c.st.last_committed = c.s.last_committed
  BY <1>2, <1>3 DEF Retains, SameRound, LocalOK
<1>5. IsCall(c) /\ Plain(c) /\ Speaks(m, c)
  BY DEF PlainCall, LeaderCall
<1>6. PICK e \in Nat : e = epoch[m]
  BY Facts
<1>7. PICK r \in {"probing", "electing"} : r = "probing"
  OBVIOUS
<1>8. Leave(m, c, e, r, n)
  BY <1>6, <1>7 DEF bootstrap
<1>9. Evolves(At(m), Gone(e, r))
  BY <1>6, <1>7, AtFields, GoneIs DEF Evolves, InQuorum
<1>10. Mute(c) /\ Tame(c)
  BY <1>5 DEF Plain, Mute, Tame
<1>11. \A j \in Mon : \A k \in 1 .. Len(c.sent[j]) : c.sent[j][k].epoch <= e
  BY <1>5, <1>6 DEF Speaks
<1> QED
  BY <1>4, <1>5, <1>8, <1>9, <1>10, <1>11, LeaveRound

LEMMA LastRounds ==
  ASSUME Inv, Inv', RoundInv, NEW m, NEW from, NEW msg, Hears(m, from, msg), msg.op = "last",
         handle_last(m, from, msg)
  PROVE  RoundInv'
<1>1. PICK n : n = Consumed(from, m)
  OBVIOUS
<1>2. m \in Mon /\ Taken(n)
  BY <1>1, HeadTaken
<1>3. role[m] = "leader" /\ Leading(View[m]) /\ from \in Others(m)
  BY ReplyHeard DEF ReplyOp
<1>4. mem[m].state = "recovering" /\ msg.pn \in Nat
  BY LastAwaited
<1>5. PICK b : b = Call(m)
  OBVIOUS
<1>6. /\ IsCall(b) /\ b.s = mem[m] /\ b.st = store[m] /\ b.epoch = epoch[m] /\ b.quorum = quorum[m]
  BY <1>2, <1>5, CallRound
<1>7. PICK noted : noted = [b EXCEPT !.s.peer_last_committed[from] = msg.last_committed]
  OBVIOUS
<1>8. PICK c : c = update_peers(store_state(noted, msg.last_committed, msg.values))
  OBVIOUS
<1>9. /\ PlainCall(m, noted) /\ Retains(b, noted) /\ Continues(m, b, noted)
      /\ PlainCall(m, c) /\ Retains(b, c) /\ Continues(m, b, c)
  BY <1>5, <1>7, <1>8, LastCalls
<1>10. LocalOK(View[m], m, mem[m], store[m])
  BY <1>2, MemRound
<1>11. /\ ~Writing(mem[m]) /\ ~Updating(mem[m]) /\ mem[m].new_value = NoValue
       /\ "accept" \notin mem[m].timers /\ {"lease_ack", "lease_renew"} \cap mem[m].timers = {}
       /\ store[m].last_committed = mem[m].last_committed /\ store[m].last_pn \in Nat
  BY <1>4, <1>10 DEF LocalOK, Writing, Updating
<1>12. /\ SameRound(mem[m], c.s) /\ c.s.new_value = NoValue /\ c.s.timers = mem[m].timers
       /\ IsStore(c.st) /\ c.st.last_pn = store[m].last_pn
       /\ c.st.accepted_pn = store[m].accepted_pn
       /\ c.st.last_committed = c.s.last_committed
       /\ c.epoch = epoch[m] /\ c.quorum = quorum[m] /\ noted.epoch = epoch[m]
  BY <1>6, <1>9, <1>11 DEF Retains, Continues
<1>13. c.s.accepted_pn = mem[m].accepted_pn
  BY <1>12 DEF SameRound
<1>14. PICK d : d = [c EXCEPT !.s.num_last = @ + 1]
  OBVIOUS
<1>15. PICK l : l = learn_uncommitted(d, msg)
  OBVIOUS
<1>16. PICK f : f = collect(m, c, msg.pn)
  OBVIOUS
<1>17. PICK g : g = collected(m, l)
  OBVIOUS
<1>18. \/ bootstrap(m, noted, n) \/ bootstrap(m, c, n)
       \/ Return(m, f, n) \/ Return(m, c, n)
       \/ msg.pn = c.s.accepted_pn /\ l.s.num_last = Cardinality(l.quorum) /\ Return(m, g, n)
       \/ msg.pn = c.s.accepted_pn /\ l.s.num_last # Cardinality(l.quorum) /\ Return(m, l, n)
  BY <1>1, <1>5, <1>7, <1>8, <1>14, <1>15, <1>16, <1>17 DEF handle_last
<1>19. CASE bootstrap(m, noted, n) \/ bootstrap(m, c, n)
  <2>1. Retains(Call(m), noted) /\ Retains(Call(m), c)
    BY <1>5, <1>9
  <2>2. /\ m \in Mon /\ Taken(n) /\ ~Writing(mem[m]) /\ PlainCall(m, c) /\ PlainCall(m, noted)
        /\ c.epoch = epoch[m] /\ noted.epoch = epoch[m]
    BY <1>2, <1>9, <1>11, <1>12
  <2> QED
    BY <1>19, <2>1, <2>2, LeaderLeaves
<1>20. CASE Return(m, f, n)
  <2>1. IsCall(c)
    BY <1>9 DEF PlainCall, LeaderCall
  <2>2. c.st.last_pn \in Nat /\ c.s.accepted_pn \in Nat
    <3>1. NumbersOK(store, mem[m], store[m])
      BY <1>2 DEF RoundInv, Rounds
    <3> QED
      BY <1>11, <1>12, <1>13, <3>1 DEF NumbersOK, Used
  <2>3. PICK pn : Fresh(m, c.st, pn) /\ Collects(m, c, f, pn)
    BY <1>2, <1>4, <1>12, <1>16, <2>1, <2>2, CollectRound
  <2> QED
    BY <1>2, <1>3, <1>4, <1>9, <1>12, <1>20, <2>3, LeaderCollects
<1>21. LocalOK(View[m], m, c.s, c.st)
  <2>1. c.s.state = "recovering"
    BY <1>4, <1>12 DEF SameRound
  <2>2. c.st.last_pn \in Nat
    BY <1>11, <1>12
  <2>3. ~Writing(c.s) /\ ~View[m].flushing
    BY <1>3, <2>1 DEF Writing, Leading
  <2> QED
    BY <1>10, <1>11, <1>12, <2>2, <2>3 DEF LocalOK
<1>22. CASE Return(m, c, n)
  <2>1. IsCall(c) /\ Plain(c) /\ Speaks(m, c)
    BY <1>9 DEF PlainCall, LeaderCall
  <2> QED
    BY <1>2, <1>3, <1>12, <1>21, <1>22, <2>1, LeaderContinues
<1>23. ASSUME msg.pn = c.s.accepted_pn
       PROVE  /\ PlainCall(m, l) /\ Continues(m, b, l) /\ l.st = c.st
              /\ l.s.accepted_pn = mem[m].accepted_pn /\ l.s.num_last = c.s.num_last + 1
              /\ l.s.state = "recovering" /\ l.s.new_value = NoValue /\ l.s.timers = mem[m].timers
              /\ l.s.last_committed = c.s.last_committed
  <2>0. IsCall(c) /\ IsMem(c.s) /\ LeaderCall(m, c)
    BY <1>9 DEF PlainCall, LeaderCall, IsCall
  <2>1. /\ DOMAIN d = {"s", "st", "epoch", "quorum", "sent"} /\ d.sent = c.sent
        /\ d.epoch = c.epoch /\ d.quorum = c.quorum /\ d.st = c.st
        /\ d.s = [c.s EXCEPT !.num_last = @ + 1]
    BY <1>14, <2>0 DEF IsCall
  <2>2. /\ IsMem(d.s) /\ d.s.state = c.s.state /\ d.s.timers = c.s.timers
        /\ d.s.peer_last_committed = c.s.peer_last_committed
        /\ d.s.num_last = c.s.num_last + 1 /\ d.s.accepted_pn = c.s.accepted_pn
        /\ d.s.new_value = c.s.new_value /\ d.s.last_committed = c.s.last_committed
    BY <2>0, <2>1 DEF IsMem
  <2>3. LeaderMem(m, d)
    BY <2>0, <2>1, <2>2 DEF LeaderCall, LeaderMem
  <2>4. Continues(m, c, d)
    BY <2>0, <2>1, <2>2, <2>3, SameSent
  <2>5. PlainCall(m, d)
    BY <1>9, <2>1, <2>4, PlainSame
  <2>6. /\ PlainCall(m, l) /\ Continues(m, d, l) /\ l.st = d.st
        /\ SameRound(d.s, l.s) /\ l.s.new_value = d.s.new_value /\ l.s.timers = d.s.timers
        /\ l.s.last_committed = d.s.last_committed
    BY <1>15, <2>5, LearnRound
  <2>7. Continues(m, b, l)
    BY <1>9, <2>4, <2>6, Onward
  <2>8. /\ l.s.accepted_pn = d.s.accepted_pn /\ l.s.num_last = d.s.num_last
        /\ l.s.state = d.s.state
    BY <2>6 DEF SameRound
  <2>9. c.s.state = "recovering"
    BY <1>4, <1>12 DEF SameRound
  <2> QED
    BY <1>12, <1>13, <2>1, <2>2, <2>6, <2>7, <2>8, <2>9
<1>24. PICK C \in SUBSET Others(m) :
           from \notin C /\ mem[m].num_last = 1 + Cardinality(C) /\ PairsOK(m, {}, C, net)
  BY LastAwaited
<1>25. PICK D : D = C \union {from}
  OBVIOUS
<1>26. ASSUME msg.pn = c.s.accepted_pn
       PROVE  /\ D \in SUBSET Others(m) /\ PairsOK(m, {}, D, n)
              /\ l.s.num_last = 1 + Cardinality(D)
  <2>1. D \in SUBSET Others(m)
    BY <1>3, <1>24, <1>25
  <2>2. msg.pn = mem[m].accepted_pn
    BY <1>13, <1>26
  <2>3. PICK A : A = {}
    OBVIOUS
  <2>4. PairsOK(m, A, C, net)
    BY <1>24, <2>3
  <2>5. PairsOK(m, A, D, n)
    BY <1>1, <1>25, <2>2, <2>4, PairsCounted
  <2>6. C \in SUBSET Mon
    BY <1>2, <1>24, OthersAre
  <2>7. Cardinality(C) \in Nat /\ Cardinality(D) = Cardinality(C) + 1
    BY <1>24, <1>25, <2>6, CountMore
  <2>8. l.s.num_last = mem[m].num_last + 1
    BY <1>12, <1>23, <1>26 DEF SameRound
  <2> QED
    BY <1>24, <2>1, <2>3, <2>5, <2>7, <2>8
<1>27. CASE msg.pn = c.s.accepted_pn /\ l.s.num_last = Cardinality(l.quorum) /\ Return(m, g, n)
  <2>1. /\ PlainCall(m, l) /\ Continues(m, b, l) /\ l.st = c.st
        /\ l.s.accepted_pn = mem[m].accepted_pn
        /\ l.s.new_value = NoValue /\ l.s.timers = mem[m].timers
        /\ l.s.last_committed = c.s.last_committed
    BY <1>23, <1>27
  <2>2. RoundEnds(m, l, g)
    BY <1>11, <1>12, <1>17, <2>1, CollectedRound
  <2>3. l.epoch = epoch[m] /\ l.quorum = quorum[m]
    BY <1>6, <2>1 DEF Continues
  <2>4. D = Others(m)
    <3>1. View[m].quorum = quorum[m] /\ quorum[m] \in SUBSET Mon
      BY <1>2, ViewIs, AtFields, Facts
    <3>2. m \in quorum[m]
      BY <1>3, <1>10, <3>1 DEF LocalOK, Leading
    <3>3. Others(m) = quorum[m] \ {m}
      BY <3>1 DEF Others
    <3>4. PICK Q \in SUBSET Mon : Q = quorum[m]
      BY <3>1
    <3>5. D \in SUBSET (Q \ {m}) /\ 1 + Cardinality(D) = Cardinality(Q) /\ m \in Q
      BY <1>26, <1>27, <2>3, <3>2, <3>3, <3>4
    <3> QED
      BY <3>3, <3>4, <3>5, CountAll
  <2>5. PairsOK(m, {}, Others(m), n) /\ l.s.num_last = 1 + Cardinality(Others(m))
    BY <1>26, <1>27, <2>4
  <2>6. l.st.last_pn = store[m].last_pn /\ l.st.accepted_pn = store[m].accepted_pn
    BY <1>12, <2>1
  <2> QED
    BY <1>2, <1>3, <1>27, <2>1, <2>2, <2>3, <2>5, <2>6, LeaderEndsRound
<1>28. CASE msg.pn = c.s.accepted_pn /\ l.s.num_last # Cardinality(l.quorum) /\ Return(m, l, n)
  <2>1. /\ PlainCall(m, l) /\ Continues(m, b, l) /\ l.st = c.st
        /\ l.s.accepted_pn = mem[m].accepted_pn /\ l.s.state = "recovering"
        /\ l.s.new_value = NoValue /\ l.s.timers = mem[m].timers
        /\ l.s.last_committed = c.s.last_committed
    BY <1>23, <1>28
  <2>2. /\ IsCall(l) /\ Plain(l) /\ Speaks(m, l)
    BY <2>1 DEF PlainCall, LeaderCall
  <2>3. View[m].epoch = epoch[m]
    BY <1>2, ViewIs, AtFields
  <2>4. l.epoch = View[m].epoch
    BY <1>6, <2>1, <2>3 DEF Continues
  <2>5. Speech(l, View[m].epoch, mem[m].accepted_pn)
    BY <2>2, <2>4, PlainSpeech
  <2>6. LocalOK(View[m], m, l.s, l.st)
    <3>1. ~Writing(l.s) /\ ~View[m].flushing
      BY <1>3, <2>1 DEF Writing, Leading
    <3> QED
      BY <1>11, <1>12, <1>21, <2>1, <3>1 DEF LocalOK
  <2>7. CountOK(l.s, D, Others(m))
    BY <1>26, <1>28, <2>1 DEF CountOK
  <2>8. PICK A : A = {}
    OBVIOUS
  <2>9. D \in SUBSET Others(m) /\ PairsOK(m, A, D, n)
    BY <1>26, <1>28, <2>8
  <2>10. \A j \in Others(m) : j \in A => j \in Awaited(l.s)
    BY <2>8
  <2>11. \A j \in Mon : \A k \in 1 .. Len(l.sent[j]) :
            l.sent[j][k].op = "begin" => j \in D /\ j \notin A /\ j \in Awaited(l.s)
    BY <2>2 DEF Plain
  <2>12. l.st.last_pn = store[m].last_pn /\ l.st.accepted_pn = store[m].accepted_pn
    BY <1>12, <2>1
  <2> QED
    BY <1>2, <1>3, <1>28, <2>1, <2>2, <2>5, <2>6, <2>7, <2>9, <2>10, <2>11, <2>12, LeaderReturns
<1> QED
  BY <1>18, <1>19, <1>20, <1>22, <1>27, <1>28

----------------------------------------------------------------------------
(* What a peon hears from its leader.                                       *)

LEMMA PeonHeard ==
  ASSUME Inv, NEW m, NEW from, NEW msg, Hears(m, from, msg), msg.op \in LeaderOp
  PROVE  /\ role[m] = "peon" /\ ~Leading(View[m]) /\ Joined(View[m], from, View[m].epoch)
         /\ View[m].role = "peon" /\ View[m].leader = from /\ View[m].epoch = epoch[m]
         /\ epoch[m] \in Nat /\ epoch[m] % 2 = 0
<1>1. /\ m \in Mon /\ from \in Mon /\ net[from][m] # <<>> /\ msg = Head(net[from][m])
      /\ msg.epoch = epoch[m] /\ ~flushing[m]
  BY DEF Hears
<1>2. role[m] = "peon" /\ leader[m] = from /\ epoch[m] \in Nat /\ epoch[m] % 2 = 0
  BY <1>1, Roles
<1>3. View[m].role = role[m] /\ View[m].leader = leader[m] /\ View[m].epoch = epoch[m]
  BY <1>1, ViewIs, AtFields
<1> QED
  BY <1>2, <1>3 DEF Leading, Joined

LEMMA PeonLocal ==
  ASSUME Inv, RoundInv, NEW m \in Mon, role[m] = "peon", NEW s, NEW st,
         s.timers = {"lease"}, ~Writing(s), st.last_committed = s.last_committed,
         s.new_value = mem[m].new_value, IsStore(st), st.last_pn = store[m].last_pn
  PROVE  LocalOK(View[m], m, s, st)
<1>1. View[m].role = "peon"
  BY ViewIs, AtFields
<1>2. LocalOK(View[m], m, mem[m], store[m])
  BY MemRound
<1>3. ~View[m].flushing
  <2>1. flushing[m] => role[m] = "leader"
    BY Facts
  <2>2. View[m].flushing = flushing[m]
    BY ViewIs, AtFields
  <2> QED
    BY <2>1, <2>2
<1>4. s.new_value = NoValue
  BY <1>1, <1>2 DEF LocalOK
<1>5. {"lease_ack", "lease_renew"} \cap s.timers = {} /\ "accept" \notin s.timers
  OBVIOUS
<1> QED
  BY <1>1, <1>2, <1>3, <1>4, <1>5 DEF LocalOK

(* m keeps its number, and says nothing that matters to a round.            *)
LEMMA PeonStays ==
  ASSUME Inv, Inv', RoundInv, NEW m \in Mon, ~Leading(View[m]), NEW n, Taken(n),
         NEW c, IsCall(c), Mute(c), Tame(c), Return(m, c, n),
         c.s.accepted_pn = mem[m].accepted_pn, c.st.last_pn = store[m].last_pn,
         c.st.accepted_pn = store[m].accepted_pn, LocalOK(View[m], m, c.s, c.st),
         \A j \in Mon : \A k \in 1 .. Len(c.sent[j]) : c.sent[j][k].epoch <= View[m].epoch
  PROVE  RoundInv'
<1>1. /\ Carried(net, n, net', m, c.sent)
      /\ OthersStay(m, View, View', mem, mem', store, store')
      /\ View'[m] = View[m] /\ mem'[m] = c.s /\ store'[m] = c.st
  BY ReturnRound
<1>2. LeaderPart(View', mem', m, n, c.sent)
  BY <1>1 DEF LeaderPart
<1>3. Pledged(m, n, c)
  BY TamePledged
<1>4. \A j \in Mon : SentOK(store', View[m], c.sent[j])
  BY DEF SentOK, Mute, Tame
<1>5. /\ mem'[m].accepted_pn = mem[m].accepted_pn /\ store'[m].last_pn = store[m].last_pn
      /\ store'[m].accepted_pn = store[m].accepted_pn
      /\ LocalOK(View[m], m, mem'[m], store'[m])
  BY <1>1
<1> QED
  BY <1>1, <1>2, <1>3, <1>4, <1>5, StayRound

LEMMA CommitRounds ==
  ASSUME Inv, Inv', RoundInv, NEW m, NEW from, NEW msg, Hears(m, from, msg), msg.op = "commit",
         handle_commit(m, from, msg)
  PROVE  RoundInv'
<1>1. PICK n : n = Consumed(from, m)
  OBVIOUS
<1>2. m \in Mon /\ Taken(n)
  BY <1>1, HeadTaken
<1>3. role[m] = "peon" /\ ~Leading(View[m])
  BY PeonHeard DEF LeaderOp
<1>4. PICK c : c = Call(m)
  OBVIOUS
<1>5. /\ IsCall(c) /\ c.s = mem[m] /\ c.st = store[m] /\ IsStore(c.st)
      /\ \A j \in Mon : c.sent[j] = <<>>
  BY <1>2, <1>4, CallRound
<1>6. PICK d : d = store_state(c, msg.last_committed, msg.values)
  OBVIOUS
<1>7. Retains(c, d)
  BY <1>5, <1>6, StoreRound
<1>8. /\ DOMAIN d = {"s", "st", "epoch", "quorum", "sent"} /\ IsMem(d.s) /\ d.sent = c.sent
  BY <1>5, <1>6, StoreState
<1>9. IsCall(d) /\ \A j \in Mon : d.sent[j] = <<>>
  BY <1>5, <1>8 DEF IsCall
<1>10. /\ Mute(d) /\ Tame(d)
       /\ \A e : \A j \in Mon : \A k \in 1 .. Len(d.sent[j]) : d.sent[j][k].epoch <= e
  BY <1>9, Silent
<1>11. mem[m].timers = {"lease"} /\ ~Writing(mem[m])
  BY <1>2, <1>3, PeonWaits
<1>12. store[m].last_committed = mem[m].last_committed
  BY <1>2, <1>11, MemRound DEF LocalOK
<1>13. /\ d.s.timers = {"lease"} /\ ~Writing(d.s) /\ d.st.last_committed = d.s.last_committed
       /\ d.s.new_value = mem[m].new_value /\ IsStore(d.st) /\ d.st.last_pn = store[m].last_pn
       /\ d.s.accepted_pn = mem[m].accepted_pn /\ d.st.accepted_pn = store[m].accepted_pn
  BY <1>5, <1>7, <1>11, <1>12 DEF Retains, SameRound, Writing
<1>14. LocalOK(View[m], m, d.s, d.st)
  BY <1>2, <1>3, <1>13, PeonLocal
<1>15. Return(m, d, n)
  BY <1>1, <1>4, <1>6 DEF handle_commit
<1> QED
  BY <1>2, <1>3, <1>9, <1>10, <1>13, <1>14, <1>15, PeonStays

(* A peon answers its leader, and no one else.                              *)
Answers(c, from, reply) ==
    \A j \in Mon : c.sent[j] = IF j = from THEN <<reply>> ELSE <<>>

LEMMA AnswersIs ==
  ASSUME NEW c, NEW from, NEW reply, Answers(c, from, reply), NEW j \in Mon,
         NEW k \in 1 .. Len(c.sent[j])
  PROVE  j = from /\ k = 1 /\ Len(c.sent[j]) = 1 /\ c.sent[j][k] = reply
<1>1. CASE j = from
  <2>1. c.sent[j] = <<reply>>
    BY <1>1 DEF Answers
  <2>2. Len(c.sent[j]) = 1 /\ c.sent[j][1] = reply
    BY <2>1
  <2> QED
    BY <1>1, <2>2
<1>2. CASE j # from
  <2>1. c.sent[j] = <<>>
    BY <1>2 DEF Answers
  <2>2. Len(c.sent[j]) = 0
    BY <2>1
  <2> QED
    BY <2>2
<1> QED
  BY <1>1, <1>2

LEMMA Replies ==
  ASSUME NEW c, IsCall(c), \A j \in Mon : c.sent[j] = <<>>, NEW from \in Mon, NEW reply
  PROVE  LET d == SendTo(c, {from}, reply) IN
         /\ IsCall(d) /\ d.s = c.s /\ d.st = c.st /\ Answers(d, from, reply)
<1>1. PICK d : d = SendTo(c, {from}, reply)
  OBVIOUS
<1>2. PICK dest : dest = {from}
  OBVIOUS
<1>3. d = SendTo(c, dest, reply)
  BY <1>1, <1>2
<1>4. /\ IsCall(d) /\ d.s = c.s /\ d.st = c.st
      /\ \A j \in Mon : d.sent[j] = IF j \in dest THEN Append(c.sent[j], reply) ELSE c.sent[j]
  BY <1>3, SentTo
<1>5. Append(<<>>, reply) = <<reply>>
  OBVIOUS
<1>6. Answers(d, from, reply)
  BY <1>2, <1>4, <1>5 DEF Answers
<1> QED
  BY <1>1, <1>4, <1>6

LEMMA LeaseRounds ==
  ASSUME Inv, Inv', RoundInv, NEW m, NEW from, NEW msg, Hears(m, from, msg), msg.op = "lease",
         handle_lease(m, from, msg)
  PROVE  RoundInv'
<1>1. PICK n : n = Consumed(from, m)
  OBVIOUS
<1>2. m \in Mon /\ from \in Mon /\ Taken(n)
  BY <1>1, HeadTaken
<1>3. /\ role[m] = "peon" /\ ~Leading(View[m]) /\ View[m].epoch = epoch[m] /\ epoch[m] \in Nat
  BY PeonHeard DEF LeaderOp
<1>4. PICK c : c = Call(m)
  OBVIOUS
<1>5. /\ IsCall(c) /\ c.s = mem[m] /\ c.st = store[m] /\ IsStore(c.st) /\ c.epoch = epoch[m]
      /\ \A j \in Mon : c.sent[j] = <<>>
  BY <1>2, <1>4, CallRound
<1>6. mem[m].timers = {"lease"} /\ ~Writing(mem[m])
  BY <1>2, <1>3, PeonWaits
<1>7. store[m].last_committed = mem[m].last_committed
  BY <1>2, <1>6, MemRound DEF LocalOK
<1>8. CASE Return(m, c, n)
  <2>1. /\ Mute(c) /\ Tame(c)
        /\ \A e : \A j \in Mon : \A k \in 1 .. Len(c.sent[j]) : c.sent[j][k].epoch <= e
    BY <1>5, Silent
  <2>2. LocalOK(View[m], m, c.s, c.st)
    BY <1>2, <1>5, MemRound
  <2>3. /\ c.s.accepted_pn = mem[m].accepted_pn /\ c.st.last_pn = store[m].last_pn
        /\ c.st.accepted_pn = store[m].accepted_pn
    BY <1>5
  <2> QED
    BY <1>2, <1>3, <1>5, <1>8, <2>1, <2>2, <2>3, PeonStays
<1>9. CASE ~Return(m, c, n)
  <2>1. PICK d, reply :
            /\ d = [c EXCEPT !.s.lease = TRUE, !.s.state = "active",
                             !.s.timers = @ \union {"lease"}]
            /\ reply.op = "lease_ack" /\ reply.epoch = c.epoch
            /\ Return(m, SendTo(d, {from}, reply), n)
    BY <1>1, <1>4, <1>9 DEF handle_lease
  <2>2. /\ DOMAIN d = {"s", "st", "epoch", "quorum", "sent"} /\ d.sent = c.sent /\ d.st = c.st
        /\ d.s = [c.s EXCEPT !.lease = TRUE, !.state = "active", !.timers = @ \union {"lease"}]
    BY <1>5, <2>1 DEF IsCall
  <2>3. /\ IsMem(d.s) /\ d.s.state = "active" /\ d.s.timers = {"lease"}
        /\ d.s.accepted_pn = c.s.accepted_pn /\ d.s.new_value = c.s.new_value
        /\ d.s.last_committed = c.s.last_committed
    BY <1>5, <1>6, <2>2 DEF IsCall, IsMem, State
  <2>4. IsCall(d) /\ \A j \in Mon : d.sent[j] = <<>>
    BY <1>5, <2>2, <2>3 DEF IsCall
  <2>5. PICK f : f = SendTo(d, {from}, reply)
    OBVIOUS
  <2>6. IsCall(f) /\ f.s = d.s /\ f.st = d.st /\ Answers(f, from, reply)
    BY <1>2, <2>4, <2>5, Replies
  <2>7. \A j \in Mon : \A k \in 1 .. Len(f.sent[j]) : f.sent[j][k] = reply
    BY <2>6, AnswersIs
  <2>8. /\ Mute(f) /\ Tame(f)
        /\ \A j \in Mon : \A k \in 1 .. Len(f.sent[j]) : f.sent[j][k].epoch <= View[m].epoch
    BY <1>3, <1>5, <2>1, <2>7 DEF Mute, Tame
  <2>9. LocalOK(View[m], m, f.s, f.st)
    <3>1. /\ f.s.timers = {"lease"} /\ f.st.last_committed = f.s.last_committed
          /\ f.s.new_value = mem[m].new_value /\ IsStore(f.st) /\ f.st.last_pn = store[m].last_pn
      BY <1>5, <1>7, <2>2, <2>3, <2>6
    <3>2. ~Writing(f.s)
      BY <2>3, <2>6 DEF Writing
    <3> QED
      BY <1>2, <1>3, <3>1, <3>2, PeonLocal
  <2>10. /\ f.s.accepted_pn = mem[m].accepted_pn /\ f.st.last_pn = store[m].last_pn
         /\ f.st.accepted_pn = store[m].accepted_pn /\ Return(m, f, n)
    BY <1>5, <2>1, <2>2, <2>3, <2>5, <2>6
  <2> QED
    BY <1>2, <1>3, <2>6, <2>8, <2>9, <2>10, PeonStays
<1> QED
  BY <1>8, <1>9

(* What the leader of m sees of an answer is all that any leader sees.      *)
LEMMA PeonPart ==
  ASSUME Inv, NEW m, NEW from, NEW msg, Hears(m, from, msg), msg.op \in LeaderOp,
         NEW n, n = Consumed(from, m), NEW c, IsCall(c), NEW b, NEW reply,
         Answers(c, from, reply), reply.epoch = View[m].epoch,
         \A acc, A, C :
             PairOK(from, View[m].epoch, acc, A, C, m, View[m], mem[m].accepted_pn,
                    net[from][m], net[m][from]) =>
             PairOK(from, View[m].epoch, acc, A, C, m, View[m], b,
                    n[from][m], n[m][from] \o c.sent[from])
  PROVE  PeerPart(View, mem, net, View[m], b, m, n, c.sent)
<1>1. /\ m \in Mon /\ from \in Mon /\ from # m /\ Taken(n)
  BY HeadTaken
<1>2. View[m].role = "peon" /\ View[m].leader = from
  BY PeonHeard
<1> SUFFICES ASSUME NEW i \in Mon \ {m}, Leading(View[i]), m \in View[i].quorum, NEW C,
                    PairOK(i, View[i].epoch, mem[i].accepted_pn, Awaited(mem[i]), C, m,
                           View[m], mem[m].accepted_pn, net[i][m], net[m][i])
             PROVE  PairOK(i, View[i].epoch, mem[i].accepted_pn, Awaited(mem[i]), C, m,
                           View[m], b, n[i][m], n[m][i] \o c.sent[i])
  BY DEF PeerPart
<1>3. CASE i = from /\ View[i].epoch = View[m].epoch
  BY <1>3
<1>4. CASE i # from \/ View[i].epoch # View[m].epoch
  <2>1. PICK q, r, e, w, a, acc, A :
          /\ q = n[i][m] /\ r = n[m][i] /\ e = View[i].epoch /\ w = View[m]
          /\ a = mem[m].accepted_pn /\ acc = mem[i].accepted_pn /\ A = Awaited(mem[i])
    OBVIOUS
  <2>2. Suffix(q, net[i][m]) /\ Suffix(r, net[m][i]) /\ IsSeq(r) /\ IsSeq(c.sent[i])
    BY <1>1, <2>1 DEF Taken, IsCall
  <2>3. PairOK(i, e, acc, A, C, m, w, a, q, r)
    BY <2>1, <2>2, PairSuffix
  <2>4. ~Joined(w, i, e) /\ ~MayHear(w, i, e)
    BY <1>2, <1>4, <2>1 DEF Joined, MayHear
  <2>5. PICK t, s : t = r \o c.sent[i] /\ s = c.sent[i]
    OBVIOUS
  <2>6. ConcatOf(t, r, s)
    BY <2>2, <2>5, ConcatParts
  <2>7. ASSUME NEW k \in 1 .. Len(s) PROVE i = from /\ s[k] = reply
    BY <2>5, AnswersIs
  <2>8. Absent(s, "last", e) /\ Absent(s, "accept", e)
    BY <1>4, <2>1, <2>7 DEF Absent, Is
  <2>9. PairOK(i, e, acc, A, C, m, w, b, q, t)
    BY <2>3, <2>4, <2>6, <2>8, PairMoves
  <2> QED
    BY <2>1, <2>5, <2>9
<1> QED
  BY <1>3, <1>4

(* A begin that comes after a collect of another epoch says nothing about   *)
(* the number of m.                                                         *)
LEMMA PeonPromise ==
  ASSUME Inv, RoundInv, NEW m, NEW from, NEW msg, Hears(m, from, msg), msg.op = "collect",
         NEW n, n = Consumed(from, m), NEW b, NEW j \in Mon \ {m}
  PROVE  PromiseOK(j, View[m], b, n[j][m])
<1>1. /\ m \in Mon /\ from \in Mon /\ from # m /\ Taken(n)
      /\ DropIs(n[from][m], net[from][m], 1) /\ Len(net[from][m]) >= 1
      /\ msg = net[from][m][1] /\ msg.epoch = View[m].epoch
      /\ \A i, l \in Mon : i # from \/ l # m => n[i][l] = net[i][l]
  BY HeadTaken
<1>2. View[m].role = "peon" /\ View[m].leader = from
  BY PeonHeard DEF LeaderOp
<1>3. PICK q, w, a : q = net[j][m] /\ w = View[m] /\ a = mem[m].accepted_pn
  OBVIOUS
<1>4. PromiseOK(j, w, a, q)
  BY <1>1, <1>3 DEF RoundInv, Rounds
<1>5. ASSUME NEW k \in 1 .. Len(q), q[k].op = "begin", q[k].epoch % 2 = 0
      PROVE  ~Joined(w, j, q[k].epoch)
  <2>1. Answered(j, q[k].epoch, q[k].pn, w, a, q)
    BY <1>4, <1>5 DEF PromiseOK
  <2> SUFFICES ASSUME Joined(w, j, q[k].epoch) PROVE FALSE
    OBVIOUS
  <2>2. j = from /\ q[k].epoch = View[m].epoch
    BY <1>2, <1>3 DEF Joined
  <2>3. 1 \in 1 .. Len(q) /\ Is(q[1], "collect", q[k].epoch)
    <3>1. Len(q) \in Nat
      BY <1>1, <1>3, NetIs
    <3> QED
      BY <1>1, <1>3, <2>2, <3>1 DEF Is
  <2> QED
    BY <2>1, <2>3 DEF Answered, Absent
<1>6. PromiseOK(j, w, b, q)
  BY <1>4, <1>5 DEF PromiseOK, Answered
<1>7. CASE j = from
  BY <1>1, <1>3, <1>6, <1>7, PromiseDrop
<1>8. CASE j # from
  BY <1>1, <1>3, <1>6, <1>8
<1> QED
  BY <1>7, <1>8

LEMMA PeonAnswers ==
  ASSUME Inv, Inv', RoundInv, NEW m, NEW from, NEW msg, Hears(m, from, msg),
         msg.op \in LeaderOp, NEW n, n = Consumed(from, m),
         NEW c, IsCall(c), Return(m, c, n), NEW b, c.s.accepted_pn = b, NEW reply,
         Answers(c, from, reply), reply.op \in {"last", "accept"}, reply.epoch = View[m].epoch,
         reply.op = "last" => Used(store, reply.pn), Used(store, b),
         c.st.last_pn = store[m].last_pn, Used(store, c.st.accepted_pn),
         LocalOK(View[m], m, c.s, c.st),
         PeerPart(View, mem, net, View[m], b, m, n, c.sent),
         \A j \in Mon \ {m} : PromiseOK(j, View[m], b, n[j][m])
  PROVE  RoundInv'
<1>1. m \in Mon /\ Taken(n) /\ ~Leading(View[m])
  BY HeadTaken, PeonHeard
<1>2. /\ Carried(net, n, net', m, c.sent)
      /\ OthersStay(m, View, View', mem, mem', store, store')
      /\ View'[m] = View[m] /\ mem'[m] = c.s /\ store'[m] = c.st
  BY <1>1, ReturnRound
<1>3. LeaderPart(View', mem', m, n, c.sent)
  BY <1>1, <1>2 DEF LeaderPart
<1>4. \A j \in Mon : \A k \in 1 .. Len(c.sent[j]) : c.sent[j][k] = reply
  BY AnswersIs
<1>5. Tame(c)
  BY <1>4 DEF Tame
<1>6. Pledged(m, n, c)
  BY <1>1, <1>5, TamePledged
<1>7. PromisePart(View', mem', m, n, c.sent)
  <2> SUFFICES ASSUME NEW j \in Mon \ {m}
               PROVE  /\ PromiseOK(m, View'[j], mem'[j].accepted_pn, n[m][j] \o c.sent[j])
                      /\ PromiseOK(j, View'[m], mem'[m].accepted_pn, n[j][m])
    BY DEF PromisePart
  <2>1. View'[j] = View[j] /\ mem'[j] = mem[j]
    BY <1>2 DEF OthersStay
  <2>2. PromiseOK(m, View'[j], mem'[j].accepted_pn, n[m][j] \o c.sent[j])
    BY <1>6, <2>1 DEF Pledged
  <2>3. PromiseOK(j, View'[m], mem'[m].accepted_pn, n[j][m])
    BY <1>2
  <2> QED
    BY <2>2, <2>3
<1>8. store'[m].last_pn = store[m].last_pn /\ store[m].last_pn \in Nat
  BY <1>1, <1>2, StoreNumbers
<1>9. Grown(store, store')
  BY <1>1, <1>2, <1>8, NumbersSame
<1>10. /\ Used(store', b) /\ Used(store', c.st.accepted_pn)
       /\ reply.op = "last" => Used(store', reply.pn)
  BY <1>9, UsedGrown
<1>11. PICK x \in Place : x = View[m]
  BY <1>1, ViewIs
<1>12. x.epoch \in Nat
  BY PlaceFields
<1>13. \A j \in Mon : SentOK(store', x, c.sent[j])
  BY <1>4, <1>10, <1>11, <1>12 DEF SentOK
<1>14. NumbersOK(store', mem'[m], store'[m])
  BY <1>2, <1>10 DEF NumbersOK
<1>15. /\ View'[m] = x /\ x.epoch >= View[m].epoch /\ store[m].last_pn <= store'[m].last_pn
       /\ LocalOK(x, m, mem'[m], store'[m])
  BY <1>2, <1>8, <1>11, <1>12
<1>16. RecordPart(store, View', mem', store', m, n, c.sent)
  BY <1>1, <1>2, <1>13, <1>14, <1>15, RecordsKept
<1>17. PeerPart(View, mem, net, View'[m], mem'[m].accepted_pn, m, n, c.sent)
  BY <1>2
<1> QED
  BY <1>1, <1>2, <1>3, <1>7, <1>16, <1>17, NextRounds

LEMMA CollectRounds ==
  ASSUME Inv, Inv', RoundInv, NEW m, NEW from, NEW msg, Hears(m, from, msg),
         msg.op = "collect", handle_collect(m, from, msg)
  PROVE  RoundInv'
<1>1. PICK n : n = Consumed(from, m)
  OBVIOUS
<1>2. /\ m \in Mon /\ from \in Mon /\ from # m /\ Taken(n)
      /\ DropIs(n[from][m], net[from][m], 1) /\ Len(net[from][m]) >= 1
      /\ msg = net[from][m][1] /\ msg.epoch = View[m].epoch
      /\ \A i, j \in Mon : i # from \/ j # m => n[i][j] = net[i][j]
  BY <1>1, HeadTaken
<1>3. /\ role[m] = "peon" /\ View[m].epoch = epoch[m] /\ Joined(View[m], from, View[m].epoch)
  BY PeonHeard DEF LeaderOp
<1>4. CASE bootstrap(m, Call(m), n)
  BY <1>2, <1>4, BootstrapRounds
<1>5. CASE ~bootstrap(m, Call(m), n)
  <2>1. PICK c : c = Call(m)
    OBVIOUS
  <2>2. /\ IsCall(c) /\ c.s = mem[m] /\ c.st = store[m] /\ IsStore(c.st) /\ c.epoch = epoch[m]
        /\ \A j \in Mon : c.sent[j] = <<>>
    BY <1>2, <2>1, CallRound
  <2>3. PICK b : b = IF msg.pn > c.s.accepted_pn THEN msg.pn ELSE c.s.accepted_pn
    OBVIOUS
  <2>4. PICK d : d = [c EXCEPT !.s.state = "recovering", !.s.timers = @ \union {"lease"},
                               !.s.accepted_pn = b,
                               !.st.accepted_pn = IF msg.pn > c.s.accepted_pn THEN b ELSE @]
    OBVIOUS
  <2>5. PICK reply : /\ reply.op = "last" /\ reply.epoch = c.epoch /\ reply.pn = b
                     /\ Return(m, SendTo(d, {from}, reply), n)
    BY <1>1, <1>5, <2>1, <2>3, <2>4 DEF handle_collect
  <2>6. mem[m].timers = {"lease"} /\ ~Writing(mem[m])
    BY <1>2, <1>3, PeonWaits
  <2>7. store[m].last_committed = mem[m].last_committed
    BY <1>2, <2>6, MemRound DEF LocalOK
  <2>8. /\ DOMAIN d = {"s", "st", "epoch", "quorum", "sent"} /\ d.sent = c.sent
        /\ d.s = [c.s EXCEPT !.state = "recovering", !.timers = @ \union {"lease"},
                             !.accepted_pn = b]
        /\ d.st = [c.st EXCEPT !.accepted_pn = IF msg.pn > c.s.accepted_pn THEN b ELSE @]
    BY <2>2, <2>4 DEF IsCall
  <2>9. /\ IsMem(d.s) /\ d.s.state = "recovering" /\ d.s.timers = {"lease"}
        /\ d.s.accepted_pn = b /\ d.s.new_value = c.s.new_value
        /\ d.s.last_committed = c.s.last_committed
    BY <2>2, <2>6, <2>8 DEF IsCall, IsMem, State
  <2>10. /\ IsStore(d.st) /\ d.st.last_pn = c.st.last_pn
         /\ d.st.last_committed = c.st.last_committed
         /\ d.st.accepted_pn = b \/ d.st.accepted_pn = c.st.accepted_pn
    BY <2>2, <2>8 DEF IsStore
  <2>11. IsCall(d) /\ \A j \in Mon : d.sent[j] = <<>>
    BY <2>2, <2>8, <2>9 DEF IsCall
  <2>12. PICK f : f = SendTo(d, {from}, reply)
    OBVIOUS
  <2>13. IsCall(f) /\ f.s = d.s /\ f.st = d.st /\ Answers(f, from, reply) /\ Return(m, f, n)
    BY <1>2, <2>5, <2>11, <2>12, Replies
  <2>14. LocalOK(View[m], m, f.s, f.st)
    <3>1. /\ f.s.timers = {"lease"} /\ f.st.last_committed = f.s.last_committed
          /\ f.s.new_value = mem[m].new_value /\ IsStore(f.st) /\ f.st.last_pn = store[m].last_pn
      BY <2>2, <2>7, <2>9, <2>10, <2>13
    <3>2. ~Writing(f.s)
      BY <2>9, <2>13 DEF Writing
    <3> QED
      BY <1>2, <1>3, <3>1, <3>2, PeonLocal
  <2>15. PICK q, r, p : q = net[from][m] /\ r = net[m][from] /\ p = n[from][m]
    OBVIOUS
  <2>16. Len(q) \in Nat /\ IsSeq(r) /\ DropIs(p, q, 1) /\ Len(q) >= 1 /\ msg = q[1]
    BY <1>2, <2>15, NetIs
  <2>17. Used(store, b) /\ Used(store, store[m].accepted_pn)
    <3>1. SentOK(store, View[from], q) /\ NumbersOK(store, mem[m], store[m])
      BY <1>2, <2>15 DEF RoundInv, Rounds
    <3>2. 1 \in 1 .. Len(q)
      BY <2>16
    <3>3. Used(store, msg.pn)
      BY <2>16, <3>1, <3>2 DEF SentOK
    <3> QED
      BY <2>2, <2>3, <3>1, <3>3 DEF NumbersOK
  <2>18. ASSUME NEW acc, NEW A, NEW C,
                PairOK(from, View[m].epoch, acc, A, C, m, View[m], mem[m].accepted_pn, q, r)
         PROVE  PairOK(from, View[m].epoch, acc, A, C, m, View[m], b, p, r \o f.sent[from])
    <3>1. PICK e, w, a : e = View[m].epoch /\ w = View[m] /\ a = mem[m].accepted_pn
      OBVIOUS
    <3>2. PICK s, t : s = f.sent[from] /\ t = r \o f.sent[from]
      OBVIOUS
    <3>3. ConcatOf(t, r, s)
      BY <1>2, <2>13, <2>16, <3>2, ConcatParts DEF IsCall
    <3>4. ASSUME NEW k \in 1 .. Len(s) PROVE s[k] = reply /\ k = Len(s)
      BY <1>2, <2>13, <3>2, AnswersIs
    <3>5. Absent(s, "accept", e)
      BY <2>5, <3>4 DEF Absent, Is
    <3>6. \A k \in 1 .. Len(s) : Is(s[k], "last", e) => s[k].pn = b /\ k = Len(s)
      BY <2>5, <3>4
    <3>7. b \in {a, q[1].pn} /\ Is(q[1], "collect", e) /\ Joined(w, from, e)
      BY <1>2, <1>3, <2>2, <2>3, <2>16, <3>1 DEF Is
    <3>8. PairOK(from, e, acc, A, C, m, w, a, q, r)
      BY <2>18, <3>1
    <3>9. PairOK(from, e, acc, A, C, m, w, b, p, t)
      BY <2>16, <3>3, <3>5, <3>6, <3>7, <3>8, PairReplies
    <3> QED
      BY <3>1, <3>2, <3>9
  <2>19. n[m][from] = r
    BY <1>2, <2>15
  <2>20. reply.epoch = View[m].epoch
    BY <1>3, <2>2, <2>5
  <2>21. msg.op \in LeaderOp
    BY DEF LeaderOp
  <2>22. \A acc, A, C :
             PairOK(from, View[m].epoch, acc, A, C, m, View[m], mem[m].accepted_pn,
                    net[from][m], net[m][from]) =>
             PairOK(from, View[m].epoch, acc, A, C, m, View[m], b,
                    n[from][m], n[m][from] \o f.sent[from])
    BY <2>15, <2>18, <2>19
  <2>23. PeerPart(View, mem, net, View[m], b, m, n, f.sent)
    BY <1>1, <2>13, <2>20, <2>21, <2>22, PeonPart
  <2>24. \A j \in Mon \ {m} : PromiseOK(j, View[m], b, n[j][m])
    BY <1>1, PeonPromise
  <2>25. /\ f.s.accepted_pn = b /\ f.st.last_pn = store[m].last_pn
         /\ Used(store, f.st.accepted_pn) /\ Used(store, reply.pn)
    BY <2>2, <2>5, <2>9, <2>10, <2>13, <2>17
  <2> QED
    BY <1>1, <2>5, <2>13, <2>14, <2>17, <2>20, <2>21, <2>23, <2>24, <2>25, PeonAnswers
<1> QED
  BY <1>4, <1>5

LEMMA BeginRounds ==
  ASSUME Inv, Inv', RoundInv, NEW m, NEW from, NEW msg, Hears(m, from, msg),
         msg.op = "begin", handle_begin(m, from, msg)
  PROVE  RoundInv'
<1>1. PICK n : n = Consumed(from, m)
  OBVIOUS
<1>2. /\ m \in Mon /\ from \in Mon /\ from # m /\ Taken(n)
      /\ DropIs(n[from][m], net[from][m], 1) /\ Len(net[from][m]) >= 1
      /\ msg = net[from][m][1] /\ msg.epoch = View[m].epoch
      /\ \A i, j \in Mon : i # from \/ j # m => n[i][j] = net[i][j]
  BY <1>1, HeadTaken
<1>3. role[m] = "peon" /\ ~Leading(View[m]) /\ View[m].epoch = epoch[m]
  BY PeonHeard DEF LeaderOp
<1>4. PICK c : c = Call(m)
  OBVIOUS
<1>5. /\ IsCall(c) /\ c.s = mem[m] /\ c.st = store[m] /\ IsStore(c.st) /\ c.epoch = epoch[m]
      /\ \A j \in Mon : c.sent[j] = <<>>
  BY <1>2, <1>4, CallRound
<1>6. mem[m].timers = {"lease"} /\ ~Writing(mem[m])
  BY <1>2, <1>3, PeonWaits
<1>7. store[m].last_committed = mem[m].last_committed
  BY <1>2, <1>6, MemRound DEF LocalOK
<1>8. CASE Return(m, c, n)
  <2>1. /\ Mute(c) /\ Tame(c)
        /\ \A e : \A j \in Mon : \A k \in 1 .. Len(c.sent[j]) : c.sent[j][k].epoch <= e
    BY <1>5, Silent
  <2>2. LocalOK(View[m], m, c.s, c.st)
    BY <1>2, <1>5, MemRound
  <2>3. /\ c.s.accepted_pn = mem[m].accepted_pn /\ c.st.last_pn = store[m].last_pn
        /\ c.st.accepted_pn = store[m].accepted_pn
    BY <1>5
  <2> QED
    BY <1>2, <1>3, <1>5, <1>8, <2>1, <2>2, <2>3, PeonStays
<1>9. CASE ~Return(m, c, n)
  <2>1. PICK v, d, reply :
            /\ d = [c EXCEPT !.s.state = "updating", !.s.lease = FALSE,
                              !.st.log[v] = msg.value,
                              !.st.pending_v = v, !.st.pending_pn = c.s.accepted_pn]
            /\ reply.op = "accept" /\ reply.epoch = c.epoch
            /\ Return(m, SendTo(d, {from}, reply), n)
    BY <1>1, <1>4, <1>9 DEF handle_begin
  <2>2. /\ DOMAIN d = {"s", "st", "epoch", "quorum", "sent"} /\ d.sent = c.sent
        /\ d.s = [c.s EXCEPT !.state = "updating", !.lease = FALSE]
        /\ d.st = [c.st EXCEPT !.log[v] = msg.value, !.pending_v = v,
                               !.pending_pn = c.s.accepted_pn]
    BY <1>5, <2>1 DEF IsCall
  <2>3. /\ IsMem(d.s) /\ d.s.state = "updating" /\ d.s.timers = c.s.timers
        /\ d.s.accepted_pn = c.s.accepted_pn /\ d.s.new_value = c.s.new_value
        /\ d.s.last_committed = c.s.last_committed
    BY <1>5, <2>2 DEF IsCall, IsMem, State
  <2>4. /\ IsStore(d.st) /\ d.st.last_pn = c.st.last_pn /\ d.st.accepted_pn = c.st.accepted_pn
        /\ d.st.last_committed = c.st.last_committed
    BY <1>5, <2>2 DEF IsStore
  <2>5. IsCall(d) /\ \A j \in Mon : d.sent[j] = <<>>
    BY <1>5, <2>2, <2>3 DEF IsCall
  <2>6. PICK f : f = SendTo(d, {from}, reply)
    OBVIOUS
  <2>7. IsCall(f) /\ f.s = d.s /\ f.st = d.st /\ Answers(f, from, reply) /\ Return(m, f, n)
    <3>1. Return(m, SendTo(d, {from}, reply), n)
      BY <2>1
    <3>2. Return(m, f, n)
      BY ONLY <2>6, <3>1
    <3> QED
      BY <1>2, <2>5, <2>6, <3>2, Replies
  <2>8. LocalOK(View[m], m, f.s, f.st)
    <3>1. /\ f.s.timers = {"lease"} /\ f.st.last_committed = f.s.last_committed
          /\ f.s.new_value = mem[m].new_value /\ IsStore(f.st) /\ f.st.last_pn = store[m].last_pn
      BY <1>5, <1>6, <1>7, <2>3, <2>4, <2>7
    <3>2. ~Writing(f.s)
      BY <2>3, <2>7 DEF Writing
    <3> QED
      BY <1>2, <1>3, <3>1, <3>2, PeonLocal
  <2>9. PICK b : b = mem[m].accepted_pn
    OBVIOUS
  <2>10. PICK q, r, p : q = net[from][m] /\ r = net[m][from] /\ p = n[from][m]
    OBVIOUS
  <2>11. Len(q) \in Nat /\ IsSeq(r) /\ DropIs(p, q, 1) /\ Len(q) >= 1 /\ msg = q[1]
    BY <1>2, <2>10, NetIs
  <2>12. Used(store, b) /\ Used(store, store[m].accepted_pn)
    BY <1>2, <2>9 DEF RoundInv, Rounds, NumbersOK
  <2>13. ASSUME NEW acc, NEW A, NEW C, PairOK(from, View[m].epoch, acc, A, C, m, View[m], b, q, r)
         PROVE  PairOK(from, View[m].epoch, acc, A, C, m, View[m], b, p, r \o f.sent[from])
    <3>1. PICK e, w : e = View[m].epoch /\ w = View[m]
      OBVIOUS
    <3>2. PICK s, t : s = f.sent[from] /\ t = r \o f.sent[from]
      OBVIOUS
    <3>3. ConcatOf(t, r, s)
      BY <1>2, <2>7, <2>11, <3>2, ConcatParts DEF IsCall
    <3>4. ASSUME NEW k \in 1 .. Len(s) PROVE s[k] = reply /\ k = 1 /\ Len(s) = 1
      BY <1>2, <2>7, <3>2, AnswersIs
    <3>5. Absent(s, "last", e)
      BY <2>1, <3>4 DEF Absent, Is
    <3>6. \A k \in 1 .. Len(s) : Is(s[k], "accept", e) => NoOther(s, k, "accept", e)
      BY <3>4 DEF NoOther
    <3>7. Is(q[1], "begin", e)
      BY <1>2, <2>11, <3>1 DEF Is
    <3>8. PairOK(from, e, acc, A, C, m, w, b, q, r)
      BY <2>13, <3>1
    <3>9. PairOK(from, e, acc, A, C, m, w, b, p, t)
      BY <2>11, <3>3, <3>5, <3>6, <3>7, <3>8, PairAccepts
    <3> QED
      BY <3>1, <3>2, <3>9
  <2>14. n[m][from] = r
    BY <1>2, <2>10
  <2>15. reply.epoch = View[m].epoch
    BY <1>3, <1>5, <2>1
  <2>16. msg.op \in LeaderOp
    BY DEF LeaderOp
  <2>17. \A acc, A, C :
             PairOK(from, View[m].epoch, acc, A, C, m, View[m], mem[m].accepted_pn,
                    net[from][m], net[m][from]) =>
             PairOK(from, View[m].epoch, acc, A, C, m, View[m], b,
                    n[from][m], n[m][from] \o f.sent[from])
    BY <2>9, <2>10, <2>13, <2>14
  <2>18. PeerPart(View, mem, net, View[m], b, m, n, f.sent)
    BY <1>1, <2>7, <2>15, <2>16, <2>17, PeonPart
  <2>19. \A j \in Mon \ {m} : PromiseOK(j, View[m], b, n[j][m])
    BY <1>2, <2>9, TakenPromise
  <2>20. /\ f.s.accepted_pn = b /\ f.st.last_pn = store[m].last_pn
         /\ Used(store, f.st.accepted_pn)
    BY <1>5, <2>3, <2>4, <2>7, <2>9, <2>12
  <2> QED
    BY <1>1, <2>1, <2>7, <2>8, <2>12, <2>15, <2>16, <2>18, <2>19, <2>20, PeonAnswers
<1> QED
  BY <1>8, <1>9

----------------------------------------------------------------------------
(* The election.                                                            *)

(* m, which was electing, follows the winner from.                          *)
LEMMA JoinPart ==
  ASSUME Inv, NEW m \in Mon, NEW from \in Mon, net[from][m] # <<>>, NEW msg,
         msg = Head(net[from][m]), msg.op = "victory", View[m].role = "electing",
         msg.epoch = View[m].epoch + 1,
         NEW n, n = Consumed(from, m), NEW c, IsCall(c), \A j \in Mon : c.sent[j] = <<>>,
         NEW x, x.epoch = msg.epoch, x.role = "peon", x.leader = from
  PROVE  PeerPart(View, mem, net, x, mem[m].accepted_pn, m, n, c.sent)
<1>1. Taken(n) /\ Len(net[from][m]) >= 1 /\ msg = net[from][m][1]
  BY TakenHead
<1>2. View[m].epoch \in Nat /\ Len(net[from][m]) \in Nat
  BY ViewIs, PlaceFields, NetIs
<1> SUFFICES ASSUME NEW i \in Mon \ {m}, Leading(View[i]), m \in View[i].quorum, NEW C,
                    PairOK(i, View[i].epoch, mem[i].accepted_pn, Awaited(mem[i]), C, m,
                           View[m], mem[m].accepted_pn, net[i][m], net[m][i])
             PROVE  PairOK(i, View[i].epoch, mem[i].accepted_pn, Awaited(mem[i]), C, m,
                           x, mem[m].accepted_pn, n[i][m], n[m][i] \o c.sent[i])
  BY DEF PeerPart
<1>3. PICK q, r, e, w, a, acc, A :
        /\ q = net[i][m] /\ r = net[m][i] /\ e = View[i].epoch /\ w = View[m]
        /\ a = mem[m].accepted_pn /\ acc = mem[i].accepted_pn /\ A = Awaited(mem[i])
  OBVIOUS
<1>4. PairOK(i, e, acc, A, C, m, w, a, q, r)
  BY <1>3
<1>5. PICK s : s = <<>>
  OBVIOUS
<1>6. IsSeq(s) /\ Len(s) = 0 /\ IsSeq(r)
  BY <1>3, <1>5, EmptyIs, NetIs
<1>7. Absent(s, "last", e) /\ Absent(s, "accept", e)
  BY <1>6 DEF Absent
<1>8. PICK o : o = n[m][i]
  OBVIOUS
<1>9. IsSeq(o) /\ Suffix(o, r) /\ Suffix(n[i][m], q)
  BY <1>1, <1>3, <1>8 DEF Taken
<1>10. PICK t : t = o \o s
  OBVIOUS
<1>11. ConcatOf(t, o, s)
  BY <1>6, <1>9, <1>10, ConcatParts
<1>12. PairOK(i, e, acc, A, C, m, x, a, n[i][m], t)
  <2>1. CASE i = from /\ e = msg.epoch
    <3>1. MayHear(w, i, e)
      <4>1. w.role = "electing" /\ w.epoch \in Nat /\ e = w.epoch + 1
        BY <1>2, <1>3, <2>1
      <4>2. w.epoch = e - 1
        BY <4>1
      <4> QED
        BY <4>1, <4>2 DEF MayHear
    <3>2. 1 \in 1 .. Len(q) /\ Is(q[1], "victory", e)
      BY <1>1, <1>2, <1>3, <2>1 DEF Is
    <3>3. PairOK(i, e, acc, A, C, m, x, a, q, r)
      BY <1>4, <3>1, <3>2, PairJoins
    <3>4. PairOK(i, e, acc, A, C, m, x, a, n[i][m], o)
      BY <1>9, <3>3, PairSuffix
    <3> QED
      BY <1>7, <1>11, <3>4, PairMoves
  <2>2. CASE i # from \/ e # msg.epoch
    <3>1. ~Joined(x, i, e) /\ ~MayHear(x, i, e)
      BY <2>2 DEF Joined, MayHear
    <3>2. PairOK(i, e, acc, A, C, m, w, a, n[i][m], o)
      BY <1>4, <1>9, PairSuffix
    <3> QED
      BY <1>7, <1>11, <3>1, <3>2, PairMoves
  <2> QED
    BY <2>1, <2>2
<1> QED
  BY <1>3, <1>5, <1>8, <1>10, <1>12

LEMMA JoinPromise ==
  ASSUME Inv, RoundInv, NEW m \in Mon, NEW from \in Mon, net[from][m] # <<>>, NEW msg,
         msg = Head(net[from][m]), msg.op = "victory",
         NEW n, n = Consumed(from, m), NEW j \in Mon \ {m},
         NEW x, x.epoch = msg.epoch, x.role = "peon", x.leader = from
  PROVE  PromiseOK(j, x, mem[m].accepted_pn, n[j][m])
<1>1. Taken(n) /\ Len(net[from][m]) >= 1 /\ msg = net[from][m][1]
  BY TakenHead
<1>2. PICK q, w, a : q = net[j][m] /\ w = View[m] /\ a = mem[m].accepted_pn
  OBVIOUS
<1>3. PromiseOK(j, w, a, q)
  BY <1>2 DEF RoundInv, Rounds
<1>4. ASSUME NEW k \in 1 .. Len(q), q[k].op = "begin", q[k].epoch % 2 = 0
      PROVE  ~Joined(x, j, q[k].epoch)
  <2>1. Answered(j, q[k].epoch, q[k].pn, w, a, q)
    BY <1>3, <1>4 DEF PromiseOK
  <2> SUFFICES ASSUME Joined(x, j, q[k].epoch) PROVE FALSE
    OBVIOUS
  <2>2. j = from /\ q[k].epoch = msg.epoch
    BY DEF Joined
  <2>3. 1 \in 1 .. Len(q) /\ Is(q[1], "victory", q[k].epoch)
    <3>1. Len(q) \in Nat
      BY <1>2, NetIs
    <3> QED
      BY <1>1, <1>2, <2>2, <3>1 DEF Is
  <2> QED
    BY <2>1, <2>3 DEF Answered, Absent
<1>5. PromiseOK(j, x, a, q)
  BY <1>3, <1>4 DEF PromiseOK, Answered
<1>6. PICK d : DropIs(n[j][m], q, d)
  BY <1>1, <1>2 DEF Taken, Suffix
<1> QED
  BY <1>2, <1>5, <1>6, PromiseDrop

LEMMA VictoryRounds ==
  ASSUME Inv, Inv', RoundInv, NEW m \in Mon, NEW from \in Mon, net[from][m] # <<>>, ~flushing[m],
         NEW msg, msg = Head(net[from][m]), msg.op = "victory", handle_victory(m, from, msg)
  PROVE  RoundInv'
<1>1. PICK n : n = Consumed(from, m)
  OBVIOUS
<1>2. Taken(n)
  BY <1>1, TakenHead
<1>3. /\ from # m /\ Heard(msg, epoch[m], role[m])
      /\ MessageOK(View, net[from][m], 1, from, m) /\ net[from][m][1] = msg
  BY HeadIs
<1>4. /\ msg.epoch \in Nat /\ msg.quorum \in SUBSET Mon
      /\ View[m].epoch = epoch[m] /\ View[m].role = role[m] /\ epoch[m] \in Nat
  BY <1>3, ViewIs, AtFields, Facts DEF MessageOK
<1>5. PICK b : b = Call(m)
  OBVIOUS
<1>6. /\ IsCall(b) /\ b.s = mem[m] /\ b.st = store[m] /\ IsStore(b.st)
      /\ \A j \in Mon : b.sent[j] = <<>>
  BY <1>5, CallRound
<1>7. LocalOK(View[m], m, mem[m], store[m])
  BY MemRound
<1>8. CASE role[m] = "probing" /\ Return(m, b, n)
  <2>1. ~Leading(View[m])
    BY <1>8, LeadingIs
  <2>2. /\ Mute(b) /\ Tame(b)
        /\ \A e : \A j \in Mon : \A k \in 1 .. Len(b.sent[j]) : b.sent[j][k].epoch <= e
    BY <1>6, Silent
  <2>3. /\ b.s.accepted_pn = mem[m].accepted_pn /\ b.st.last_pn = store[m].last_pn
        /\ b.st.accepted_pn = store[m].accepted_pn /\ LocalOK(View[m], m, b.s, b.st)
    BY <1>6, <1>7
  <2> QED
    BY <1>2, <1>6, <1>8, <2>1, <2>2, <2>3, PeonStays
<1>9. CASE /\ role[m] # "probing" /\ msg.epoch # epoch[m] + 1 /\ ~Writing(mem[m])
           /\ Leave(m, b, NextOdd(msg.epoch), "electing", n)
  <2>1. PICK o \in Nat : o = NextOdd(msg.epoch) /\ o > msg.epoch /\ o % 2 = 1
    BY <1>4, NextOddIs
  <2>2. PICK r \in {"probing", "electing"} : r = "electing"
    OBVIOUS
  <2>3. Evolves(At(m), Gone(o, r))
    <3>1. o > epoch[m]
      BY <1>3, <1>4, <2>1 DEF Heard
    <3> QED
      BY <2>1, <3>1, AtFields, GoneIs DEF Evolves
  <2>4. Leave(m, Call(m), o, r, n)
    BY <1>5, <1>9, <2>1, <2>2
  <2> QED
    BY <1>2, <1>9, <2>3, <2>4, LeaveSilent
<1>10. CASE /\ role[m] = "electing" /\ msg.epoch = epoch[m] + 1
            /\ Join(m, [b EXCEPT !.s = [Reset(mem[m]) EXCEPT !.timers = {"lease"}],
                                 !.epoch = msg.epoch, !.quorum = msg.quorum],
                    "peon", from, n)
  <2>1. PICK c : c = [b EXCEPT !.s = [Reset(mem[m]) EXCEPT !.timers = {"lease"}],
                               !.epoch = msg.epoch, !.quorum = msg.quorum]
    OBVIOUS
  <2>2. /\ DOMAIN c = {"s", "st", "epoch", "quorum", "sent"}
        /\ c.s = [Reset(mem[m]) EXCEPT !.timers = {"lease"}] /\ c.st = b.st
        /\ c.epoch = msg.epoch /\ c.quorum = msg.quorum /\ c.sent = b.sent
    BY <1>6, <2>1 DEF IsCall
  <2>3. PICK z : z = Reset(mem[m])
    OBVIOUS
  <2>4. /\ IsMem(z) /\ z.state = "recovering" /\ z.new_value = NoValue
        /\ z.accepted_pn = mem[m].accepted_pn /\ z.last_committed = mem[m].last_committed
    BY <2>3, ResetIs, ResetRound
  <2>5. /\ IsMem(c.s) /\ c.s.state = "recovering" /\ c.s.timers = {"lease"}
        /\ c.s.new_value = NoValue /\ c.s.accepted_pn = mem[m].accepted_pn
        /\ c.s.last_committed = mem[m].last_committed
    BY <2>2, <2>3, <2>4 DEF IsMem
  <2>6. IsCall(c) /\ \A j \in Mon : c.sent[j] = <<>>
    BY <1>6, <2>2, <2>5 DEF IsCall
  <2>7. PICK x : x = [epoch |-> msg.epoch, role |-> "peon", leader |-> from,
                      quorum |-> msg.quorum, flushing |-> FALSE]
    OBVIOUS
  <2>8. /\ x \in Place /\ x.epoch = msg.epoch /\ x.role = "peon" /\ x.flushing = FALSE
        /\ x.quorum = msg.quorum /\ x.leader = from
    BY <1>4, <2>7 DEF Place, Role
  <2>9. Join(m, c, "peon", from, n)
    BY <1>10, <2>1
  <2>10. Becomes(m, x)
    <3>1. flushing[m] = FALSE /\ flushing \in [Mon -> BOOLEAN]
      BY Facts DEF Inv
    <3>2. flushing' = [flushing EXCEPT ![m] = x.flushing]
      BY <2>8, <2>9, <3>1 DEF Join
    <3> QED
      BY <2>2, <2>8, <2>9, <3>2 DEF Becomes, Join
  <2>11. Ends(m, x, c.s, c.st, n, c)
    BY <2>9, <2>10 DEF Join, Ends
  <2>12. PICK s, st : s = c.s /\ st = c.st
    OBVIOUS
  <2>13. /\ Carried(net, n, net', m, c.sent)
         /\ OthersStay(m, View, View', mem, mem', store, store')
         /\ View'[m] = x /\ mem'[m] = s /\ store'[m] = st
    BY <1>2, <2>6, <2>8, <2>11, <2>12, EndsIs
  <2>14. PeerPart(View, mem, net, x, mem[m].accepted_pn, m, n, c.sent)
    BY <1>1, <1>4, <1>10, <2>6, <2>8, JoinPart
  <2>15. LeaderPart(View', mem', m, n, c.sent)
    BY <2>8, <2>13 DEF LeaderPart, Leading
  <2>16. /\ Tame(c) /\ \A e : \A j \in Mon : \A k \in 1 .. Len(c.sent[j]) :
                                  c.sent[j][k].epoch <= e
    BY <2>6, Silent
  <2>17. Pledged(m, n, c)
    BY <1>2, <2>6, <2>16, TamePledged
  <2>18. mem'[m].accepted_pn = mem[m].accepted_pn
    BY <2>5, <2>12, <2>13
  <2>19. PromisePart(View', mem', m, n, c.sent)
    <3> SUFFICES ASSUME NEW j \in Mon \ {m}
                 PROVE  /\ PromiseOK(m, View'[j], mem'[j].accepted_pn, n[m][j] \o c.sent[j])
                        /\ PromiseOK(j, View'[m], mem'[m].accepted_pn, n[j][m])
      BY DEF PromisePart
    <3>1. View'[j] = View[j] /\ mem'[j] = mem[j]
      BY <2>13 DEF OthersStay
    <3>2. PromiseOK(m, View'[j], mem'[j].accepted_pn, n[m][j] \o c.sent[j])
      BY <2>17, <3>1 DEF Pledged
    <3>3. PromiseOK(j, x, mem[m].accepted_pn, n[j][m])
      BY <1>1, <2>8, JoinPromise
    <3> QED
      BY <2>13, <2>18, <3>2, <3>3
  <2>20. ~Writing(mem[m])
    BY <1>10, Facts
  <2>21. /\ store'[m] = store[m] /\ store[m].last_pn \in Nat
         /\ store[m].last_committed = mem[m].last_committed
    BY <1>6, <1>7, <2>2, <2>12, <2>13, <2>20 DEF LocalOK
  <2>22. LocalOK(x, m, mem'[m], store'[m])
    <3>1. /\ mem'[m].new_value = NoValue /\ "accept" \notin mem'[m].timers
          /\ {"lease_ack", "lease_renew"} \cap mem'[m].timers = {}
          /\ store'[m].last_committed = mem'[m].last_committed
      BY <2>5, <2>12, <2>13, <2>21
    <3> QED
      BY <1>6, <2>8, <2>21, <3>1 DEF LocalOK
  <2>23. NumbersOK(store', mem'[m], store'[m])
    <3>1. store'[m].last_pn = store[m].last_pn
      BY <2>21
    <3>2. Used(store', mem[m].accepted_pn) /\ Used(store', store[m].accepted_pn)
      BY <2>13, <3>1, NumbersSame
    <3> QED
      BY <2>18, <2>21, <3>2 DEF NumbersOK
  <2>24. \A j \in Mon : SentOK(store', x, c.sent[j])
    <3>1. \A j \in Mon : Len(c.sent[j]) = 0
      BY <2>6
    <3> QED
      BY <3>1 DEF SentOK
  <2>25. View'[m] = x /\ x.epoch >= View[m].epoch /\ store[m].last_pn <= store'[m].last_pn
    BY <1>4, <1>10, <2>8, <2>13, <2>21
  <2>26. RecordPart(store, View', mem', store', m, n, c.sent)
    BY <1>2, <2>6, <2>8, <2>13, <2>22, <2>23, <2>24, <2>25, RecordsKept
  <2>27. PeerPart(View, mem, net, View'[m], mem'[m].accepted_pn, m, n, c.sent)
    BY <2>13, <2>14, <2>18
  <2> QED
    BY <2>13, <2>15, <2>19, <2>26, <2>27, NextRounds
<1> QED
  BY <1>1, <1>5, <1>8, <1>9, <1>10 DEF handle_victory

(* The winner of epoch e tells its peers that it has won, then collects.    *)
Wins(c, e, pn, P) ==
    \A j \in Mon : \A k \in 1 .. Len(c.sent[j]) :
        /\ j \in P
        /\ \/ Is(c.sent[j][k], "victory", e)
           \/ Is(c.sent[j][k], "collect", e) /\ c.sent[j][k].pn = pn /\ k = Len(c.sent[j])

(* Nothing of the epoch to come is under way.                               *)
LEMMA NewEpoch ==
  ASSUME Inv, RoundInv, NEW m \in Mon, NEW j \in Mon, NEW e, e = View[m].epoch + 1, e % 2 = 0
  PROVE  /\ \A k \in 1 .. Len(net[m][j]) : net[m][j][k].epoch # e
         /\ Absent(net[j][m], "accept", e)
<1>1. View[m].epoch \in Nat
  BY ViewIs, PlaceFields
<1>2. ASSUME NEW k \in 1 .. Len(net[m][j]) PROVE net[m][j][k].epoch # e
  <2>1. SentOK(store, View[m], net[m][j])
    BY DEF RoundInv, Rounds
  <2>2. MessageOK(View, net[m][j], k, m, j)
    BY NetIs
  <2>3. net[m][j][k].epoch \in Nat /\ net[m][j][k].epoch <= View[m].epoch
    BY <2>1, <2>2 DEF SentOK, MessageOK
  <2> QED
    BY <1>1, <2>3
<1>3. ASSUME NEW k \in 1 .. Len(net[j][m]), Is(net[j][m][k], "accept", e) PROVE FALSE
  <2>1. MessageOK(View, net[j][m], k, j, m)
    BY NetIs
  <2>2. Leads(View[m], j, e)
    BY <1>3, <2>1 DEF MessageOK, Is, ReplyOp
  <2> QED
    BY <1>1, <2>2 DEF Leads
<1> QED
  BY <1>2, <1>3 DEF Absent

LEMMA WinnerRound ==
  ASSUME Inv, Inv', RoundInv, NEW m \in Mon, NEW e, e = View[m].epoch + 1, e % 2 = 0,
         NEW x \in Place, x.role = "leader", x.epoch = e, x.flushing = FALSE,
         NEW pn, Fresh(m, store[m], pn), NEW c, IsCall(c), Wins(c, e, pn, x.quorum \ {m}),
         NEW n, n = net, Carried(net, n, net', m, c.sent),
         OthersStay(m, View, View', mem, mem', store, store'), View'[m] = x,
         mem'[m].accepted_pn = pn, mem'[m].state = "recovering", mem'[m].num_last = 1,
         store'[m].last_pn = pn, store'[m].accepted_pn = store[m].accepted_pn,
         LocalOK(x, m, mem'[m], store'[m])
  PROVE  RoundInv'
<1>0. Taken(n) /\ View[m].epoch \in Nat
  BY TakenNone, ViewIs, PlaceFields
<1>1. ASSUME NEW j \in Mon
      PROVE  /\ \A k \in 1 .. Len(n[m][j]) : n[m][j][k].epoch # e
             /\ Absent(n[j][m], "accept", e)
             /\ ConcatOf(n[m][j] \o c.sent[j], n[m][j], c.sent[j])
  <2>1. PICK q, s : q = n[m][j] /\ s = c.sent[j]
    OBVIOUS
  <2>2. IsSeq(q) /\ IsSeq(s)
    BY <1>0, <2>1 DEF Taken, IsCall
  <2>3. ConcatOf(q \o s, q, s)
    BY <2>2, ConcatParts
  <2> QED
    BY <2>1, <2>3, NewEpoch
<1>2. PICK P : P = x.quorum \ {m}
  OBVIOUS
<1>3. P \in SUBSET Mon /\ m \notin P
  BY <1>2, PlaceFields
<1>4. ASSUME NEW j \in P, NEW A
      PROVE  PairOK(m, e, pn, A, {}, j, View[j], mem[j].accepted_pn,
                    n[m][j] \o c.sent[j], n[j][m])
  <2>1. j \in Mon
    BY <1>3
  <2>2. PICK q, s, t : q = n[m][j] /\ s = c.sent[j] /\ t = n[m][j] \o c.sent[j]
    OBVIOUS
  <2>3. ConcatOf(t, q, s) /\ \A k \in 1 .. Len(q) : q[k].epoch # e
    BY <1>1, <2>1, <2>2
  <2>4. \A k \in 1 .. Len(s) : \/ Is(s[k], "victory", e)
                               \/ Is(s[k], "collect", e) /\ k = Len(s)
    BY <2>1, <2>2 DEF Wins
  <2>5. /\ Absent(s, "begin", e) /\ Absent(q, "begin", e)
        /\ \A k \in 1 .. Len(s) : Is(s[k], "collect", e) => k = Len(s)
    BY <2>3, <2>4 DEF Absent, Is
  <2>6. VictoryOK(e, t)
    <3> SUFFICES ASSUME NEW k \in 1 .. Len(t), Is(t[k], "victory", e),
                        NEW h \in 1 .. Len(t), h < k, Is(t[h], "collect", e)
                 PROVE  FALSE
      BY DEF VictoryOK
    <3>1. h - Len(q) \in 1 .. Len(s) /\ t[h] = s[h - Len(q)]
      BY <2>3 DEF ConcatOf, Is
    <3>2. h - Len(q) = Len(s)
      BY <2>5, <3>1
    <3>3. Len(t) = Len(q) + Len(s) /\ Len(q) \in Nat /\ Len(s) \in Nat
      BY <2>3 DEF ConcatOf
    <3> QED
      BY <3>2, <3>3
  <2>7. /\ Absent(n[m][j], "begin", e) /\ Absent(n[j][m], "accept", e)
        /\ ConcatOf(t, n[m][j], s)
    BY <1>1, <2>1, <2>2, <2>3, <2>5
  <2>8. PairOK(m, e, pn, A, {}, j, View[j], mem[j].accepted_pn, t, n[j][m])
    BY <1>0, <2>1, <2>5, <2>6, <2>7, CollectPair
  <2> QED
    BY <2>2, <2>8
<1>5. LeaderPart(View', mem', m, n, c.sent)
  <2>1. PICK D : D = {}
    OBVIOUS
  <2>2. D \in SUBSET P /\ CountOK(mem'[m], D, P)
    BY <2>1, FS_EmptySet DEF CountOK
  <2>3. \A j \in P : View'[j] = View[j] /\ mem'[j] = mem[j]
    BY <1>3 DEF OthersStay
  <2>4. \A j \in P :
           PairOK(m, View'[m].epoch, mem'[m].accepted_pn, Awaited(mem'[m]), D, j,
                  View'[j], mem'[j].accepted_pn, n[m][j] \o c.sent[j], n[j][m])
    BY <1>4, <2>1, <2>3
  <2>5. View'[m].quorum \ {m} = P
    BY <1>2
  <2> QED
    BY <2>2, <2>4, <2>5 DEF LeaderPart
<1>6. Bystands(m, x, pn)
  <2> SUFFICES ASSUME NEW i \in Mon \ {m}, Leading(View[i])
               PROVE  ~Joined(x, i, View[i].epoch) /\ ~MayHear(x, i, View[i].epoch)
    BY DEF Bystands
  <2>1. View[i].epoch \in Nat /\ View[i].epoch % 2 = 0
    BY ViewIs, AtFields, Facts DEF Leading, InQuorum
  <2>2. x.epoch # View[i].epoch - 1
    BY <1>0, <2>1
  <2> QED
    BY <2>2 DEF Joined, MayHear
<1>7. Mute(c)
  BY DEF Mute, Wins, Is
<1>8. PeerPart(View, mem, net, View'[m], mem'[m].accepted_pn, m, n, c.sent)
  BY <1>0, <1>6, <1>7, PeerMoves
<1>9. Pledged(m, n, c)
  <2> SUFFICES ASSUME NEW j \in Mon \ {m}
               PROVE  PromiseOK(m, View[j], mem[j].accepted_pn, n[m][j] \o c.sent[j])
    BY DEF Pledged
  <2>1. PICK q, s, t : q = n[m][j] /\ s = c.sent[j] /\ t = n[m][j] \o c.sent[j]
    OBVIOUS
  <2>2. PICK w, a : w = View[j] /\ a = mem[j].accepted_pn
    OBVIOUS
  <2>3. PromiseOK(m, w, a, q) /\ ConcatOf(t, q, s)
    BY <1>0, <1>1, <2>1, <2>2, TakenPromise
  <2>4. \A k \in 1 .. Len(s) : s[k].epoch = e /\ s[k].op # "begin"
    BY <2>1 DEF Wins, Is
  <2>5. \A k \in 1 .. Len(q) : q[k].epoch # e
    BY <1>1, <2>1
  <2>6. \A k \in 1 .. Len(q) : q[k].op = "begin" /\ q[k].epoch % 2 = 0 =>
            Absent(s, "collect", q[k].epoch) /\ Absent(s, "victory", q[k].epoch)
    BY <2>4, <2>5 DEF Absent, Is
  <2>7. \A k \in 1 .. Len(s) : s[k].op = "begin" /\ s[k].epoch % 2 = 0 =>
            Answered(m, s[k].epoch, s[k].pn, w, a, t)
    BY <2>4
  <2>8. PromiseOK(m, w, a, t)
    BY <2>3, <2>6, <2>7, PromiseSpeaks
  <2> QED
    BY <2>1, <2>2, <2>8
<1>10. \A i, f : Joined(x, i, f) => Joined(View[m], i, f) /\ pn = mem[m].accepted_pn
  BY DEF Joined
<1>11. PromisePart(View', mem', m, n, c.sent)
  BY <1>0, <1>9, <1>10, PromiseKept
<1>12. store[m].last_pn \in Nat /\ pn \in Nat /\ pn > store[m].last_pn /\ pn % 100 = m
  BY StoreNumbers DEF Fresh
<1>13. Used(store', pn)
  BY <1>12 DEF Used
<1>14. \A j \in Mon : SentOK(store', x, c.sent[j])
  <2> SUFFICES ASSUME NEW j \in Mon PROVE SentOK(store', x, c.sent[j])
    OBVIOUS
  <2>1. PICK s : s = c.sent[j]
    OBVIOUS
  <2>2. \A k \in 1 .. Len(s) : Is(s[k], "victory", e) \/ (Is(s[k], "collect", e) /\ s[k].pn = pn)
    BY <2>1 DEF Wins
  <2>3. x.epoch = e /\ e \in Nat
    BY <1>0
  <2>4. \A k \in 1 .. Len(s) : s[k].epoch <= x.epoch
    BY <2>2, <2>3 DEF Is
  <2>5. \A k \in 1 .. Len(s) : s[k].op \in {"collect", "last"} => s[k].pn = pn
    BY <2>2 DEF Is
  <2>6. SentOK(store', x, s)
    BY ONLY <1>13, <2>4, <2>5 DEF SentOK
  <2> QED
    BY <2>1, <2>6
<1>15. NumbersOK(store', mem'[m], store'[m])
  <2>1. Grown(store, store')
    BY <1>12, StoreNumbers DEF Grown, OthersStay
  <2>2. Used(store, store[m].accepted_pn)
    BY DEF RoundInv, Rounds, NumbersOK
  <2>3. Used(store', store[m].accepted_pn)
    BY <2>1, <2>2, UsedGrown
  <2> QED
    BY <1>13, <2>3 DEF NumbersOK
<1>16. x.epoch >= View[m].epoch /\ store[m].last_pn <= store'[m].last_pn
  BY <1>0, <1>12
<1>17. RecordPart(store, View', mem', store', m, n, c.sent)
  BY <1>0, <1>14, <1>15, <1>16, RecordsKept
<1> QED
  BY <1>5, <1>8, <1>11, <1>17, NextRounds

LEMMA WinElectionRounds ==
  ASSUME Inv, Inv', RoundInv, NEW m \in Mon, win_election(m)
  PROVE  RoundInv'
<1>1. PICK q \in SUBSET {p \in Mon : p >= m /\ epoch[p] >= epoch[m]} :
        /\ m \in q /\ IsMajority(q)
        /\ LET c == [Call(m) EXCEPT !.s = Reset(@), !.epoch = @ + 1, !.quorum = q]
               v == SendTo(c, Peers(m, c), [op |-> "victory", epoch |-> c.epoch, quorum |-> q])
           IN  Join(m, [collect(m, v, 0) EXCEPT !.s.pending = TRUE], "leader", m, net)
  BY DEF win_election
<1>2. /\ role[m] = "electing" /\ epoch[m] \in Nat /\ epoch[m] % 2 = 1 /\ flushing[m] = FALSE
      /\ ~Writing(mem[m])
  BY Facts DEF win_election
<1>3. q \in SUBSET Mon
  OBVIOUS
<1>4. PICK b : b = Call(m)
  OBVIOUS
<1>5. /\ IsCall(b) /\ b.s = mem[m] /\ b.st = store[m] /\ IsStore(b.st) /\ b.epoch = epoch[m]
      /\ \A j \in Mon : b.sent[j] = <<>>
  BY <1>4, CallRound
<1>6. PICK c : c = [b EXCEPT !.s = Reset(@), !.epoch = @ + 1, !.quorum = q]
  OBVIOUS
<1>7. PICK victory : victory = [op |-> "victory", epoch |-> c.epoch, quorum |-> q]
  OBVIOUS
<1>8. PICK t : t = SendTo(c, Peers(m, c), victory)
  OBVIOUS
<1>9. PICK f : f = collect(m, t, 0)
  OBVIOUS
<1>10. PICK d : d = [f EXCEPT !.s.pending = TRUE]
  OBVIOUS
<1>11. Join(m, d, "leader", m, net)
  BY <1>1, <1>4, <1>6, <1>7, <1>8, <1>9, <1>10
<1>12. PICK e : e = epoch[m] + 1
  OBVIOUS
<1>13. /\ DOMAIN c = {"s", "st", "epoch", "quorum", "sent"} /\ c.s = Reset(mem[m])
       /\ c.st = b.st /\ c.epoch = e /\ c.quorum = q /\ c.sent = b.sent
  BY <1>5, <1>6, <1>12 DEF IsCall
<1>14. /\ IsMem(c.s) /\ c.s.timers = {} /\ c.s.new_value = NoValue
       /\ c.s.accepted_pn = mem[m].accepted_pn /\ c.s.last_committed = mem[m].last_committed
  BY <1>13, ResetIs, ResetRound
<1>15. IsCall(c) /\ \A j \in Mon : c.sent[j] = <<>>
  BY <1>5, <1>13, <1>14 DEF IsCall
<1>16. victory.op = "victory" /\ victory.epoch = e
  BY <1>7, <1>13
<1>17. /\ IsCall(t) /\ t.s = c.s /\ t.st = b.st /\ t.epoch = e /\ t.quorum = q
       /\ \A j \in Mon : t.sent[j] = IF j \in q \ {m} THEN Append(<<>>, victory) ELSE <<>>
  <2>1. Peers(m, c) = q \ {m}
    BY <1>13 DEF Peers
  <2>2. /\ IsCall(t) /\ t.epoch = c.epoch /\ t.quorum = c.quorum /\ t.s = c.s /\ t.st = c.st
        /\ \A j \in Mon :
               t.sent[j] = IF j \in Peers(m, c) THEN Append(c.sent[j], victory) ELSE c.sent[j]
    BY <1>8, <1>15, SentTo
  <2> QED
    BY <1>13, <1>15, <2>1, <2>2
<1>18. LocalOK(View[m], m, mem[m], store[m]) /\ NumbersOK(store, mem[m], store[m])
  BY MemRound DEF RoundInv, Rounds
<1>19. /\ IsStore(t.st) /\ t.st.last_pn \in Nat /\ t.s.accepted_pn \in Nat
       /\ store[m].last_committed = mem[m].last_committed
  BY <1>2, <1>5, <1>14, <1>17, <1>18 DEF LocalOK, NumbersOK, Used
<1>20. PICK pn : Fresh(m, t.st, pn) /\ Collects(m, t, f, pn)
  BY <1>9, <1>17, <1>19, CollectRound
<1>21. /\ IsCall(f) /\ f.epoch = e /\ f.quorum = q
       /\ f.s.state = "recovering" /\ f.s.accepted_pn = pn /\ f.s.num_last = 1
       /\ f.s.new_value = NoValue /\ f.s.timers = {"collect"}
       /\ f.s.last_committed = mem[m].last_committed
       /\ IsStore(f.st) /\ f.st.last_pn = pn /\ f.st.accepted_pn = store[m].accepted_pn
       /\ f.st.last_committed = store[m].last_committed
  BY <1>5, <1>14, <1>17, <1>20 DEF Collects
<1>22. /\ DOMAIN d = {"s", "st", "epoch", "quorum", "sent"} /\ d.s = [f.s EXCEPT !.pending = TRUE]
       /\ d.st = f.st /\ d.epoch = e /\ d.quorum = q /\ d.sent = f.sent
  BY <1>10, <1>21 DEF IsCall
<1>23. /\ IsMem(d.s) /\ d.s.state = "recovering" /\ d.s.accepted_pn = pn /\ d.s.num_last = 1
       /\ d.s.new_value = NoValue /\ d.s.timers = {"collect"}
       /\ d.s.last_committed = mem[m].last_committed
  BY <1>21, <1>22 DEF IsCall, IsMem
<1>24. IsCall(d)
  BY <1>21, <1>22, <1>23 DEF IsCall
<1>25. PICK x : x = [epoch |-> e, role |-> "leader", leader |-> m, quorum |-> q,
                     flushing |-> FALSE]
  OBVIOUS
<1>26. /\ x \in Place /\ x.epoch = e /\ x.role = "leader" /\ x.flushing = FALSE
       /\ x.quorum = q /\ x.leader = m
  BY <1>2, <1>3, <1>12, <1>25 DEF Place, Role
<1>27. Wins(d, e, pn, x.quorum \ {m})
  <2> SUFFICES ASSUME NEW j \in Mon, NEW k \in 1 .. Len(d.sent[j])
               PROVE  /\ j \in x.quorum \ {m}
                      /\ \/ Is(d.sent[j][k], "victory", e)
                         \/ /\ Is(d.sent[j][k], "collect", e) /\ d.sent[j][k].pn = pn
                            /\ k = Len(d.sent[j])
    BY DEF Wins
  <2>1. CollectSaid(m, t, f, pn, j)
    BY <1>17, <1>20, CollectSays
  <2>2. \/ k \in 1 .. Len(t.sent[j]) /\ d.sent[j][k] = t.sent[j][k]
        \/ /\ j \in Peers(m, t) /\ k = Len(d.sent[j])
           /\ Is(d.sent[j][k], "collect", t.epoch) /\ d.sent[j][k].pn = pn
    BY <1>22, <2>1 DEF CollectSaid
  <2>3. CASE k \in 1 .. Len(t.sent[j]) /\ d.sent[j][k] = t.sent[j][k]
    <3>1. j \in q \ {m}
      BY <1>17, <2>3, EmptyIs
    <3>2. PICK a : a = Append(<<>>, victory)
      OBVIOUS
    <3>3. Len(a) = 0 + 1 /\ a[0 + 1] = victory
      BY <3>2, EmptyIs, AppendIs
    <3>4. t.sent[j] = a
      BY <1>17, <3>1, <3>2
    <3>5. d.sent[j][k] = victory
      <4>1. Len(a) = 1 /\ a[1] = victory
        BY <3>3
      <4>2. k \in 1 .. Len(a) /\ d.sent[j][k] = a[k]
        BY <2>3, <3>4
      <4>3. k = 1
        BY <4>1, <4>2
      <4> QED
        BY <4>1, <4>2, <4>3
    <3> QED
      BY <1>16, <1>26, <3>1, <3>5 DEF Is
  <2>4. CASE /\ j \in Peers(m, t) /\ k = Len(d.sent[j])
             /\ Is(d.sent[j][k], "collect", t.epoch) /\ d.sent[j][k].pn = pn
    BY <1>17, <1>26, <2>4 DEF Peers
  <2> QED
    BY <2>2, <2>3, <2>4
<1>28. Becomes(m, x)
  <2>1. flushing' = [flushing EXCEPT ![m] = x.flushing]
    <3>1. flushing \in [Mon -> BOOLEAN] /\ flushing' = flushing
      BY <1>11 DEF Inv, Join
    <3> QED
      BY <1>2, <1>26, <3>1
  <2> QED
    BY <1>11, <1>22, <1>26, <2>1 DEF Becomes, Join
<1>29. PICK n : n = net
  OBVIOUS
<1>30. Ends(m, x, d.s, d.st, n, d) /\ Taken(n)
  BY <1>11, <1>28, <1>29, TakenNone DEF Join, Ends
<1>31. PICK s, st : s = d.s /\ st = d.st
  OBVIOUS
<1>32. /\ Carried(net, n, net', m, d.sent)
       /\ OthersStay(m, View, View', mem, mem', store, store')
       /\ View'[m] = x /\ mem'[m] = s /\ store'[m] = st
  BY <1>24, <1>26, <1>30, <1>31, EndsIs
<1>33. /\ mem'[m].accepted_pn = pn /\ mem'[m].state = "recovering" /\ mem'[m].num_last = 1
       /\ store'[m].last_pn = pn /\ store'[m].accepted_pn = store[m].accepted_pn
       /\ IsStore(store'[m]) /\ mem'[m].new_value = NoValue /\ mem'[m].timers = {"collect"}
       /\ store'[m].last_committed = mem'[m].last_committed
  BY <1>19, <1>21, <1>22, <1>23, <1>31, <1>32
<1>34. Fresh(m, store[m], pn) /\ pn \in Nat
  BY <1>5, <1>17, <1>20 DEF Fresh
<1>35. LocalOK(x, m, mem'[m], store'[m])
  <2>1. /\ {"lease_ack", "lease_renew"} \cap mem'[m].timers = {} /\ "accept" \notin mem'[m].timers
    BY <1>33
  <2> QED
    BY <1>1, <1>26, <1>33, <1>34, <2>1 DEF LocalOK
<1>36. e = View[m].epoch + 1 /\ e % 2 = 0
  BY <1>2, <1>12, ViewIs, AtFields
<1> QED
  BY <1>24, <1>26, <1>27, <1>29, <1>32, <1>33, <1>34, <1>35, <1>36, WinnerRound


----------------------------------------------------------------------------
(* Every step keeps the rounds.                                             *)

LEMMA DispatchRounds ==
  ASSUME Inv, Inv', RoundInv, NEW m \in Mon, NEW from \in Mon, dispatch(m, from)
  PROVE  RoundInv'
<1>1. PICK msg : msg = Head(net[from][m])
  OBVIOUS
<1>2. net[from][m] # <<>> /\ ~flushing[m]
  BY DEF dispatch
<1>3. CASE msg.op = "victory" /\ handle_victory(m, from, msg)
  BY <1>1, <1>2, <1>3, VictoryRounds
<1>4. CASE msg.op # "victory" /\ bootstrap(m, Call(m), Consumed(from, m))
  <2>1. PICK n : n = Consumed(from, m)
    OBVIOUS
  <2>2. Taken(n)
    BY <1>2, <2>1, TakenHead
  <2> QED
    BY <1>4, <2>1, <2>2, BootstrapRounds
<1>5. CASE /\ msg.epoch = epoch[m]
           /\ \/ msg.op = "collect" /\ handle_collect(m, from, msg)
              \/ msg.op = "last" /\ handle_last(m, from, msg)
              \/ msg.op = "begin" /\ handle_begin(m, from, msg)
              \/ msg.op = "accept" /\ handle_accept(m, from, msg)
              \/ msg.op = "commit" /\ handle_commit(m, from, msg)
              \/ msg.op = "lease" /\ handle_lease(m, from, msg)
              \/ msg.op = "lease_ack" /\ handle_lease_ack(m, from, msg)
  <2>1. Hears(m, from, msg)
    BY <1>1, <1>2, <1>5 DEF Hears
  <2> QED
    BY <1>5, <2>1, CollectRounds, LastRounds, BeginRounds, AcceptRounds, CommitRounds,
       LeaseRounds, LeaseAckRounds
<1> QED
  BY <1>1, <1>3, <1>4, <1>5 DEF dispatch

LEMMA InitRounds ==
  ASSUME Init
  PROVE  RoundInv
<1>1. \A m \in Mon : View[m].role = "probing" /\ View[m].flushing = FALSE
  BY DEF Init, View, At
<1>2. \A i, j \in Mon : Len(net[i][j]) = 0
  BY EmptyIs DEF Init
<1>3. \A i \in Mon : RoundOK(View, mem, net, i)
  BY <1>1 DEF RoundOK, Leading
<1>4. \A i, j \in Mon : /\ PromiseOK(i, View[j], mem[j].accepted_pn, net[i][j])
                        /\ SentOK(store, View[i], net[i][j])
  BY <1>2 DEF PromiseOK, SentOK
<1>5. ASSUME NEW m \in Mon
      PROVE  LocalOK(View[m], m, mem[m], store[m]) /\ NumbersOK(store, mem[m], store[m])
  <2>1. mem[m] = Loaded(EmptyStore) /\ \A p \in Mon : store[p] = EmptyStore
    BY DEF Init
  <2>2. PICK st : st = EmptyStore
    OBVIOUS
  <2>3. /\ IsStore(st) /\ st.last_pn = 0 /\ st.accepted_pn = 0
    BY <2>2 DEF EmptyStore, IsStore
  <2>4. PICK s : s = Loaded(st)
    OBVIOUS
  <2>5. /\ s.state = "recovering" /\ s.timers = {} /\ s.new_value = NoValue
        /\ s.last_committed = st.last_committed /\ s.accepted_pn = st.accepted_pn
    BY <2>4 DEF Loaded
  <2>6. mem[m] = s /\ \A p \in Mon : store[p] = st
    BY <2>1, <2>2, <2>4
  <2>7. LocalOK(View[m], m, s, st)
    BY <1>1, <2>3, <2>5 DEF LocalOK, Updating, Writing
  <2>8. Used(store, 0)
    BY <2>3, <2>6 DEF Used
  <2> QED
    BY <2>3, <2>5, <2>6, <2>7, <2>8 DEF NumbersOK
<1> QED
  BY <1>3, <1>4, <1>5 DEF RoundInv, Rounds

LEMMA NextKeepsRounds ==
  ASSUME Inv, Inv', RoundInv, [Next]_vars
  PROVE  RoundInv'
<1>1. CASE UNCHANGED vars
  <2>1. View' = View
    BY <1>1 DEF vars, View, At
  <2>2. mem' = mem /\ store' = store /\ net' = net
    BY <1>1 DEF vars
  <2> QED
    BY <2>1, <2>2 DEF RoundInv
<1>2. ASSUME NEW m \in Mon, Next,
             \/ start_election(m)
             \/ \E p \in Mon : join_election(m, p)
             \/ win_election(m)
             \/ \E from \in Mon : dispatch(m, from)
             \/ apply_transaction(m)
             \/ committed(m)
             \/ trigger_propose(m)
             \/ collect_timeout(m)
             \/ accept_timeout(m)
             \/ lease_ack_timeout(m)
             \/ lease_timeout(m)
             \/ lease_renew_timeout(m)
             \/ crash(m)
      PROVE  RoundInv'
  <2>1. CASE start_election(m) \/ win_election(m) \/ \E p \in Mon : join_election(m, p)
    BY <2>1, StartElectionRounds, JoinElectionRounds, WinElectionRounds
  <2>2. CASE \E from \in Mon : dispatch(m, from)
    BY <2>2, DispatchRounds
  <2>3. CASE apply_transaction(m) \/ committed(m) \/ trigger_propose(m)
    BY <2>3, ApplyTransactionRounds, CommittedRounds, TriggerProposeRounds
  <2>4. CASE collect_timeout(m) \/ accept_timeout(m) \/ lease_ack_timeout(m) \/ lease_timeout(m)
    BY <2>4, ExpireRounds DEF collect_timeout, accept_timeout, lease_ack_timeout, lease_timeout
  <2>5. CASE lease_renew_timeout(m)
    BY <2>5, LeaseRenewRounds
  <2>6. CASE crash(m)
    BY <2>6, CrashRounds
  <2> QED
    BY <1>2, <2>1, <2>2, <2>3, <2>4, <2>5, <2>6
<1> QED
  BY <1>1, <1>2 DEF Next

(* The rounds of every leader hold for ever: each peer of its quorum is at  *)
(* one point of the exchange COLLECT, LAST, BEGIN, ACCEPT, and the leader's *)
(* counts are of the answers to the round it is in.                         *)
THEOREM RoundInvariance == Spec => []RoundInv
<1>1. Init => RoundInv
  BY InitRounds
<1>2. Inv /\ Inv' /\ RoundInv /\ [Next]_vars => RoundInv'
  BY NextKeepsRounds
<1> QED
  BY <1>1, <1>2, Invariance, PTL DEF Spec

LEMMA RoundsFollow ==
  ASSUME Inv, RoundInv
  PROVE  RoundsHold
<1>1. ASSUME NEW m \in Mon, NEW from \in Mon, Hearing(m, from), NEW msg,
             msg = Head(net[from][m])
      PROVE  /\ msg.op = "begin" => msg.pn = mem[m].accepted_pn
             /\ msg.op = "accept" => Updating(mem[m]) /\ from \notin mem[m].accepted
  <2>1. Hears(m, from, msg)
    BY <1>1 DEF Hearing, Hears
  <2>2. /\ Len(net[from][m]) >= 1 /\ msg = net[from][m][1] /\ msg.epoch = View[m].epoch
        /\ Len(net[from][m]) \in Nat
    BY <2>1, HeadTaken, NetIs
  <2>3. 1 \in 1 .. Len(net[from][m])
    BY <2>2
  <2>4. ASSUME msg.op = "begin" PROVE msg.pn = mem[m].accepted_pn
    <3>1. /\ Joined(View[m], from, View[m].epoch) /\ View[m].epoch = epoch[m]
          /\ epoch[m] % 2 = 0
      BY <2>1, <2>4, PeonHeard DEF LeaderOp
    <3>2. PromiseOK(from, View[m], mem[m].accepted_pn, net[from][m])
      BY <1>1 DEF RoundInv, Rounds
    <3>3. Answered(from, msg.epoch, msg.pn, View[m], mem[m].accepted_pn, net[from][m])
      BY <2>2, <2>3, <2>4, <3>1, <3>2 DEF PromiseOK
    <3> QED
      BY <2>2, <3>1, <3>3 DEF Answered
  <2>5. ASSUME msg.op = "accept" PROVE Updating(mem[m]) /\ from \notin mem[m].accepted
    <3>1. Leading(View[m]) /\ from \in Others(m)
      BY <2>1, <2>5, ReplyHeard DEF ReplyOp
    <3>2. PICK C \in SUBSET Others(m) :
              CountOK(mem[m], C, Others(m)) /\ PairsOK(m, Awaited(mem[m]), C, net)
      BY <1>1, <3>1, RoundIs
    <3>3. PICK A : A = Awaited(mem[m])
      OBVIOUS
    <3>4. AcceptOK(View[m].epoch, A, from, net[from][m])
      BY <3>1, <3>2, <3>3 DEF PairsOK, PairOK
    <3>5. from \in A
      BY <2>2, <2>3, <2>5, <3>4 DEF AcceptOK, Is
    <3> QED
      BY <3>3, <3>5 DEF Awaited
  <2> QED
    BY <2>4, <2>5
<1>2. ASSUME NEW m \in Mon, NEW s, s = mem[m]
      PROVE  /\ "accept" \in s.timers => Updating(s) \/ Writing(s)
             /\ "lease_ack" \in s.timers => s.state = "active"
             /\ ~Writing(s) => store[m].last_committed = s.last_committed
             /\ s.new_value # NoValue => Updating(s) \/ Writing(s)
             /\ Updating(s) /\ role[m] = "leader" => 2 * s.num_last > N
  <2>1. LocalOK(View[m], m, s, store[m])
    BY <1>2, MemRound
  <2>2. ASSUME Updating(s), role[m] = "leader" PROVE 2 * s.num_last > N
    <3>1. View[m].role = role[m] /\ View[m].quorum = quorum[m] /\ View[m].flushing = flushing[m]
          /\ quorum[m] \in SUBSET Mon
      BY <1>2, ViewIs, AtFields, Facts
    <3>2. Leading(View[m])
      <4>1. ~Writing(s)
        BY <2>2 DEF Updating, Writing
      <4>2. ~flushing[m]
        BY <2>1, <3>1, <4>1 DEF LocalOK
      <4> QED
        BY <1>2, <2>2, <4>2, LeadingIs
    <3>3. PICK C \in SUBSET Others(m) :
              CountOK(mem[m], C, Others(m)) /\ PairsOK(m, Awaited(mem[m]), C, net)
      BY <1>2, <3>2, RoundIs
    <3>4. C = Others(m) /\ s.num_last = 1 + Cardinality(C)
      BY <1>2, <2>2, <3>3 DEF CountOK, Updating
    <3>5. m \in quorum[m] /\ IsMajority(quorum[m])
      BY <2>1, <2>2, <3>1 DEF LocalOK
    <3>6. C \in SUBSET Mon /\ m \notin C /\ quorum[m] = C \union {m}
      BY <3>1, <3>4, <3>5 DEF Others
    <3>7. Cardinality(C) \in Nat /\ Cardinality(quorum[m]) = Cardinality(C) + 1
      BY <3>6, CountMore
    <3>8. s.num_last = Cardinality(quorum[m])
      BY <3>4, <3>7
    <3> QED
      BY <3>5, <3>8 DEF IsMajority
  <2>3. "lease_ack" \in s.timers => s.state = "active"
    BY <2>1 DEF LocalOK
  <2> QED
    BY <2>1, <2>2, <2>3 DEF LocalOK
<1> QED
  BY <1>1, <1>2 DEF RoundsHold

(* No assert of Paxos.cc on roles or rounds ever fails, for any number of   *)
(* monitors and whatever elections, crashes and timeouts there are: a BEGIN *)
(* finds the peon promised to its number, an ACCEPT an update that awaits   *)
(* it, a timer the state it was armed in, and begin a majority that has     *)
(* answered this leader's last COLLECT and no value in flight.              *)
THEOREM AssertsHoldAlways == Spec => []AssertsHold
<1>1. Inv /\ RoundInv => RoundsHold
  BY RoundsFollow
<1>2. RolesHold /\ RoundsHold => AssertsHold
  BY DEF AssertsHold
<1> QED
  BY <1>1, <1>2, Invariance, RoundInvariance, RolesHoldAlways, PTL
=============================================================================
