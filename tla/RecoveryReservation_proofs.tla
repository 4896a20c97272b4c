-------------------- MODULE RecoveryReservation_proofs --------------------
(* Every step of recovery and backfill reservations keeps the invariant of  *)
(* RecoveryReactions_proofs unless it sets hasty, and a weaker one, Light,  *)
(* in any case; and what follows from them.                                 *)
EXTENDS RecoveryReactions_proofs

----------------------------------------------------------------------------
(* Steps that leave the reservers and the states alone.                     *)

LEMMA QuietAll ==
  ASSUME NEW ps, NEW lo, NEW re, AllOK(ps, lo, re), NEW g \in PG, NEW l, l = lay[g],
         NEW q, q = ps[g], NEW x \in PGRecord, GroupOK(x, l), x.state = q.state, x.epoch = q.epoch,
         \A o \in l.replicas : \A c \in Context : Callback(q, l, o, c) => Callback(x, l, o, c),
         NEW ps2, Moved(ps, g, x, ps2)
  PROVE  AllOK(ps2, lo, re)
<1>1. /\ ps \in [PG -> PGRecord] /\ q \in PGRecord /\ GroupOK(q, l) /\ IsLayout(l)
      /\ \A o \in OSD : /\ Fits(lo[o], LocalSet(lay, ps, o), LocalHolding(lay, ps, o))
                        /\ Fits(re[o], RemoteSet(lay, ps, o), RemoteHolding(lay, ps, o))
  BY AllIs
<1>2. ASSUME NEW a \in OSD
      PROVE  Fits(lo[a], LocalSet(lay, ps2, a), LocalHolding(lay, ps2, a))
  <2>1. PICK r : r = lo[a]
    OBVIOUS
  <2>2. \A c \in Context : c.pg = g /\ Holds(r, c) /\ LocalOK(ps[g], lay[g], a, c) =>
                            LocalOK(x, lay[g], a, c)
    BY DEF LocalOK
  <2>3. g \in LocalHolding(lay, ps, a) /\ HasReservation(r, g) => x.state[a] \in LocalHolders
    BY DEF LocalHolding
  <2>4. Fits(r, LocalSet(lay, ps, a), LocalHolding(lay, ps, a))
    BY <1>1, <2>1
  <2>5. Fits(r, LocalSet(lay, ps2, a), LocalHolding(lay, ps2, a))
    BY <1>1, <2>2, <2>3, <2>4, LocalMove
  <2> QED
    BY <2>1, <2>5
<1>3. ASSUME NEW a \in OSD
      PROVE  Fits(re[a], RemoteSet(lay, ps2, a), RemoteHolding(lay, ps2, a))
  <2>1. PICK r : r = re[a]
    OBVIOUS
  <2>2. \A c \in Context : c.pg = g /\ Holds(r, c) /\ RemoteOK(ps[g], lay[g], a, c) =>
                            RemoteOK(x, lay[g], a, c)
    BY DEF RemoteOK, Callback
  <2>3. g \in RemoteHolding(lay, ps, a) /\ HasReservation(r, g) => x.state[a] \in RemoteHolders
    BY DEF RemoteHolding
  <2>4. Fits(r, RemoteSet(lay, ps, a), RemoteHolding(lay, ps, a))
    BY <1>1, <2>1
  <2>5. Fits(r, RemoteSet(lay, ps2, a), RemoteHolding(lay, ps2, a))
    BY <1>1, <2>2, <2>3, <2>4, RemoteMove
  <2> QED
    BY <2>1, <2>5
<1>4. GroupsOK(lay, ps2)
  BY GroupsMove DEF AllOK
<1> QED
  BY <1>2, <1>3, <1>4 DEF AllOK, LocalsOK, RemotesOK

LEMMA ScansSame ==
  ASSUME NEW q, NEW x, NEW l, ScansOK(q, l), x.scan = q.scan, x.own = q.own
  PROVE  ScansOK(x, l)
BY DEF ScansOK

LEMMA OthersSame ==
  ASSUME NEW q, NEW x, NEW l, OthersOK(q, l), x.scan = q.scan, x.own = q.own,
         x.toReplica = q.toReplica, x.toPrimary = q.toPrimary
  PROVE  OthersOK(x, l)
BY DEF OthersOK

LEMMA SameView ==
  ASSUME NEW q, NEW x, NEW l, x.state = q.state, x.epoch = q.epoch, x.it = q.it,
         x.todo = q.todo, x.timers = q.timers
  PROVE  \A o : View(x, l, o) = View(q, l, o)
BY DEF View, RetriesLate

LEMMA PeersAlike ==
  ASSUME NEW q, NEW x, NEW l, GroupOK(q, l), NEW o \in l.replicas, View(x, l, o) = View(q, l, o),
         x.state = q.state, x.epoch = q.epoch, x.toReplica = q.toReplica,
         x.toPrimary = q.toPrimary
  PROVE  PeersKept(q, x, l, o)
BY DEF GroupOK, PeerOK, PeersKept, Callback

(* Nothing of the peers, the state or the timers changes.                   *)
Alike(q, x) ==
    /\ x.state = q.state /\ x.epoch = q.epoch /\ x.it = q.it /\ x.todo = q.todo
    /\ x.timers = q.timers /\ x.toReplica = q.toReplica /\ x.toPrimary = q.toPrimary

LEMMA AlikeAll ==
  ASSUME NEW ps, NEW lo, NEW re, AllOK(ps, lo, re), NEW g \in PG, NEW l, l = lay[g],
         NEW q, q = ps[g], NEW x \in PGRecord, Alike(q, x),
         \A o \in OSD : x.epoch[o] <= x.interval,
         OthersOK(x, l), ScansOK(x, l),
         NEW p, p = l.primary,
         OwnOK(x.own[p], x.epoch[p], x.state[p], x.working, x.todo),
         WorkOK(x.state[p], x.it, x.working, x.todo, l),
         NEW ps2, Moved(ps, g, x, ps2)
  PROVE  AllOK(ps2, lo, re)
<1>1. q \in PGRecord /\ GroupOK(q, l) /\ IsLayout(l)
  BY AllIs
<1>2. \A o \in l.replicas : View(x, l, o) = View(q, l, o)
  BY SameView DEF Alike
<1>3. \A o \in l.replicas : PeersKept(q, x, l, o)
  BY <1>1, <1>2, PeersAlike DEF Alike
<1>4. TimersOK(x.timers, x.epoch[p], x.state[p])
  BY <1>1 DEF GroupOK, Alike
<1>5. GroupOK(x, l)
  BY <1>3, <1>4 DEF GroupOK, PeersKept
<1> QED
  BY <1>3, <1>5, QuietAll DEF Alike, PeersKept

----------------------------------------------------------------------------
(* An event is taken from where it waits and handled.                       *)

(* A target found itself too full during a scan of this interval and was    *)
(* released before it took the event it queued for itself.                  *)
TooFullLate ==
    \E g \in PG : \E o \in lay[g].replicas :
        /\ pgs[g].own[o] # <<>>
        /\ Head(pgs[g].own[o]).ev = "BackfillTooFull"
        /\ Head(pgs[g].own[o]).epoch = pgs[g].epoch[o]
        /\ pgs[g].state[o] # "RepRecovering"

(* What every step keeps.                                                   *)
Kept ==
    /\ lay' = lay
    /\ AllOK(pgs', local', remote')
    /\ fulls' \in 0 .. MaxFull
    /\ crashed' \in BOOLEAN
    /\ ~TooFullLate => crashed' = crashed

State ==
    /\ pgs \in [PG -> PGRecord]
    /\ local \in [OSD -> Reserver]
    /\ remote \in [OSD -> Reserver]
    /\ fulls \in 0 .. MaxFull
    /\ crashed \in BOOLEAN
    /\ AllOK(pgs, local, remote)

Moves(ps, lo, re, g, o, w) ==
    /\ ~TooFullLate => ~w.bad
    /\ AllOK([ps EXCEPT ![g] = w.p], [lo EXCEPT ![o] = w.l], [re EXCEPT ![o] = w.r])

LEMMA MovedTwice ==
  ASSUME NEW S, NEW T, NEW f \in [S -> T], NEW i \in S, NEW a, NEW b, NEW h, NEW k,
         Moved(f, i, a, h), Moved(f, i, b, k)
  PROVE  Moved(h, i, b, k)
BY DEF Moved

LEMMA EventStep ==
  ASSUME State, NEW g \in PG, NEW o \in OSD, NEW e, NEW q, NEW l, NEW r, NEW full \in BOOLEAN,
         q.epoch[o] \in Nat, e.epoch \in Nat,
         do_peering_event(g, o, e, q, l, r, full),
         NEW ps, NEW lo, NEW re, Moved(pgs, g, q, ps), Moved(local, o, l, lo),
         Moved(remote, o, r, re),
         NEW w, w = [p |-> q, l |-> l, r |-> r, bad |-> FALSE],
         e.epoch < q.epoch[o] => Moves(ps, lo, re, g, o, w),
         e.epoch = q.epoch[o] /\ IsPrimary(g, o) =>
            Moves(ps, lo, re, g, o, Primary_react(w, g, o, e.ev, full)),
         e.epoch = q.epoch[o] /\ ~IsPrimary(g, o) =>
            Moves(ps, lo, re, g, o, Replica_react(w, g, o, e.ev, full))
  PROVE  Kept
<1> DEFINE x == IF old_peering_evt(q, o, e) THEN w
                ELSE IF IsPrimary(g, o) THEN Primary_react(w, g, o, e.ev, full)
                ELSE Replica_react(w, g, o, e.ev, full)
<1>1. /\ e.epoch <= q.epoch[o]
      /\ full => fulls < MaxFull
      /\ pgs' = [pgs EXCEPT ![g] = x.p]
      /\ local' = [local EXCEPT ![o] = x.l]
      /\ remote' = [remote EXCEPT ![o] = x.r]
      /\ fulls' = IF full THEN fulls + 1 ELSE fulls
      /\ crashed' = (crashed \/ x.bad)
      /\ lay' = lay
  BY DEF do_peering_event
<1>2. Moves(ps, lo, re, g, o, x)
  <2>1. e.epoch < q.epoch[o] \/ e.epoch = q.epoch[o]
    BY <1>1
  <2> QED
    BY <2>1 DEF old_peering_evt
<1> HIDE DEF x
<1>3. pgs' = [ps EXCEPT ![g] = x.p]
  <2>1. Moved(pgs, g, x.p, pgs')
    BY <1>1 DEF Moved
  <2>2. Moved(ps, g, x.p, pgs')
    BY <2>1, MovedTwice DEF State
  <2> QED
    BY <2>2 DEF Moved
<1>4. local' = [lo EXCEPT ![o] = x.l]
  <2>1. Moved(local, o, x.l, local')
    BY <1>1 DEF Moved
  <2>2. Moved(lo, o, x.l, local')
    BY <2>1, MovedTwice DEF State
  <2> QED
    BY <2>2 DEF Moved
<1>5. remote' = [re EXCEPT ![o] = x.r]
  <2>1. Moved(remote, o, x.r, remote')
    BY <1>1 DEF Moved
  <2>2. Moved(re, o, x.r, remote')
    BY <2>1, MovedTwice DEF State
  <2> QED
    BY <2>2 DEF Moved
<1>6. AllOK(pgs', local', remote')
  BY <1>2, <1>3, <1>4, <1>5 DEF Moves
<1>7. fulls' \in 0 .. MaxFull
  BY <1>1, RecoveryReservationAssumption DEF State
<1>8. crashed' \in BOOLEAN /\ (~TooFullLate => crashed' = crashed)
  BY <1>1, <1>2 DEF Moves, State
<1> QED
  BY <1>1, <1>6, <1>7, <1>8 DEF Kept

LEMMA ReactsMoves ==
  ASSUME NEW ps, NEW lo, NEW re, NEW g, NEW o, NEW w, Reacts(ps, lo, re, g, o, w)
  PROVE  Moves(ps, lo, re, g, o, w)
BY DEF Reacts, Moves

LEMMA MovedSame ==
  ASSUME NEW S, NEW T, NEW f \in [S -> T], NEW i \in S
  PROVE  Moved(f, i, f[i], f)
BY DEF Moved

LEMMA EpochIs ==
  ASSUME NEW q \in PGRecord, NEW o \in OSD
  PROVE  q.epoch[o] \in Nat /\ q.epoch[o] \in Interval
BY RecoveryReservationAssumption DEF PGRecord, Interval

LEMMA IntervalIs == Interval \subseteq Nat
BY RecoveryReservationAssumption DEF Interval

(* The Finisher has taken its first callback.                               *)
Popped(s, r) == s.f # <<>> /\ r = [s EXCEPT !.f = Tail(@)]

LocalPopped(ps, re, o, r, lo2, c) ==
    /\ c \in Context /\ LocalOK(ps[c.pg], lay[c.pg], o, c)
    /\ AllOK(ps, lo2, re) /\ lo2[o] = r
    /\ c.ev \in GrantEvents => Fits(r, LocalSet(lay, ps, o) \ {c}, LocalHolding(lay, ps, o))

LEMMA LocalPop ==
  ASSUME NEW ps, NEW lo, NEW re, AllOK(ps, lo, re), NEW o \in OSD,
         NEW r, Popped(lo[o], r), NEW lo2, Moved(lo, o, r, lo2)
  PROVE  LocalPopped(ps, re, o, r, lo2, Head(lo[o].f))
<1>0. PICK c : c = Head(lo[o].f)
  OBVIOUS
<1>1. PICK s, A, H : s = lo[o] /\ A = LocalSet(lay, ps, o) /\ H = LocalHolding(lay, ps, o)
  OBVIOUS
<1>2. Fits(s, A, H)
  BY <1>1 DEF AllOK, LocalsOK
<1>3. /\ c \in A /\ c \in Context
      /\ c.ev \in GrantEvents => Fits(r, A \ {c}, H)
      /\ Fits(r, A, H)
  <2>1. s.f # <<>> /\ r = [s EXCEPT !.f = Tail(@)] /\ c = Head(s.f)
    BY <1>0, <1>1 DEF Popped
  <2> QED
    BY <1>2, <2>1, FitsFinish
<1>4. r \in Reserver
  BY <1>3, FitsTypes
<1>5. /\ lo2 \in [OSD -> Reserver] /\ lo2[o] = r /\ \A a \in OSD : a # o => lo2[a] = lo[a]
  BY <1>4 DEF Moved, AllOK
<1>6. LocalsOK(lay, ps, lo2)
  BY <1>1, <1>3, <1>5 DEF AllOK, LocalsOK
<1>7. LocalOK(ps[c.pg], lay[c.pg], o, c)
  BY <1>1, <1>3 DEF LocalSet
<1>8. LocalPopped(ps, re, o, r, lo2, c)
  BY <1>1, <1>3, <1>5, <1>6, <1>7 DEF AllOK, LocalPopped
<1> QED
  BY <1>0, <1>8

LEMMA FinishLocalStep ==
  ASSUME State, NEW o \in OSD, FinishLocal(o)
  PROVE  Kept
<1>1. PICK c, r, g, q : /\ c = Head(local[o].f) /\ r = [local[o] EXCEPT !.f = Tail(@)]
                        /\ g = c.pg /\ q = pgs[g]
  OBVIOUS
<1>2. local[o].f # <<>> /\ do_peering_event(g, o, c, q, r, remote[o], FALSE)
  BY <1>1 DEF FinishLocal
<1>3. PICK lo : Moved(local, o, r, lo)
  BY DEF Moved
<1>4. AllOK(pgs, local, remote) /\ pgs \in [PG -> PGRecord] /\ remote \in [OSD -> Reserver]
  BY DEF State
<1>5. /\ c \in Context /\ LocalOK(pgs[c.pg], lay[c.pg], o, c)
      /\ AllOK(pgs, lo, remote) /\ lo[o] = r
      /\ c.ev \in GrantEvents => Fits(r, LocalSet(lay, pgs, o) \ {c}, LocalHolding(lay, pgs, o))
  <2>1. Popped(local[o], r)
    BY <1>1, <1>2 DEF Popped
  <2>2. c = Head(local[o].f)
    BY <1>1
  <2>3. LocalPopped(pgs, remote, o, r, lo, Head(local[o].f))
    BY <1>3, <1>4, <2>1, LocalPop
  <2> QED
    BY <2>2, <2>3 DEF LocalPopped
<1>6. g \in PG /\ c.epoch \in Nat /\ q \in PGRecord
  BY <1>1, <1>4, <1>5, ContextIs, IntervalIs
<1>7. PICK l, w : l = lay[g] /\ w = [p |-> q, l |-> r, r |-> remote[o], bad |-> FALSE]
  OBVIOUS
<1>8. o = l.primary /\ LocalOK(q, l, o, c)
  BY <1>1, <1>5, <1>7 DEF LocalOK
<1>9. Stage(pgs, lo, remote, g, l, o, q, w)
  BY <1>1, <1>5, <1>6, <1>7, <1>8 DEF Stage
<1>10. Moved(pgs, g, q, pgs) /\ Moved(remote, o, remote[o], remote)
  BY <1>1, <1>4, <1>6, MovedSame
<1>11. q.epoch[o] \in Nat /\ IsPrimary(g, o)
  BY <1>6, <1>7, <1>8, EpochIs DEF IsPrimary, Primary
<1>12. Reacts(pgs, lo, remote, g, o, w)
  BY <1>9, ReactDiscard
<1>13. ASSUME c.epoch = q.epoch[o]
       PROVE  Reacts(pgs, lo, remote, g, o, Primary_react(w, g, o, c.ev, FALSE))
  <2>1. q.state[o] # "Peering"
    BY <1>8, <1>13 DEF LocalOK
  <2>2. ASSUME c.ev \in {"LocalRecoveryReserved", "LocalBackfillReserved"}
        PROVE  NoGrant(q, o, g, lo[o])
    <3> SUFFICES ASSUME NEW d \in Context, Holds(r, d), d.pg = g, d.epoch = q.epoch[o],
                        d.ev \in GrantEvents
                 PROVE  FALSE
      BY <1>5 DEF NoGrant
    <3>1. Fits(r, LocalSet(lay, pgs, o) \ {c}, LocalHolding(lay, pgs, o))
      BY <1>5, <2>2 DEF GrantEvents
    <3>2. d \in LocalSet(lay, pgs, o) /\ d # c
      BY <3>1, HeldIs
    <3>3. LocalOK(q, l, o, d)
      BY <1>1, <1>7, <3>2 DEF LocalSet
    <3>4. d.ev = c.ev
      BY <1>8, <1>13, <2>2, <3>3 DEF LocalOK, GrantEvents
    <3>5. Context = [pg : PG, ev : Events, epoch : Interval]
      BY RecoveryReservationAssumption
    <3>6. c \in Context /\ d.pg = c.pg /\ d.epoch = c.epoch
      BY <1>1, <1>5, <1>13
    <3>7. d = c
      BY <3>4, <3>5, <3>6
    <3> QED
      BY <3>2, <3>7
  <2>3. FALSE \in BOOLEAN
    OBVIOUS
  <2>4. CASE c.ev = "LocalRecoveryReserved"
    <3>1. q.state[o] = "WaitLocalRecoveryReserved"
      BY <1>8, <1>13, <2>4 DEF LocalOK
    <3> QED
      BY <1>9, <2>2, <2>3, <2>4, <3>1, TakeLocalReserved
  <2>5. CASE c.ev = "LocalBackfillReserved"
    <3>1. q.state[o] = "WaitLocalBackfillReserved"
      BY <1>8, <1>13, <2>5 DEF LocalOK
    <3> QED
      BY <1>9, <2>2, <2>3, <2>5, <3>1, TakeLocalReserved
  <2>6. CASE c.ev = "DeferRecovery"
    BY <1>9, <2>1, <2>3, <2>6, TakeDeferRecovery
  <2>7. CASE c.ev = "DeferBackfill"
    BY <1>9, <2>1, <2>3, <2>7, TakeDeferBackfill
  <2> QED
    BY <1>8, <2>4, <2>5, <2>6, <2>7 DEF LocalOK
<1>14. /\ Moves(pgs, lo, remote, g, o, w)
       /\ c.epoch = q.epoch[o] => Moves(pgs, lo, remote, g, o, Primary_react(w, g, o, c.ev, FALSE))
  BY <1>12, <1>13, ReactsMoves
<1>15. PICK full \in BOOLEAN : full = FALSE
  OBVIOUS
<1>16. do_peering_event(g, o, c, q, r, remote[o], full)
  BY <1>2, <1>15
<1> QED
  BY <1>3, <1>6, <1>7, <1>10, <1>11, <1>14, <1>15, <1>16, EventStep

LEMMA PrimaryEvent ==
  ASSUME State, NEW g \in PG, NEW l, NEW p, NEW e, NEW x, NEW w, NEW full \in BOOLEAN,
         NEW ps, Moved(pgs, g, x, ps), Stage(ps, local, remote, g, l, p, x, w),
         e.epoch \in Nat, do_peering_event(g, p, e, x, local[p], remote[p], full),
         e.epoch = x.epoch[p] =>
            Reacts(ps, local, remote, g, p, Primary_react(w, g, p, e.ev, full))
  PROVE  Kept
<1>1. /\ p \in OSD /\ x.epoch[p] \in Nat /\ IsPrimary(g, p)
      /\ w = [p |-> x, l |-> local[p], r |-> remote[p], bad |-> FALSE]
  <2>1. p \in OSD /\ x.epoch[p] \in Nat
    BY StageIs
  <2>2. /\ p = lay[g].primary
        /\ w = [p |-> x, l |-> local[p], r |-> remote[p], bad |-> FALSE]
    BY DEF Stage
  <2> QED
    BY <2>1, <2>2 DEF IsPrimary, Primary
<1>2. PICK lo, re : lo = local[p] /\ re = remote[p]
  OBVIOUS
<1>3. Moved(local, p, lo, local) /\ Moved(remote, p, re, remote)
  BY <1>1, <1>2, MovedSame DEF State
<1>4. Moves(ps, local, remote, g, p, w)
  BY ReactDiscard, ReactsMoves
<1>5. e.epoch = x.epoch[p] => Moves(ps, local, remote, g, p, Primary_react(w, g, p, e.ev, full))
  BY ReactsMoves
<1>6. do_peering_event(g, p, e, x, lo, re, full)
  BY <1>2
<1>7. w = [p |-> x, l |-> lo, r |-> re, bad |-> FALSE]
  BY <1>1, <1>2
<1> QED
  BY <1>1, <1>3, <1>4, <1>5, <1>6, <1>7, EventStep

(* The primary takes an event it queued for itself.                         *)
LEMMA OwnPop ==
  ASSUME NEW s \in Seq(Event), s # <<>>, NEW e, NEW st, NEW working, NEW todo,
         OwnOK(s, e, st, working, todo), NEW h, h = Head(s)
  PROVE  /\ OwnOK(Tail(s), e, st, working, todo)
         /\ h \in Event
         /\ h.ev \in {"DoRecovery", "RequestBackfill", "AllReplicasRecovered", "Backfilled"}
         /\ h.epoch = e => st # "Peering"
         /\ h.epoch = e /\ h.ev # "Backfilled" =>
               /\ st = "Activating" \/ (st = "Recovering" /\ ~working)
               /\ h.ev = "DoRecovery" => st = "Activating"
               /\ h.ev # "DoRecovery" => "recovery" \notin todo
               /\ \A k \in 1 .. Len(Tail(s)) : Tail(s)[k].epoch = e => Tail(s)[k].ev = "Backfilled"
<1>1. PICK t, n : t = Tail(s) /\ n = Len(s)
  OBVIOUS
<1>2. /\ n \in Nat \ {0} /\ Len(t) = n - 1 /\ h = s[1] /\ h \in Event
      /\ \A k \in 1 .. Len(t) : t[k] = s[k + 1] /\ k + 1 \in 1 .. n
  BY <1>1, TailIs
<1>3. 1 \in 1 .. n
  BY <1>2
<1>4. \A k \in 1 .. n :
        /\ s[k].ev \in {"DoRecovery", "RequestBackfill", "AllReplicasRecovered", "Backfilled"}
        /\ s[k].epoch <= e
        /\ s[k].epoch = e => st # "Peering"
        /\ s[k].epoch = e /\ s[k].ev # "Backfilled" =>
              /\ st = "Activating" \/ (st = "Recovering" /\ ~working)
              /\ s[k].ev = "DoRecovery" => st = "Activating"
              /\ s[k].ev # "DoRecovery" => "recovery" \notin todo
              /\ \A j \in 1 .. n : s[j].epoch = e /\ s[j].ev # "Backfilled" => j = k
  BY <1>1 DEF OwnOK
<1>5. OwnOK(t, e, st, working, todo)
  <2> SUFFICES ASSUME NEW k \in 1 .. Len(t)
               PROVE  /\ t[k].ev \in {"DoRecovery", "RequestBackfill", "AllReplicasRecovered",
                                      "Backfilled"}
                      /\ t[k].epoch <= e
                      /\ t[k].epoch = e => st # "Peering"
                      /\ t[k].epoch = e /\ t[k].ev # "Backfilled" =>
                            /\ st = "Activating" \/ (st = "Recovering" /\ ~working)
                            /\ t[k].ev = "DoRecovery" => st = "Activating"
                            /\ t[k].ev # "DoRecovery" => "recovery" \notin todo
                            /\ \A j \in 1 .. Len(t) : t[j].epoch = e /\ t[j].ev # "Backfilled" => j = k
    BY DEF OwnOK
  <2>1. PICK i : i = k + 1
    OBVIOUS
  <2>2. i \in 1 .. n /\ t[k] = s[i]
    BY <1>2, <2>1
  <2>3. ASSUME NEW j \in 1 .. Len(t), \A a \in 1 .. n : s[a].epoch = e /\ s[a].ev # "Backfilled" => a = i,
               t[j].epoch = e, t[j].ev # "Backfilled"
        PROVE  j = k
    <3>1. t[j] = s[j + 1] /\ j + 1 \in 1 .. n
      BY <1>2
    <3>2. j + 1 = i
      BY <2>3, <3>1
    <3> QED
      BY <1>2, <2>1, <3>2
  <2> QED
    BY <1>4, <2>2, <2>3
<1>6. ASSUME h.epoch = e, h.ev # "Backfilled", NEW k \in 1 .. Len(t), t[k].epoch = e
      PROVE  t[k].ev = "Backfilled"
  <2>1. t[k] = s[k + 1] /\ k + 1 \in 1 .. n
    BY <1>2
  <2>2. t[k].ev # "Backfilled" => k + 1 = 1
    BY <1>2, <1>3, <1>4, <1>6, <2>1
  <2> QED
    BY <1>2, <2>2
<1>7. /\ h.ev \in {"DoRecovery", "RequestBackfill", "AllReplicasRecovered", "Backfilled"}
      /\ h.epoch = e => st # "Peering"
      /\ h.epoch = e /\ h.ev # "Backfilled" =>
               /\ st = "Activating" \/ (st = "Recovering" /\ ~working)
               /\ h.ev = "DoRecovery" => st = "Activating"
               /\ h.ev # "DoRecovery" => "recovery" \notin todo
  BY <1>2, <1>3, <1>4
<1> QED
  BY <1>1, <1>2, <1>5, <1>6, <1>7

OwnTaken(q, o, x) == x = [q EXCEPT !.own[o] = Tail(@)]

LEMMA OwnTakenIs ==
  ASSUME NEW q \in PGRecord, NEW o \in OSD, q.own[o] # <<>>, NEW x, OwnTaken(q, o, x)
  PROVE  /\ x \in PGRecord /\ Alike(q, x) /\ x.interval = q.interval /\ x.working = q.working
         /\ x.scan = q.scan /\ x.own[o] = Tail(q.own[o])
         /\ \A a \in OSD : a # o => x.own[a] = q.own[a]
<1>1. q.own \in [OSD -> Seq(Event)]
  BY DEF PGRecord
<1>2. Tail(q.own[o]) \in Seq(Event)
  BY <1>1, TailIs
<1>3. [q.own EXCEPT ![o] = Tail(@)] \in [OSD -> Seq(Event)]
  BY <1>1, <1>2
<1>4. x = [q EXCEPT !.own = [q.own EXCEPT ![o] = Tail(@)]]
  BY DEF OwnTaken, PGRecord
<1>5. x \in PGRecord
  BY <1>3, <1>4 DEF PGRecord
<1> QED
  BY <1>1, <1>4, <1>5 DEF PGRecord, Alike

LEMMA OwnPrimaryStep ==
  ASSUME State, NEW g \in PG, NEW p, p = Primary(g), NEW full \in BOOLEAN, Own(g, p, full)
  PROVE  Kept
<1>1. PICK l, q, h, x : l = lay[g] /\ q = pgs[g] /\ h = Head(q.own[p]) /\ OwnTaken(q, p, x)
  BY DEF OwnTaken
<1>2. q.own[p] # <<>> /\ do_peering_event(g, p, h, x, local[p], remote[p], full)
  BY <1>1 DEF Own, OwnTaken
<1>3. PICK ps : Moved(pgs, g, x, ps)
  BY DEF Moved
<1>4. AllOK(pgs, local, remote) /\ p = l.primary
  BY <1>1 DEF State, Primary
<1>5. q \in PGRecord /\ GroupOK(q, l) /\ IsLayout(l) /\ p \in OSD
  BY <1>1, <1>4, AllIs DEF IsLayout
<1>6. /\ x \in PGRecord /\ Alike(q, x) /\ x.interval = q.interval /\ x.working = q.working
      /\ x.scan = q.scan /\ x.own[p] = Tail(q.own[p])
      /\ \A a \in OSD : a # p => x.own[a] = q.own[a]
  BY <1>1, <1>2, <1>5, OwnTakenIs
<1>7. q.own[p] \in Seq(Event) /\ q.epoch[p] \in Nat
  BY <1>5, EpochIs DEF PGRecord
<1>8. /\ OwnOK(q.own[p], q.epoch[p], q.state[p], q.working, q.todo)
      /\ \A o \in OSD : q.epoch[o] <= q.interval
      /\ OthersOK(q, l) /\ ScansOK(q, l)
      /\ WorkOK(q.state[p], q.it, q.working, q.todo, l)
  BY <1>4, <1>5 DEF GroupOK
<1>9. PICK s, e, st, b, T : s = q.own[p] /\ e = q.epoch[p] /\ st = q.state[p] /\ b = q.working /\ T = q.todo
  OBVIOUS
<1>10. /\ OwnOK(Tail(s), e, st, b, T)
       /\ h \in Event
       /\ h.ev \in {"DoRecovery", "RequestBackfill", "AllReplicasRecovered", "Backfilled"}
       /\ h.epoch = e => st # "Peering"
       /\ h.epoch = e /\ h.ev # "Backfilled" =>
               /\ st = "Activating" \/ (st = "Recovering" /\ ~b)
               /\ h.ev = "DoRecovery" => st = "Activating"
               /\ h.ev # "DoRecovery" => "recovery" \notin T
               /\ \A k \in 1 .. Len(Tail(s)) : Tail(s)[k].epoch = e => Tail(s)[k].ev = "Backfilled"
  <2>1. s \in Seq(Event) /\ s # <<>> /\ OwnOK(s, e, st, b, T) /\ h = Head(s)
    BY <1>1, <1>2, <1>7, <1>8, <1>9
  <2> QED
    BY <2>1, OwnPop
<1>11. AllOK(ps, local, remote)
  <2>1. \A o \in OSD : x.epoch[o] <= x.interval
    BY <1>6, <1>8 DEF Alike
  <2>2. OthersOK(x, l)
    BY <1>4, <1>6, <1>8 DEF OthersOK, Alike
  <2>3. ScansOK(x, l)
    BY <1>4, <1>6, <1>8 DEF ScansOK
  <2>4. OwnOK(x.own[p], x.epoch[p], x.state[p], x.working, x.todo)
    BY <1>6, <1>9, <1>10 DEF Alike
  <2>5. WorkOK(x.state[p], x.it, x.working, x.todo, l)
    BY <1>6, <1>8 DEF Alike
  <2> QED
    BY <1>1, <1>3, <1>4, <1>6, <2>1, <2>2, <2>3, <2>4, <2>5, AlikeAll
<1>12. PICK w : w = [p |-> x, l |-> local[p], r |-> remote[p], bad |-> FALSE]
  OBVIOUS
<1>13. x = ps[g]
  BY <1>3, MovedIs DEF State
<1>14. Stage(ps, local, remote, g, l, p, x, w)
  BY <1>1, <1>4, <1>11, <1>12, <1>13 DEF Stage
<1>15. h.epoch \in Nat
  BY <1>10, EventIs
<1>16. x.epoch[p] = e /\ x.state[p] = st /\ x.todo = T
  BY <1>6, <1>9 DEF Alike
<1>17. GroupOK(x, l)
  BY <1>14, StageIs
<1>18. ASSUME h.epoch = x.epoch[p]
       PROVE  Reacts(ps, local, remote, g, p, Primary_react(w, g, p, h.ev, full))
  <2>1. x.state[p] # "Peering"
    BY <1>10, <1>16, <1>18
  <2>2. CASE h.ev = "Backfilled"
    BY <1>14, <2>1, <2>2, TakeBackfilled
  <2>3. ASSUME h.ev # "Backfilled"
        PROVE  NoOwn(x, p)
    BY <1>6, <1>9, <1>10, <1>16, <1>18, <2>3 DEF NoOwn
  <2>4. CASE h.ev = "DoRecovery"
    BY <1>14, <2>1, <2>3, <2>4, TakeDoRecovery
  <2>5. CASE h.ev = "AllReplicasRecovered"
    BY <1>10, <1>14, <1>16, <1>18, <2>3, <2>5, TakeAllRecovered
  <2>6. CASE h.ev = "RequestBackfill"
    <3>1. st \in {"Activating", "Recovering"} /\ "recovery" \notin T
      BY <1>10, <1>16, <1>18, <2>6
    <3>2. NoRetry(x.timers, x.epoch[p])
      BY <1>4, <1>16, <1>17, <3>1, NoRetryIs
    <3>3. ASSUME st = "Activating"
          PROVE  WasFree(x, remote, g, l)
      <4>1. \A o \in l.replicas : View(x, l, o) = "free"
        BY <1>4, <1>16, <3>3, ViewIs DEF FreeStates
      <4> QED
        BY <1>17, <4>1, FreeWas
    <3> QED
      BY <1>14, <1>16, <2>3, <2>6, <3>1, <3>2, <3>3, TakeRequestBackfill
  <2> QED
    BY <1>10, <2>2, <2>4, <2>5, <2>6
<1> QED
  BY <1>2, <1>3, <1>14, <1>15, <1>18, PrimaryEvent

----------------------------------------------------------------------------
(* The primary takes a message.                                             *)

LEMMA ViewWhen ==
  ASSUME NEW q, NEW l, NEW o, NEW s, s = q.state[l.primary], s \in ActiveStates \cup {"Peering"}
  PROVE  /\ View(q, l, o) # "peering" => s # "Peering"
         /\ View(q, l, o) = "drain" => s = "NotBackfilling"
         /\ View(q, l, o) = "asksRecovery" => s = "WaitRemoteRecoveryReserved"
         /\ View(q, l, o) = "asksBackfill" => s = "WaitRemoteBackfillReserved"
<1>1. \A P, it, v : AskView(P, it, o, v) \in {v, "granted", "free"}
  BY DEF AskView
<1>2. CASE s = "WaitRemoteRecoveryReserved"
  <2>1. View(q, l, o) = AskView(Peers(l, "recovery"), q.it, o, "asksRecovery")
    BY <1>2, ViewIs
  <2>2. View(q, l, o) \in {"asksRecovery", "granted", "free"}
    BY <1>1, <2>1
  <2> QED
    BY <1>2, <2>2
<1>3. CASE s = "WaitRemoteBackfillReserved"
  <2>1. View(q, l, o) = AskView(Peers(l, "backfill"), q.it, o, "asksBackfill")
    BY <1>3, ViewIs
  <2>2. View(q, l, o) \in {"asksBackfill", "granted", "free"}
    BY <1>1, <2>1
  <2> QED
    BY <1>3, <2>2
<1>4. CASE s \in FreeStates \cup {"Peering", "Recovering", "Backfilling", "NotBackfilling"}
  BY <1>4, ViewIs
<1> QED
  BY <1>2, <1>3, <1>4 DEF ActiveStates, FreeStates

LEMMA PeerAlike ==
  ASSUME NEW q, NEW x, NEW l, GroupOK(q, l), NEW o \in l.replicas, View(x, l, o) = View(q, l, o),
         x.state = q.state, x.epoch = q.epoch, x.toReplica[o] = q.toReplica[o],
         x.toPrimary[o] = q.toPrimary[o]
  PROVE  PeersKept(q, x, l, o)
BY DEF GroupOK, PeerOK, PeersKept, Callback

AnswerTaken(q, o, x) == x = [q EXCEPT !.toPrimary[o] = Tail(@)]

LEMMA AnswerTakenIs ==
  ASSUME NEW q \in PGRecord, NEW o \in OSD, q.toPrimary[o] # <<>>, NEW x, AnswerTaken(q, o, x)
  PROVE  /\ x \in PGRecord /\ x.interval = q.interval /\ x.working = q.working
         /\ x.scan = q.scan /\ x.own = q.own
         /\ x.state = q.state /\ x.epoch = q.epoch /\ x.it = q.it /\ x.todo = q.todo
         /\ x.timers = q.timers /\ x.toReplica = q.toReplica
         /\ x.toPrimary[o] = Tail(q.toPrimary[o])
         /\ \A a \in OSD : a # o => x.toPrimary[a] = q.toPrimary[a]
<1>1. q.toPrimary \in [OSD -> Seq(Event)]
  BY DEF PGRecord
<1>2. Tail(q.toPrimary[o]) \in Seq(Event)
  BY <1>1, TailIs
<1>3. [q.toPrimary EXCEPT ![o] = Tail(@)] \in [OSD -> Seq(Event)]
  BY <1>1, <1>2
<1>4. x = [q EXCEPT !.toPrimary = [q.toPrimary EXCEPT ![o] = Tail(@)]]
  BY DEF AnswerTaken, PGRecord
<1>5. x \in PGRecord
  BY <1>3, <1>4 DEF PGRecord
<1> QED
  BY <1>1, <1>4, <1>5 DEF PGRecord

LEMMA AnswerPop ==
  ASSUME NEW ps, NEW lo, NEW re, AllOK(ps, lo, re), NEW g \in PG, NEW l, l = lay[g],
         NEW q, q = ps[g], NEW o \in l.replicas, q.toPrimary[o] # <<>>, NEW x, AnswerTaken(q, o, x),
         NEW ps2, Moved(ps, g, x, ps2)
  PROVE  AllOK(ps2, lo, re) /\ x \in PGRecord
<1>1. q \in PGRecord /\ GroupOK(q, l) /\ IsLayout(l) /\ o \in OSD
  BY AllIs DEF IsLayout
<1>2. /\ x \in PGRecord /\ x.interval = q.interval /\ x.working = q.working
      /\ x.scan = q.scan /\ x.own = q.own
      /\ x.state = q.state /\ x.epoch = q.epoch /\ x.it = q.it /\ x.todo = q.todo
      /\ x.timers = q.timers /\ x.toReplica = q.toReplica
      /\ x.toPrimary[o] = Tail(q.toPrimary[o])
      /\ \A a \in OSD : a # o => x.toPrimary[a] = q.toPrimary[a]
  BY <1>1, AnswerTakenIs
<1>3. \A a \in l.replicas : View(x, l, a) = View(q, l, a)
  BY <1>2, SameView
<1>4. PeersKept(q, x, l, o)
  <2>1. PICK v, ep, eo, so, M, N : /\ v = View(q, l, o) /\ ep = q.epoch[l.primary] /\ eo = q.epoch[o]
                                   /\ so = q.state[o] /\ M = q.toReplica[o] /\ N = q.toPrimary[o]
    OBVIOUS
  <2>2. ep \in Nat /\ eo \in Nat /\ M \in Seq(Event) /\ N \in Seq(Event) /\ N # <<>>
    BY <1>1, <2>1, PairTypes
  <2>3. PairOK(v, ep, eo, so, M, N)
    BY <1>1, <2>1 DEF GroupOK, PeerOK
  <2>4. /\ PairOK(v, ep, eo, so, M, Tail(N))
        /\ \A c : CallbackOK(v, ep, eo, so, M, N, c) => CallbackOK(v, ep, eo, so, M, Tail(N), c)
    BY <2>2, <2>3, PairPop
  <2>5. PeerOK(x, l, o)
    BY <1>2, <1>3, <2>1, <2>4 DEF PeerOK
  <2>6. \A c \in Context : Callback(q, l, o, c) => Callback(x, l, o, c)
    BY <1>2, <1>3, <2>1, <2>4 DEF Callback
  <2> QED
    BY <2>5, <2>6 DEF PeersKept
<1>5. ASSUME NEW a \in l.replicas
      PROVE  PeersKept(q, x, l, a)
  <2>1. CASE a = o
    BY <1>4, <2>1
  <2>2. CASE a # o
    <3>1. x.toPrimary[a] = q.toPrimary[a] /\ x.toReplica[a] = q.toReplica[a]
      BY <1>1, <1>2, <2>2 DEF IsLayout
    <3> QED
      BY <1>1, <1>2, <1>3, <3>1, PeerAlike
  <2> QED
    BY <2>1, <2>2
<1>6. PICK p : p = l.primary
  OBVIOUS
<1>7. OthersOK(x, l)
  BY <1>1, <1>2 DEF GroupOK, OthersOK
<1>8. ScansOK(x, l)
  <2>1. ScansOK(q, l)
    BY <1>1 DEF GroupOK
  <2>2. x.scan = q.scan /\ x.own = q.own
    BY <1>2
  <2> QED
    BY <2>1, <2>2, ScansSame
<1>9. GroupOK(x, l)
  BY <1>1, <1>2, <1>5, <1>7, <1>8 DEF GroupOK, PeersKept
<1>10. \A a \in l.replicas : \A c \in Context : Callback(q, l, a, c) => Callback(x, l, a, c)
  BY <1>5 DEF PeersKept
<1> QED
  BY <1>1, <1>2, <1>9, <1>10, QuietAll

LEMMA ToPrimaryStep ==
  ASSUME State, NEW g \in PG, NEW o \in OSD, ToPrimary(g, o)
  PROVE  Kept
<1>1. PICK l, p, q, h, x : /\ l = lay[g] /\ p = l.primary /\ q = pgs[g] /\ h = Head(q.toPrimary[o])
                           /\ AnswerTaken(q, o, x)
  BY DEF AnswerTaken
<1>2. PICK full \in BOOLEAN : full = FALSE
  OBVIOUS
<1>3. q.toPrimary[o] # <<>> /\ do_peering_event(g, p, h, x, local[p], remote[p], full)
  BY <1>1, <1>2 DEF ToPrimary, AnswerTaken, Primary
<1>4. PICK ps : Moved(pgs, g, x, ps)
  BY DEF Moved
<1>5. AllOK(pgs, local, remote) /\ q \in PGRecord /\ GroupOK(q, l) /\ IsLayout(l)
  BY <1>1, AllIs DEF State
<1>6. o \in l.replicas
  BY <1>3, <1>5 DEF GroupOK, OthersOK
<1>7. AllOK(ps, local, remote) /\ x \in PGRecord
  BY <1>1, <1>3, <1>4, <1>5, <1>6, AnswerPop
<1>8. PICK w : w = [p |-> x, l |-> local[p], r |-> remote[p], bad |-> FALSE]
  OBVIOUS
<1>9. x = ps[g]
  BY <1>4, MovedIs DEF State
<1>10. Stage(ps, local, remote, g, l, p, x, w)
  BY <1>1, <1>7, <1>8, <1>9 DEF Stage
<1>11. PICK v, ep, eo, so, M, N : /\ v = View(q, l, o) /\ ep = q.epoch[p] /\ eo = q.epoch[o]
                                  /\ so = q.state[o] /\ M = q.toReplica[o] /\ N = q.toPrimary[o]
  OBVIOUS
<1>12. ep \in Nat /\ eo \in Nat /\ M \in Seq(Event) /\ N \in Seq(Event) /\ N # <<>>
  BY <1>1, <1>3, <1>5, <1>6, <1>11, PairTypes
<1>13. PairOK(v, ep, eo, so, M, N)
  BY <1>1, <1>5, <1>6, <1>11 DEF GroupOK, PeerOK
<1>14. h \in Event /\ h.epoch \in Nat
  BY <1>1, <1>11, <1>12, TailIs, EventIs
<1>15. /\ h.ev \in Answers \cup Notices
       /\ h.epoch = ep => v # "peering"
       /\ h.epoch = ep /\ h.ev \in Answers /\ v # "drain" =>
             /\ v = Answered(h.ev)
             /\ h.ev # "RemoteReservationRejectedTooFull" /\ eo = ep => Granted(M, eo, so)
             /\ None(Tail(N), ep, Answers)
       /\ h.epoch = ep /\ v = "drain" => h.ev # "RemoteRecoveryReserved"
  <2>1. /\ Head(N).ev \in Answers \cup Notices
        /\ Head(N).epoch = ep => v # "peering"
        /\ Head(N).epoch = ep /\ Head(N).ev \in Answers /\ v # "drain" =>
              /\ v = Answered(Head(N).ev)
              /\ Head(N).ev # "RemoteReservationRejectedTooFull" /\ eo = ep => Granted(M, eo, so)
              /\ None(Tail(N), ep, Answers)
        /\ Head(N).epoch = ep /\ v = "drain" => Head(N).ev # "RemoteRecoveryReserved"
    BY <1>12, <1>13, PairPop
  <2>2. h = Head(N)
    BY <1>1, <1>11
  <2> QED
    BY <2>1, <2>2
<1>16. /\ x.state = q.state /\ x.epoch = q.epoch /\ x.toReplica = q.toReplica
       /\ x.toPrimary[o] = Tail(N) /\ View(x, l, o) = v
  <2>1. /\ x.state = q.state /\ x.epoch = q.epoch /\ x.it = q.it /\ x.todo = q.todo
        /\ x.timers = q.timers /\ x.toReplica = q.toReplica /\ x.toPrimary[o] = Tail(q.toPrimary[o])
    BY <1>1, <1>3, <1>5, AnswerTakenIs
  <2>2. View(x, l, o) = View(q, l, o)
    BY <2>1, SameView
  <2> QED
    BY <1>11, <2>1, <2>2
<1>17. x.state[p] \in ActiveStates \cup {"Peering"}
  BY <1>10, StageIs
<1>18. /\ v # "peering" => x.state[p] # "Peering"
       /\ v = "drain" => x.state[p] = "NotBackfilling"
       /\ v = "asksRecovery" => x.state[p] = "WaitRemoteRecoveryReserved"
       /\ v = "asksBackfill" => x.state[p] = "WaitRemoteBackfillReserved"
  BY <1>1, <1>16, <1>17, ViewWhen
<1>19. ASSUME h.epoch = x.epoch[p]
       PROVE  Reacts(ps, local, remote, g, p, Primary_react(w, g, p, h.ev, full))
  <2>1. h.epoch = ep /\ x.state[p] # "Peering"
    BY <1>11, <1>15, <1>16, <1>18, <1>19
  <2>2. CASE h.ev = "DeferRecovery"
    BY <1>10, <2>1, <2>2, TakeDeferRecovery
  <2>3. CASE h.ev = "RemoteReservationRevoked"
    BY <1>10, <2>1, <2>3, TakeRevoked
  <2>4. CASE h.ev = "RemoteReservationRevokedTooFull"
    BY <1>10, <2>1, <2>4, TakeDeferBackfill
  <2>5. ASSUME h.ev \in RemoteGrants, v # "drain"
        PROVE  Counts(x, l, o) /\ View(x, l, o) \in Asks
    <3>1. v \in Asks
      BY <1>15, <2>1, <2>5 DEF Asks, Answered, RemoteGrants, Answers
    <3>2. eo = ep => Granted(M, eo, so)
      BY <1>15, <2>1, <2>5 DEF RemoteGrants, Answers
    <3>3. None(Tail(N), ep, Answers)
      BY <1>15, <2>1, <2>5 DEF RemoteGrants, Answers
    <3> QED
      BY <1>1, <1>11, <1>16, <3>1, <3>2, <3>3 DEF Counts
  <2>6. CASE h.ev = "RemoteRecoveryReserved"
    <3>1. v # "drain" /\ v = "asksRecovery"
      BY <1>15, <2>1, <2>6 DEF Answers, Answered
    <3>2. x.state[p] = "WaitRemoteRecoveryReserved"
      BY <1>18, <3>1
    <3>3. Counts(x, l, o) /\ View(x, l, o) \in Asks
      BY <2>5, <2>6, <3>1 DEF RemoteGrants
    <3> QED
      BY <1>6, <1>10, <2>6, <3>2, <3>3, TakeRemoteReserved
  <2>7. CASE h.ev = "RemoteBackfillReserved"
    <3>1. CASE v = "drain"
      <4>1. x.state[p] = "NotBackfilling"
        BY <1>18, <3>1
      <4> QED
        BY <1>10, <2>7, <4>1, TakeLateReserved
    <3>2. CASE v # "drain"
      <4>1. v = "asksBackfill"
        BY <1>15, <2>1, <2>7, <3>2 DEF Answers, Answered
      <4>2. x.state[p] = "WaitRemoteBackfillReserved"
        BY <1>18, <4>1
      <4>3. Counts(x, l, o) /\ View(x, l, o) \in Asks
        BY <2>5, <2>7, <3>2 DEF RemoteGrants
      <4> QED
        BY <1>6, <1>10, <2>7, <4>2, <4>3, TakeRemoteReserved
    <3> QED
      BY <3>1, <3>2
  <2>8. CASE h.ev = "RemoteReservationRejectedTooFull"
    <3>1. v = "drain" \/ v = "asksBackfill"
      BY <1>15, <2>1, <2>8 DEF Answers, Answered
    <3>2. x.state[p] \in {"WaitRemoteBackfillReserved", "NotBackfilling"}
      BY <1>18, <3>1
    <3> QED
      BY <1>10, <2>8, <3>2, TakeRejected
  <2> QED
    BY <1>15, <2>2, <2>3, <2>4, <2>6, <2>7, <2>8 DEF Answers, Notices
<1> QED
  BY <1>3, <1>4, <1>10, <1>14, <1>19, PrimaryEvent

----------------------------------------------------------------------------
(* A timer of the primary comes due.                                        *)

TimerTaken(q, t, x) == x = [q EXCEPT !.timers = @ \ {t}]

LEMMA TimerTakenIs ==
  ASSUME NEW q \in PGRecord, NEW t, NEW x, TimerTaken(q, t, x), NEW p \in OSD
  PROVE  /\ Turned(x, q, p, q.state[p], q.it, x.timers, q.toReplica)
         /\ x.timers = q.timers \ {t} /\ x.working = q.working /\ x.state = q.state
<1>1. x \in PGRecord
  BY DEF TimerTaken, PGRecord
<1>2. q.state = [q.state EXCEPT ![p] = q.state[p]]
  BY DEF PGRecord
<1> QED
  BY <1>1, <1>2 DEF Turned, TimerTaken, PGRecord

LEMMA TimersLess ==
  ASSUME NEW T, NEW t \in T, NEW e, NEW st, TimersOK(T, e, st)
  PROVE  /\ TimersOK(T \ {t}, e, st)
         /\ t.epoch = e => st \notin {"Peering", "Activating"}
         /\ t.epoch = e /\ t.ev = "RequestBackfill" =>
               st = "NotBackfilling" /\ NoRetry(T \ {t}, e)
BY DEF TimersOK, NoRetry

LEMMA TimerPop ==
  ASSUME NEW ps, NEW lo, NEW re, AllOK(ps, lo, re), NEW g \in PG, NEW l, l = lay[g],
         NEW q, q = ps[g], NEW t \in q.timers, NEW x, TimerTaken(q, t, x),
         NEW ps2, Moved(ps, g, x, ps2)
  PROVE  AllOK(ps2, lo, re) /\ x \in PGRecord
<1>1. q \in PGRecord /\ GroupOK(q, l) /\ IsLayout(l)
  BY AllIs
<1>2. PICK p, st, e : p = l.primary /\ st = q.state[p] /\ e = q.epoch[p]
  OBVIOUS
<1>3. p \in OSD /\ st \in States
  BY <1>1, <1>2 DEF IsLayout, PGRecord
<1>4. /\ Turned(x, q, p, st, q.it, x.timers, q.toReplica)
      /\ x.timers = q.timers \ {t} /\ x.working = q.working /\ x.state = q.state
  BY <1>1, <1>2, <1>3, TimerTakenIs
<1>5. /\ x \in PGRecord /\ x.epoch = q.epoch /\ x.interval = q.interval /\ x.todo = q.todo
      /\ x.scan = q.scan /\ x.toPrimary = q.toPrimary /\ x.own = q.own /\ x.it = q.it
      /\ x.toReplica = q.toReplica
  BY <1>4 DEF Turned
<1>6. ASSUME NEW o \in l.replicas
      PROVE  PeersKept(q, x, l, o)
  <2>1. \/ View(x, l, o) = View(q, l, o)
        \/ View(q, l, o) = "free" /\ View(x, l, o) = "drain"
    <3>1. CASE st # "NotBackfilling"
      BY <1>2, <1>4, <1>5, <3>1 DEF View
    <3>2. CASE st = "NotBackfilling"
      <4>1. /\ View(q, l, o) = IF RetriesLate(q, l) THEN "drain" ELSE "free"
            /\ View(x, l, o) = IF RetriesLate(x, l) THEN "drain" ELSE "free"
        <5>1. q.state[l.primary] = "NotBackfilling" /\ x.state[l.primary] = "NotBackfilling"
          BY <1>2, <1>4, <3>2
        <5>2. View(q, l, o) = IF RetriesLate(q, l) THEN "drain" ELSE "free"
          BY <5>1, ViewIs
        <5>3. View(x, l, o) = IF RetriesLate(x, l) THEN "drain" ELSE "free"
          BY <5>1, ViewIs
        <5> QED
          BY <5>2, <5>3
      <4>2. RetriesLate(q, l) => RetriesLate(x, l)
        BY <1>4, <1>5 DEF RetriesLate
      <4> QED
        BY <4>1, <4>2
    <3> QED
      BY <3>1, <3>2
  <2>2. PICK i, T, M : i = q.it /\ T = x.timers /\ M = q.toReplica
    OBVIOUS
  <2>3. Turned(x, q, l.primary, st, i, T, M) /\ M[o] = q.toReplica[o]
    BY <1>2, <1>4, <2>2
  <2> QED
    BY <1>1, <1>3, <2>1, <2>3, PeerSame
<1>7. TimersOK(x.timers, x.epoch[p], x.state[p])
  <2>1. TimersOK(q.timers, e, st)
    BY <1>1, <1>2 DEF GroupOK
  <2>2. TimersOK(q.timers \ {t}, e, st)
    BY <2>1, TimersLess
  <2> QED
    BY <1>2, <1>4, <1>5, <2>2
<1>8. OthersOK(x, l)
  BY <1>1, <1>5 DEF GroupOK, OthersOK
<1>9. ScansOK(x, l)
  <2>1. ScansOK(q, l)
    BY <1>1 DEF GroupOK
  <2>2. x.scan = q.scan /\ x.own = q.own
    BY <1>5
  <2> QED
    BY <2>1, <2>2, ScansSame
<1>10. GroupOK(x, l)
  BY <1>1, <1>2, <1>4, <1>5, <1>6, <1>7, <1>8, <1>9 DEF GroupOK, PeersKept
<1>11. \A a \in l.replicas : \A c \in Context : Callback(q, l, a, c) => Callback(x, l, a, c)
  BY <1>6 DEF PeersKept
<1> QED
  BY <1>1, <1>4, <1>5, <1>10, <1>11, QuietAll

(* A peer that owes no answer to a request of this interval is free.        *)
NoDebt(ep, eo, so, M, N) ==
    /\ None(M, ep, {"RequestBackfillPrio"})
    /\ None(N, ep, BackfillAnswers)
    /\ eo = ep => so # "RepWaitBackfillReserved"

LEMMA PairNoDebt ==
  ASSUME NEW v, v \in {"free", "drain"}, NEW ep \in Nat, NEW eo \in Nat, NEW so,
         NEW M \in Seq(Event), NEW N \in Seq(Event), PairOK(v, ep, eo, so, M, N),
         NoDebt(ep, eo, so, M, N)
  PROVE  PairOK("free", ep, eo, so, M, N)
<1>1. EpochOK("free", ep, eo, so) /\ HeldOK("free", ep, eo, so, M)
  BY DEF PairOK, EpochOK, HeldOK
<1>2. ASSUME NEW k \in 1 .. Len(M)
      PROVE  MessageOK(ep, eo, so, M, k) /\ RequestOK("free", ep, eo, so, M, N, k) /\ DoneOK(eo, so, M, k)
  <2>1. MessageOK(ep, eo, so, M, k) /\ RequestOK(v, ep, eo, so, M, N, k) /\ DoneOK(eo, so, M, k)
    BY DEF PairOK, MessagesOK
  <2>2. M[k].epoch = ep => M[k].ev # "RequestBackfillPrio"
    BY DEF NoDebt, None
  <2>3. ~(M[k].epoch = eo /\ eo = ep /\ M[k].ev \in Requests)
    BY <2>1, <2>2 DEF RequestOK, Requested
  <2>4. RequestOK("free", ep, eo, so, M, N, k)
    BY <2>1, <2>3 DEF RequestOK
  <2> QED
    BY <2>1, <2>4
<1>3. ASSUME NEW k \in 1 .. Len(N)
      PROVE  AnswerOK("free", ep, eo, so, M, N, k)
  <2>1. AnswerOK(v, ep, eo, so, M, N, k)
    BY DEF PairOK, AnswersOK
  <2>2. N[k].epoch = ep => N[k].ev \notin BackfillAnswers
    BY DEF NoDebt, None
  <2>3. ~(N[k].epoch = ep /\ N[k].ev \in Answers)
    BY <2>1, <2>2 DEF AnswerOK, Answered, Answers, BackfillAnswers
  <2> QED
    BY <2>3 DEF AnswerOK
<1>4. AnswersOK("free", ep, eo, so, M, N)
  <2> SUFFICES ASSUME NEW k \in 1 .. Len(N)
               PROVE  /\ N[k].ev \in Answers \cup Notices
                      /\ N[k].epoch <= eo /\ N[k].epoch <= ep
                      /\ N[k].epoch = eo => so # "Stray"
                      /\ N[k].epoch = ep => "free" # "peering"
                      /\ AnswerOK("free", ep, eo, so, M, N, k)
    BY DEF AnswersOK
  <2> QED
    BY <1>3 DEF PairOK, AnswersOK
<1>5. MessagesOK("free", ep, eo, so, M, N)
  BY <1>2 DEF MessagesOK
<1> QED
  BY <1>1, <1>4, <1>5 DEF PairOK

LEMMA NoDebtFree ==
  ASSUME NEW ps, NEW lo, NEW re, AllOK(ps, lo, re), NEW g \in PG, NEW l, l = lay[g],
         NEW q, q = ps[g], NEW o \in l.replicas, View(q, l, o) \in {"free", "drain"},
         NoDebt(q.epoch[l.primary], q.epoch[o], q.state[o], q.toReplica[o], q.toPrimary[o]),
         \A c \in Elems(re[o].f) :
            c.pg = g /\ c.epoch = q.epoch[l.primary] => c.ev \notin BackfillAnswers
  PROVE  /\ PairOK("free", q.epoch[l.primary], q.epoch[o], q.state[o], q.toReplica[o], q.toPrimary[o])
         /\ \A c \in Context : Holds(re[o], c) /\ c.pg = g =>
               CallbackOK("free", q.epoch[l.primary], q.epoch[o], q.state[o], q.toReplica[o],
                          q.toPrimary[o], c)
<1>1. q \in PGRecord /\ GroupOK(q, l) /\ IsLayout(l) /\ o \in OSD
  BY AllIs DEF IsLayout
<1>2. PICK v, ep, eo, so, M, N : /\ v = View(q, l, o) /\ ep = q.epoch[l.primary] /\ eo = q.epoch[o]
                                 /\ so = q.state[o] /\ M = q.toReplica[o] /\ N = q.toPrimary[o]
  OBVIOUS
<1>3. ep \in Nat /\ eo \in Nat /\ M \in Seq(Event) /\ N \in Seq(Event)
  BY <1>1, <1>2, PairTypes
<1>4. PairOK(v, ep, eo, so, M, N)
  BY <1>1, <1>2 DEF GroupOK, PeerOK
<1>5. PairOK("free", ep, eo, so, M, N)
  BY <1>2, <1>3, <1>4, PairNoDebt
<1>6. PICK r, A, H : r = re[o] /\ A = RemoteSet(lay, ps, o) /\ H = RemoteHolding(lay, ps, o)
  OBVIOUS
<1>7. Fits(r, A, H)
  BY <1>1, <1>6, AllIs
<1>8. ASSUME NEW c \in Context, Holds(r, c), c.pg = g
      PROVE  CallbackOK("free", ep, eo, so, M, N, c)
  <2>1. c \in A
    BY <1>7, <1>8, HeldIs
  <2>2. CallbackOK(v, ep, eo, so, M, N, c)
    BY <1>2, <1>6, <1>8, <2>1 DEF RemoteSet, RemoteOK
  <2>3. ASSUME eo = ep, c.epoch = eo, c.ev \in RemoteGrants
        PROVE  FALSE
    <3>1. c.ev = "RemoteBackfillReserved" /\ so \in {"RepWaitBackfillReserved", "RepNotRecovering"}
      BY <1>2, <2>2, <2>3 DEF CallbackOK, DueOK, Answered, RemoteGrants
    <3>2. c \notin Elems(r.f)
      BY <1>2, <1>6, <1>8, <2>3, <3>1 DEF BackfillAnswers
    <3>3. ~\E i \in Item : HasReservation(r, i) /\ c = r.res[i].preempt
      BY <1>7, <3>1 DEF Fits, GrantEvents
    <3>4. PICK i \in Queued(r) : c = r.res[i].grant
      BY <1>8, <3>2, <3>3 DEF Holds
    <3>5. i = g
      BY <1>7, <1>8, <3>4 DEF Fits
    <3>6. HasReservation(r, g)
      BY <3>4, <3>5 DEF HasReservation
    <3>7. g \in H
      BY <1>7, <3>6 DEF Fits, PG
    <3>8. so \in RemoteHolders
      BY <1>2, <1>6, <3>7 DEF RemoteHolding
    <3>9. so # "RepWaitBackfillReserved"
      BY <1>2, <2>3 DEF NoDebt
    <3> QED
      BY <3>1, <3>8, <3>9 DEF RemoteHolders
  <2> QED
    BY <1>3, <2>2, <2>3, CallbackTurn
<1> QED
  BY <1>2, <1>5, <1>6, <1>8

LEMMA TimerStep ==
  ASSUME State, NEW g \in PG, NEW t, NEW full \in BOOLEAN, Timer(g, t, full), ~hasty'
  PROVE  Kept
<1>1. PICK l, p, q, x : /\ l = lay[g] /\ p = l.primary /\ q = pgs[g] /\ TimerTaken(q, t, x)
  BY DEF TimerTaken
<1>2. /\ t \in q.timers /\ do_peering_event(g, p, t, x, local[p], remote[p], full)
      /\ ~TooSoon(g, t)
  BY <1>1 DEF Timer, TimerTaken, Primary
<1>3. PICK ps : Moved(pgs, g, x, ps)
  BY DEF Moved
<1>4. AllOK(pgs, local, remote) /\ q \in PGRecord /\ GroupOK(q, l) /\ IsLayout(l) /\ p \in OSD
  BY <1>1, AllIs DEF State, IsLayout
<1>5. AllOK(ps, local, remote) /\ x \in PGRecord
  BY <1>1, <1>2, <1>3, <1>4, TimerPop
<1>6. PICK w : w = [p |-> x, l |-> local[p], r |-> remote[p], bad |-> FALSE]
  OBVIOUS
<1>7. x = ps[g]
  BY <1>3, MovedIs DEF State
<1>8. Stage(ps, local, remote, g, l, p, x, w) /\ GroupOK(x, l)
  BY <1>1, <1>5, <1>6, <1>7, AllIs DEF Stage
<1>9. /\ t.ev \in {"DoRecovery", "RequestBackfill"} /\ t.epoch \in Nat
      /\ t.delay \in {"none", "retry"}
  BY <1>2, <1>4, IntervalIs DEF PGRecord
<1>10. PICK st, e : st = q.state[p] /\ e = q.epoch[p]
  OBVIOUS
<1>11. /\ Turned(x, q, p, st, q.it, x.timers, q.toReplica)
       /\ x.timers = q.timers \ {t} /\ x.state = q.state
  BY <1>1, <1>4, <1>10, TimerTakenIs
<1>12. /\ x.epoch = q.epoch /\ x.todo = q.todo /\ x.toPrimary = q.toPrimary
       /\ x.toReplica = q.toReplica
  BY <1>11 DEF Turned
<1>13. /\ t.epoch = e => st \notin {"Peering", "Activating"}
       /\ t.epoch = e /\ t.ev = "RequestBackfill" =>
             st = "NotBackfilling" /\ NoRetry(q.timers \ {t}, e)
  <2>1. TimersOK(q.timers, e, st)
    BY <1>1, <1>4, <1>10 DEF GroupOK
  <2> QED
    BY <1>2, <2>1, TimersLess
<1>14. ASSUME t.epoch = x.epoch[p]
       PROVE  Reacts(ps, local, remote, g, p, Primary_react(w, g, p, t.ev, full))
  <2>1. t.epoch = e /\ x.state[p] = st /\ x.epoch[p] = e
    BY <1>10, <1>11, <1>12, <1>14
  <2>2. CASE t.ev = "DoRecovery"
    <3>1. st \in {"Activating", "NotRecovering", "Clean"} => NoOwn(x, p)
      BY <1>1, <1>8, <1>13, <2>1, NoOwnIs
    <3> QED
      BY <1>8, <1>13, <2>1, <2>2, <3>1, TakeDoRecovery
  <2>3. CASE t.ev = "RequestBackfill"
    <3>1. st = "NotBackfilling" /\ NoRetry(x.timers, x.epoch[p])
      BY <1>11, <1>13, <2>1, <2>3
    <3>2. NoOwn(x, p)
      BY <1>1, <1>8, <2>1, <3>1, NoOwnIs
    <3>3. "recovery" \notin x.todo
      BY <1>1, <1>4, <1>10, <1>12, <3>1 DEF GroupOK, WorkOK, BackfillStates
    <3>4. ASSUME NEW o \in l.replicas
          PROVE  /\ PairOK("free", q.epoch[l.primary], q.epoch[o], q.state[o], q.toReplica[o],
                           q.toPrimary[o])
                 /\ \A c \in Context : Holds(remote[o], c) /\ c.pg = g =>
                       CallbackOK("free", q.epoch[l.primary], q.epoch[o], q.state[o],
                                  q.toReplica[o], q.toPrimary[o], c)
      <4>1. o \in OSD
        BY <1>4 DEF IsLayout
      <4>2. View(q, l, o) = IF RetriesLate(q, l) THEN "drain" ELSE "free"
        BY <1>1, <1>10, <3>1, ViewIs
      <4>3. CASE t.delay = "retry"
        <5>1. ~OwesAnswer(g, o)
          BY <1>1, <1>2, <1>10, <2>1, <2>3, <4>3 DEF TooSoon, Primary
        <5>2. /\ \A m \in Elems(q.toReplica[o]) : ~(m.ev = "RequestBackfillPrio" /\ m.epoch = e)
              /\ \A m \in Elems(q.toPrimary[o]) : ~(m.ev \in BackfillAnswers /\ m.epoch = e)
              /\ \A c \in Elems(remote[o].f) : ~(c.pg = g /\ c.ev \in BackfillAnswers /\ c.epoch = e)
              /\ ~(q.state[o] = "RepWaitBackfillReserved" /\ q.epoch[o] = e)
          BY <1>1, <1>10, <5>1 DEF OwesAnswer, Primary
        <5>3. NoDebt(q.epoch[l.primary], q.epoch[o], q.state[o], q.toReplica[o], q.toPrimary[o])
          BY <1>1, <1>10, <5>2 DEF NoDebt, None, Elems
        <5>4. View(q, l, o) \in {"free", "drain"}
          BY <4>2
        <5> QED
          BY <1>1, <1>4, <1>10, <5>2, <5>3, <5>4, NoDebtFree
      <4>4. CASE t.delay = "none"
        <5>1. ~RetriesLate(q, l)
          BY <1>1, <1>2, <1>10, <2>1, <2>3, <4>4 DEF RetriesLate
        <5>2. View(q, l, o) = "free"
          BY <4>2, <5>1
        <5>3. PeerOK(q, l, o)
          BY <1>4 DEF GroupOK
        <5>4. ASSUME NEW c \in Context, Holds(remote[o], c), c.pg = g
              PROVE  CallbackOK("free", q.epoch[l.primary], q.epoch[o], q.state[o],
                                  q.toReplica[o], q.toPrimary[o], c)
          <6>1. PICK r, A, H : r = remote[o] /\ A = RemoteSet(lay, pgs, o) /\ H = RemoteHolding(lay, pgs, o)
            OBVIOUS
          <6>2. Fits(r, A, H)
            BY <1>4, <4>1, <6>1, AllIs
          <6>3. c \in A
            BY <5>4, <6>1, <6>2, HeldIs
          <6>4. RemoteOK(q, l, o, c)
            BY <1>1, <5>4, <6>1, <6>3 DEF RemoteSet
          <6> QED
            BY <5>2, <6>4 DEF RemoteOK
        <5> QED
          BY <5>2, <5>3, <5>4 DEF PeerOK
      <4> QED
        BY <1>9, <4>3, <4>4
    <3>5. WasFree(x, remote, g, l)
      BY <1>11, <1>12, <3>4 DEF WasFree
    <3> QED
      BY <1>8, <2>1, <2>3, <3>1, <3>2, <3>3, <3>5, TakeRequestBackfill
  <2> QED
    BY <1>9, <2>2, <2>3
<1> QED
  BY <1>2, <1>3, <1>8, <1>9, <1>14, PrimaryEvent

----------------------------------------------------------------------------
(* A peer o reacts: what becomes of the group q.                            *)
Peered(x, q, o, s, M, N) ==
    /\ x \in PGRecord
    /\ x.state = [q.state EXCEPT ![o] = s]
    /\ x.epoch = q.epoch /\ x.interval = q.interval /\ x.it = q.it /\ x.todo = q.todo
    /\ x.timers = q.timers /\ x.working = q.working /\ x.scan = q.scan
    /\ x.toReplica = [q.toReplica EXCEPT ![o] = M]
    /\ x.toPrimary = [q.toPrimary EXCEPT ![o] = N]
    /\ \A a \in OSD : a # o => x.own[a] = q.own[a]
    /\ x.own[o] = q.own[o] \/ (q.own[o] # <<>> /\ x.own[o] = Tail(q.own[o]))

LEMMA PeeredIs ==
  ASSUME NEW q \in PGRecord, NEW o \in OSD, NEW x, NEW s, NEW M, NEW N, Peered(x, q, o, s, M, N)
  PROVE  /\ x.state[o] = s /\ x.toReplica[o] = M /\ x.toPrimary[o] = N
         /\ \A a \in OSD : a # o => /\ x.state[a] = q.state[a] /\ x.toReplica[a] = q.toReplica[a]
                                    /\ x.toPrimary[a] = q.toPrimary[a]
BY DEF Peered, PGRecord

LEMMA PeeredView ==
  ASSUME NEW q \in PGRecord, NEW l, IsLayout(l), NEW o \in l.replicas, NEW x, NEW s, NEW M, NEW N,
         Peered(x, q, o, s, M, N)
  PROVE  \A a : View(x, l, a) = View(q, l, a)
<1>1. o \in OSD /\ l.primary \in OSD /\ l.primary # o
  BY DEF IsLayout
<1>2. x.state[l.primary] = q.state[l.primary]
  BY <1>1, PeeredIs
<1> QED
  BY <1>2 DEF View, RetriesLate, Peered

LEMMA PeeredGroup ==
  ASSUME NEW q \in PGRecord, NEW l, IsLayout(l), GroupOK(q, l), NEW o \in l.replicas,
         NEW x, NEW s, NEW M, NEW N, Peered(x, q, o, s, M, N),
         PairOK(View(q, l, o), q.epoch[l.primary], q.epoch[o], s, M, N)
  PROVE  GroupOK(x, l)
<1>1. o \in OSD /\ l.primary \in OSD /\ l.primary # o /\ l.replicas \subseteq OSD
  BY DEF IsLayout
<1>2. /\ x.state[o] = s /\ x.toReplica[o] = M /\ x.toPrimary[o] = N
      /\ \A a \in OSD : a # o => /\ x.state[a] = q.state[a] /\ x.toReplica[a] = q.toReplica[a]
                                 /\ x.toPrimary[a] = q.toPrimary[a]
  BY <1>1, PeeredIs
<1>3. \A a : View(x, l, a) = View(q, l, a)
  BY PeeredView
<1>4. /\ x.epoch = q.epoch /\ x.interval = q.interval /\ x.it = q.it /\ x.todo = q.todo
      /\ x.timers = q.timers /\ x.working = q.working /\ x.scan = q.scan
      /\ \A a \in OSD : a # o => x.own[a] = q.own[a]
      /\ x.own[o] = q.own[o] \/ (q.own[o] # <<>> /\ x.own[o] = Tail(q.own[o]))
  BY DEF Peered
<1>5. ASSUME NEW a \in l.replicas
      PROVE  PeerOK(x, l, a)
  <2>1. CASE a = o
    BY <1>2, <1>3, <1>4, <2>1 DEF PeerOK
  <2>2. CASE a # o
    <3>1. PeerOK(q, l, a)
      BY DEF GroupOK
    <3> QED
      BY <1>1, <1>2, <1>3, <1>4, <2>2, <3>1 DEF PeerOK
  <2> QED
    BY <2>1, <2>2
<1>6. OthersOK(x, l)
  BY <1>1, <1>2, <1>4 DEF GroupOK, OthersOK
<1>7. ScansOK(x, l)
  <2>1. ScansOK(q, l)
    BY DEF GroupOK
  <2>2. ASSUME NEW k \in 1 .. Len(x.own[o])
        PROVE  x.own[o][k].ev = "BackfillTooFull"
    <3>1. q.own[o] \in Seq(Event)
      BY <1>1 DEF PGRecord
    <3>2. PICK t, n : t = q.own[o] /\ n = k + 1
      OBVIOUS
    <3>3. \A j \in 1 .. Len(t) : t[j].ev = "BackfillTooFull"
      BY <1>1, <2>1, <3>2 DEF ScansOK
    <3>4. CASE x.own[o] = t
      BY <3>3, <3>4
    <3>5. CASE t # <<>> /\ x.own[o] = Tail(t)
      <4>1. Tail(t)[k] = t[k + 1] /\ k + 1 \in 1 .. Len(t)
        BY <3>1, <3>2, <3>5, TailIs
      <4> QED
        BY <3>3, <3>5, <4>1
    <3> QED
      BY <1>4, <3>2, <3>4, <3>5
  <2>3. ASSUME NEW a \in OSD \ {l.primary}, NEW k \in 1 .. Len(x.own[a])
        PROVE  x.own[a][k].ev = "BackfillTooFull"
    <3>1. CASE a = o
      BY <2>2, <2>3, <3>1
    <3>2. CASE a # o
      <4>1. x.own[a] = q.own[a]
        BY <1>4, <3>2
      <4> QED
        BY <2>1, <2>3, <4>1 DEF ScansOK
    <3> QED
      BY <3>1, <3>2
  <2>4. "scan" \notin l.may => \A a \in OSD : x.scan[a] = 0 /\ (a # l.primary => x.own[a] = <<>>)
    BY <1>1, <1>4, <2>1 DEF ScansOK
  <2> QED
    BY <2>3, <2>4 DEF ScansOK
<1>8. PICK p : p = l.primary
  OBVIOUS
<1>9. x.state[p] = q.state[p] /\ x.own[p] = q.own[p]
  BY <1>1, <1>2, <1>4, <1>8
<1> QED
  BY <1>4, <1>5, <1>6, <1>7, <1>8, <1>9 DEF GroupOK

LEMMA PeeredAll ==
  ASSUME NEW ps, NEW lo, NEW re, AllOK(ps, lo, re), NEW g \in PG, NEW l, l = lay[g],
         NEW q, q = ps[g], NEW o \in l.replicas,
         NEW x, NEW s, NEW M, NEW N, Peered(x, q, o, s, M, N),
         PairOK(View(q, l, o), q.epoch[l.primary], q.epoch[o], s, M, N),
         NEW ps2, Moved(ps, g, x, ps2),
         NEW r, Fits(r, RemoteSet(lay, ps2, o), RemoteHolding(lay, ps2, o))
  PROVE  AllOK(ps2, [lo EXCEPT ![o] = lo[o]], [re EXCEPT ![o] = r])
<1>1. /\ ps \in [PG -> PGRecord] /\ q \in PGRecord /\ GroupOK(q, l) /\ IsLayout(l)
      /\ \A a \in OSD : /\ Fits(lo[a], LocalSet(lay, ps, a), LocalHolding(lay, ps, a))
                        /\ Fits(re[a], RemoteSet(lay, ps, a), RemoteHolding(lay, ps, a))
  BY AllIs
<1>2. o \in OSD /\ l.primary \in OSD /\ l.primary # o /\ l.replicas \subseteq OSD
  BY <1>1 DEF IsLayout
<1>3. GroupOK(x, l) /\ x \in PGRecord /\ x.epoch = q.epoch
  <2>1. GroupOK(x, l)
    BY <1>1, PeeredGroup
  <2> QED
    BY <2>1 DEF Peered
<1>4. /\ \A a \in OSD : a # o => /\ x.state[a] = q.state[a] /\ x.toReplica[a] = q.toReplica[a]
                                 /\ x.toPrimary[a] = q.toPrimary[a]
  BY <1>1, <1>2, PeeredIs
<1>5. \A a : View(x, l, a) = View(q, l, a)
  BY <1>1, PeeredView
<1>6. ASSUME NEW a \in OSD
      PROVE  Fits(lo[a], LocalSet(lay, ps2, a), LocalHolding(lay, ps2, a))
  <2>1. PICK t : t = lo[a]
    OBVIOUS
  <2>2. \A c \in Context : c.pg = g /\ Holds(t, c) /\ LocalOK(ps[g], lay[g], a, c) =>
                            LocalOK(x, lay[g], a, c)
    BY <1>2, <1>3, <1>4 DEF LocalOK
  <2>3. g \in LocalHolding(lay, ps, a) /\ HasReservation(t, g) => x.state[a] \in LocalHolders
    BY <1>2, <1>4 DEF LocalHolding
  <2>4. Fits(t, LocalSet(lay, ps, a), LocalHolding(lay, ps, a))
    BY <1>1, <2>1
  <2>5. Fits(t, LocalSet(lay, ps2, a), LocalHolding(lay, ps2, a))
    BY <1>1, <2>2, <2>3, <2>4, LocalMove
  <2> QED
    BY <2>1, <2>5
<1>7. ASSUME NEW a \in OSD, a # o
      PROVE  Fits(re[a], RemoteSet(lay, ps2, a), RemoteHolding(lay, ps2, a))
  <2>1. PICK t : t = re[a]
    OBVIOUS
  <2>2. \A c \in Context : c.pg = g /\ Holds(t, c) /\ RemoteOK(ps[g], lay[g], a, c) =>
                            RemoteOK(x, lay[g], a, c)
    BY <1>2, <1>3, <1>4, <1>5, <1>7 DEF RemoteOK
  <2>3. g \in RemoteHolding(lay, ps, a) /\ HasReservation(t, g) => x.state[a] \in RemoteHolders
    BY <1>2, <1>4, <1>7 DEF RemoteHolding
  <2>4. Fits(t, RemoteSet(lay, ps, a), RemoteHolding(lay, ps, a))
    BY <1>1, <2>1
  <2>5. Fits(t, RemoteSet(lay, ps2, a), RemoteHolding(lay, ps2, a))
    BY <1>1, <2>2, <2>3, <2>4, RemoteMove
  <2> QED
    BY <2>1, <2>5
<1>8. PICK t : t = lo[o]
  OBVIOUS
<1>9. Fits(t, LocalSet(lay, ps2, o), LocalHolding(lay, ps2, o))
  BY <1>2, <1>6, <1>8
<1>10. AllOK(ps2, [lo EXCEPT ![o] = t], [re EXCEPT ![o] = r])
  BY <1>2, <1>3, <1>6, <1>7, <1>9, StepAll
<1> QED
  BY <1>8, <1>10

(* What a handler of the peer gets and makes: the group, l its local        *)
(* reserver, which it leaves alone, and r its remote reserver.              *)
Serviced(w, q, o, s, M, N, l, r) ==
    /\ w \in [p : PGRecord, l : {l}, r : {r}, bad : BOOLEAN]
    /\ ~w.bad
    /\ Peered(w.p, q, o, s, M, N)

LEMMA ServicedTo ==
  ASSUME NEW w, NEW q \in PGRecord, NEW o \in OSD, NEW s, NEW M, NEW N, NEW l, NEW r,
         Serviced(w, q, o, s, M, N, l, r), NEW s2 \in States
  PROVE  Serviced(To(w, o, s2), q, o, s2, M, N, l, r)
<1>1. w \in [p : PGRecord, l : {l}, r : {r}, bad : BOOLEAN] /\ ~w.bad /\ Peered(w.p, q, o, s, M, N)
  BY DEF Serviced
<1> DEFINE y == [w.p EXCEPT !.state = [@ EXCEPT ![o] = s2]]
           x == To(w, o, s2)
<1>2. x.p = y /\ ~x.bad /\ x \in [p : {y}, l : {l}, r : {r}, bad : BOOLEAN]
  BY <1>1 DEF To
<1>3. y \in PGRecord /\ y.state = [q.state EXCEPT ![o] = s2]
  BY <1>1 DEF PGRecord, Peered
<1>4. Peered(y, q, o, s2, M, N)
  BY <1>1, <1>3 DEF PGRecord, Peered
<1> HIDE DEF x, y
<1> QED
  BY <1>2, <1>3, <1>4 DEF Serviced, x

LEMMA ServicedReply ==
  ASSUME NEW w, NEW q \in PGRecord, NEW o \in OSD, NEW s, NEW M, NEW N, NEW l, NEW r,
         Serviced(w, q, o, s, M, N, l, r), NEW ev \in Events
  PROVE  /\ Serviced(Reply(w, o, ev), q, o, s, M, Append(N, Msg(ev, q.epoch[o])), l, r)
         /\ Msg(ev, q.epoch[o]) \in Event
<1>1. w \in [p : PGRecord, l : {l}, r : {r}, bad : BOOLEAN] /\ ~w.bad /\ Peered(w.p, q, o, s, M, N)
  BY DEF Serviced
<1>2. PICK m : m = Msg(ev, q.epoch[o])
  OBVIOUS
<1>3. m \in Event
  BY <1>2 DEF Msg, PGRecord, Event
<1>4. w.p.toPrimary[o] = N /\ w.p.epoch[o] = q.epoch[o] /\ w.p.toPrimary \in [OSD -> Seq(Event)]
  BY <1>1 DEF Peered, PGRecord
<1>5. PICK K : K = Append(N, m)
  OBVIOUS
<1>6. K \in Seq(Event)
  BY <1>3, <1>4, <1>5, AppendProperties
<1> DEFINE y == [w.p EXCEPT !.toPrimary = [w.p.toPrimary EXCEPT ![o] = K]]
           x == Reply(w, o, ev)
<1>7. x = [w EXCEPT !.p = [w.p EXCEPT !.toPrimary = [w.p.toPrimary EXCEPT ![o] = K]]]
  BY <1>1, <1>2, <1>4, <1>5 DEF Reply, Msg
<1>8. x.p = y /\ ~x.bad /\ x \in [p : {y}, l : {l}, r : {r}, bad : BOOLEAN]
  BY <1>1, <1>7
<1>9. y \in PGRecord
  BY <1>1, <1>4, <1>6 DEF PGRecord
<1>10. y.toPrimary = [q.toPrimary EXCEPT ![o] = K]
  BY <1>1 DEF PGRecord, Peered
<1>11. Peered(y, q, o, s, M, K)
  BY <1>1, <1>9, <1>10 DEF PGRecord, Peered
<1> HIDE DEF x, y
<1>12. Serviced(x, q, o, s, M, K, l, r)
  BY <1>8, <1>9, <1>11 DEF Serviced
<1> QED
  BY <1>2, <1>3, <1>5, <1>12 DEF x

LEMMA ServicedRemote ==
  ASSUME NEW w, NEW q \in PGRecord, NEW o \in OSD, NEW s, NEW M, NEW N, NEW l, NEW r,
         Serviced(w, q, o, s, M, N, l, r), NEW r2
  PROVE  Serviced([w EXCEPT !.r = r2], q, o, s, M, N, l, r2)
<1>1. w \in [p : PGRecord, l : {l}, r : {r}, bad : BOOLEAN] /\ ~w.bad /\ Peered(w.p, q, o, s, M, N)
  BY DEF Serviced
<1> DEFINE x == [w EXCEPT !.r = r2]
<1>2. x.p = w.p /\ ~x.bad /\ x \in [p : PGRecord, l : {l}, r : {r2}, bad : BOOLEAN]
  BY <1>1
<1> HIDE DEF x
<1> QED
  BY <1>1, <1>2 DEF Serviced, x

LEMMA ServicedCancel ==
  ASSUME NEW w, NEW q \in PGRecord, NEW o \in OSD, NEW s, NEW M, NEW N, NEW l, NEW r,
         Serviced(w, q, o, s, M, N, l, r), NEW g
  PROVE  Serviced(cancel_remote(w, g), q, o, s, M, N, l, Cancelled(r, g))
<1>1. w.r = r
  BY DEF Serviced
<1>2. cancel_remote(w, g) = [w EXCEPT !.r = Cancelled(r, g)]
  BY <1>1 DEF cancel_remote, Cancelled
<1> QED
  BY <1>2, ServicedRemote

LEMMA ServicedRequest ==
  ASSUME NEW w, NEW q \in PGRecord, NEW o \in OSD, NEW s, NEW M, NEW N, NEW l, NEW r,
         Serviced(w, q, o, s, M, N, l, r), NEW g, NEW prio, NEW c, NEW d, ~HasReservation(r, g)
  PROVE  Serviced(request_remote(w, g, o, prio, c, d), q, o, s, M, N, l,
                  Asked(r, g, prio, Ctx(g, c, q.epoch[o]), Ctx(g, d, q.epoch[o])))
<1>1. w.r = r /\ w.p.epoch = q.epoch
  BY DEF Serviced, Peered
<1> DEFINE a == Asked(r, g, prio, Ctx(g, c, q.epoch[o]), Ctx(g, d, q.epoch[o]))
<1>2. request_remote(w, g, o, prio, c, d) = [w EXCEPT !.r = a]
  BY <1>1 DEF request_remote, Asked, Ctx
<1> HIDE DEF a
<1> QED
  BY <1>2, ServicedRemote DEF a

LEMMA ServicedIs ==
  ASSUME NEW w, NEW q \in PGRecord, NEW o \in OSD, NEW s, NEW M, NEW N, NEW l, NEW r,
         Serviced(w, q, o, s, M, N, l, r)
  PROVE  /\ w.l = l /\ w.r = r /\ ~w.bad /\ w.p \in PGRecord /\ Peered(w.p, q, o, s, M, N)
         /\ w.p.state[o] = s
BY PeeredIs DEF Serviced

----------------------------------------------------------------------------
(* The instance of g on the peer o, and what is known of its pair.          *)
PeerStage(ps, lo, re, g, l, o, q, v, ep, eo, so, M, N) ==
    /\ AllOK(ps, lo, re)
    /\ g \in PG /\ l = lay[g] /\ q = ps[g] /\ o \in l.replicas
    /\ v = View(q, l, o) /\ ep = q.epoch[l.primary] /\ eo = q.epoch[o]
    /\ so = q.state[o] /\ M = q.toReplica[o] /\ N = q.toPrimary[o]

LEMMA PeerStageIs ==
  ASSUME NEW ps, NEW lo, NEW re, NEW g, NEW l, NEW o, NEW q, NEW v, NEW ep, NEW eo, NEW so,
         NEW M, NEW N, PeerStage(ps, lo, re, g, l, o, q, v, ep, eo, so, M, N)
  PROVE  /\ AllOK(ps, lo, re) /\ ps \in [PG -> PGRecord] /\ q = ps[g] /\ q \in PGRecord
         /\ g \in PG /\ l = lay[g] /\ IsLayout(l) /\ GroupOK(q, l)
         /\ o \in l.replicas /\ o \in OSD /\ l.primary # o
         /\ ep \in Nat /\ eo \in Nat /\ M \in Seq(Event) /\ N \in Seq(Event)
         /\ q.epoch[o] = eo /\ eo \in Interval
         /\ PairOK(v, ep, eo, so, M, N)
         /\ Fits(re[o], RemoteSet(lay, ps, o), RemoteHolding(lay, ps, o))
<1>1. /\ AllOK(ps, lo, re) /\ q = ps[g] /\ g \in PG /\ l = lay[g] /\ o \in l.replicas
  BY DEF PeerStage
<1>2. /\ ps \in [PG -> PGRecord] /\ q \in PGRecord /\ IsLayout(l) /\ GroupOK(q, l)
      /\ \A a \in OSD : Fits(re[a], RemoteSet(lay, ps, a), RemoteHolding(lay, ps, a))
  BY <1>1, AllIs
<1>3. o \in OSD /\ l.primary # o
  BY <1>1, <1>2 DEF IsLayout
<1>4. ep \in Nat /\ eo \in Nat /\ M \in Seq(Event) /\ N \in Seq(Event)
  BY <1>1, <1>2, PairTypes DEF PeerStage
<1>5. PairOK(v, ep, eo, so, M, N)
  BY <1>1, <1>2 DEF GroupOK, PeerOK, PeerStage
<1>6. q.epoch[o] = eo /\ eo \in Interval
  BY <1>2, <1>3, EpochIs DEF PeerStage
<1> QED
  BY <1>1, <1>2, <1>3, <1>4, <1>5, <1>6

(* The callbacks that the remote reserver r holds stay due.                 *)
Heard(r, g, v, ep, eo, so, M, N, s, M2, N2) ==
    \A c \in Context : c.pg = g /\ Holds(r, c) /\ CallbackOK(v, ep, eo, so, M, N, c) =>
                       CallbackOK(v, ep, eo, s, M2, N2, c)

CallsKept(v, ep, eo, so, M, N, s, M2, N2) ==
    \A c : CallbackOK(v, ep, eo, so, M, N, c) => CallbackOK(v, ep, eo, s, M2, N2, c)

LEMMA ServicedReacts ==
  ASSUME NEW ps, NEW lo, NEW re, NEW g, NEW l, NEW o, NEW q, NEW v, NEW ep, NEW eo, NEW so,
         NEW M, NEW N, PeerStage(ps, lo, re, g, l, o, q, v, ep, eo, so, M, N),
         NEW w, NEW s, NEW M2, NEW N2, NEW r, Serviced(w, q, o, s, M2, N2, lo[o], r),
         PairOK(v, ep, eo, s, M2, N2), NEW ps2, Moved(ps, g, w.p, ps2),
         Fits(r, RemoteSet(lay, ps2, o), RemoteHolding(lay, ps2, o))
  PROVE  Reacts(ps, lo, re, g, o, w)
<1>1. /\ AllOK(ps, lo, re) /\ q = ps[g] /\ q \in PGRecord /\ g \in PG /\ l = lay[g]
      /\ o \in l.replicas /\ o \in OSD
  BY PeerStageIs
<1>2. PICK x, t : x = w.p /\ t = lo[o]
  OBVIOUS
<1>3. w.l = t /\ w.r = r /\ ~w.bad /\ Peered(x, q, o, s, M2, N2)
  BY <1>1, <1>2, ServicedIs
<1>4. PairOK(View(q, l, o), q.epoch[l.primary], q.epoch[o], s, M2, N2)
  BY DEF PeerStage
<1>5. AllOK(ps2, [lo EXCEPT ![o] = lo[o]], [re EXCEPT ![o] = r])
  BY <1>1, <1>2, <1>3, <1>4, PeeredAll
<1>6. ps2 = [ps EXCEPT ![g] = w.p]
  BY DEF Moved
<1> QED
  BY <1>2, <1>3, <1>5, <1>6 DEF Reacts

(* The peer leaves its reserver alone.                                      *)
LEMMA ServedFits ==
  ASSUME NEW ps, NEW lo, NEW re, NEW g, NEW l, NEW o, NEW q, NEW v, NEW ep, NEW eo, NEW so,
         NEW M, NEW N, PeerStage(ps, lo, re, g, l, o, q, v, ep, eo, so, M, N),
         NEW x, NEW s, NEW M2, NEW N2, Peered(x, q, o, s, M2, N2),
         NEW r, Fits(r, RemoteSet(lay, ps, o), RemoteHolding(lay, ps, o)),
         Heard(r, g, v, ep, eo, so, M, N, s, M2, N2),
         s \in RemoteHolders \/ so \notin RemoteHolders \/ ~HasReservation(r, g),
         NEW ps2, Moved(ps, g, x, ps2)
  PROVE  Fits(r, RemoteSet(lay, ps2, o), RemoteHolding(lay, ps2, o))
<1>1. /\ AllOK(ps, lo, re) /\ q = ps[g] /\ q \in PGRecord /\ g \in PG /\ l = lay[g] /\ IsLayout(l)
      /\ o \in l.replicas /\ o \in OSD /\ ps \in [PG -> PGRecord] /\ l.primary # o
  BY PeerStageIs
<1>2. /\ x.state[o] = s /\ x.toReplica[o] = M2 /\ x.toPrimary[o] = N2
  BY <1>1, PeeredIs
<1>3. View(x, l, o) = v /\ x.epoch = q.epoch
  <2>1. View(x, l, o) = View(q, l, o)
    BY <1>1, PeeredView
  <2> QED
    BY <2>1 DEF Peered, PeerStage
<1>4. \A c \in Context : c.pg = g /\ Holds(r, c) /\ RemoteOK(ps[g], lay[g], o, c) =>
                         RemoteOK(x, lay[g], o, c)
  BY <1>1, <1>2, <1>3 DEF RemoteOK, Heard, PeerStage
<1>5. g \in RemoteHolding(lay, ps, o) /\ HasReservation(r, g) => x.state[o] \in RemoteHolders
  BY <1>1, <1>2 DEF RemoteHolding, PeerStage
<1> QED
  BY <1>1, <1>4, <1>5, RemoteMove

LEMMA ServedKeep ==
  ASSUME NEW ps, NEW lo, NEW re, NEW g, NEW l, NEW o, NEW q, NEW v, NEW ep, NEW eo, NEW so,
         NEW M, NEW N, PeerStage(ps, lo, re, g, l, o, q, v, ep, eo, so, M, N),
         NEW w, NEW s, NEW M2, NEW N2, NEW r, Serviced(w, q, o, s, M2, N2, lo[o], r),
         PairOK(v, ep, eo, s, M2, N2),
         Fits(r, RemoteSet(lay, ps, o), RemoteHolding(lay, ps, o)),
         Heard(r, g, v, ep, eo, so, M, N, s, M2, N2),
         s \in RemoteHolders \/ so \notin RemoteHolders \/ ~HasReservation(r, g)
  PROVE  Reacts(ps, lo, re, g, o, w)
<1>1. q \in PGRecord /\ o \in OSD
  BY PeerStageIs
<1>2. PICK x, ps2 : x = w.p /\ Moved(ps, g, x, ps2)
  BY DEF Moved
<1>3. Peered(x, q, o, s, M2, N2)
  BY <1>1, <1>2, ServicedIs
<1>4. Fits(r, RemoteSet(lay, ps2, o), RemoteHolding(lay, ps2, o))
  BY <1>2, <1>3, ServedFits
<1> QED
  BY <1>2, <1>4, ServicedReacts

(* The peer gives up its slot or its place in the queue.                    *)
LEMMA ServedCancel ==
  ASSUME NEW ps, NEW lo, NEW re, NEW g, NEW l, NEW o, NEW q, NEW v, NEW ep, NEW eo, NEW so,
         NEW M, NEW N, PeerStage(ps, lo, re, g, l, o, q, v, ep, eo, so, M, N),
         NEW w, NEW s, NEW M2, NEW N2, Serviced(w, q, o, s, M2, N2, lo[o], Cancelled(re[o], g)),
         PairOK(v, ep, eo, s, M2, N2),
         CallsKept(v, ep, eo, so, M, N, s, M2, N2)
  PROVE  Reacts(ps, lo, re, g, o, w)
<1>1. g \in PG /\ Fits(re[o], RemoteSet(lay, ps, o), RemoteHolding(lay, ps, o))
  BY PeerStageIs
<1>2. PICK r, t, A, H : /\ r = Cancelled(re[o], g) /\ t = re[o] /\ A = RemoteSet(lay, ps, o)
                        /\ H = RemoteHolding(lay, ps, o)
  OBVIOUS
<1>3. Fits(r, A, H \ {g})
  BY <1>1, <1>2, FitsCancel DEF Cancelled, PG
<1>4. ~HasReservation(r, g)
  BY <1>1, <1>3 DEF Fits, PG
<1>5. Fits(r, A, H)
  BY <1>3, FitsMove
<1>6. Heard(r, g, v, ep, eo, so, M, N, s, M2, N2)
  BY DEF Heard, CallsKept
<1> QED
  BY <1>2, <1>4, <1>5, <1>6, ServedKeep

(* The peer asks for a slot.                                                *)
LEMMA ServedAsk ==
  ASSUME NEW ps, NEW lo, NEW re, NEW g, NEW l, NEW o, NEW q, NEW v, NEW ep, NEW eo, NEW so,
         NEW M, NEW N, PeerStage(ps, lo, re, g, l, o, q, v, ep, eo, so, M, N),
         NEW s, NEW M2, NEW N2, so \notin RemoteHolders, s \in RemoteHolders,
         PairOK(v, ep, eo, s, M2, N2),
         CallsKept(v, ep, eo, so, M, N, s, M2, N2),
         NEW c \in Context, NEW d \in Context, c.pg = g, d.pg = g,
         c.ev \in GrantEvents, d.ev \notin GrantEvents,
         CallbackOK(v, ep, eo, s, M2, N2, c), CallbackOK(v, ep, eo, s, M2, N2, d),
         ~CallbackOK(v, ep, eo, so, M, N, c), NEW prio \in Prio
  PROVE  /\ ~HasReservation(re[o], g)
         /\ \A w : Serviced(w, q, o, s, M2, N2, lo[o], Asked(re[o], g, prio, c, d)) =>
                   Reacts(ps, lo, re, g, o, w)
<1>1. /\ g \in PG /\ Fits(re[o], RemoteSet(lay, ps, o), RemoteHolding(lay, ps, o))
      /\ q \in PGRecord /\ ps \in [PG -> PGRecord] /\ q = ps[g] /\ l = lay[g] /\ o \in l.replicas
      /\ o \in OSD /\ IsLayout(l)
  BY PeerStageIs
<1>2. PICK t, A, H : t = re[o] /\ A = RemoteSet(lay, ps, o) /\ H = RemoteHolding(lay, ps, o)
  OBVIOUS
<1>3. g \notin H
  BY <1>1, <1>2 DEF RemoteHolding, PeerStage
<1>4. ~HasReservation(t, g)
  BY <1>1, <1>2, <1>3 DEF Fits, PG
<1>5. c \notin Elems(t.f)
  <2>1. c \notin A
    BY <1>1, <1>2 DEF RemoteSet, RemoteOK, PeerStage
  <2> QED
    BY <1>1, <1>2, <2>1 DEF Fits
<1>6. ASSUME NEW w, Serviced(w, q, o, s, M2, N2, lo[o], Asked(t, g, prio, c, d))
      PROVE  Reacts(ps, lo, re, g, o, w)
  <2>1. PICK x, ps2 : x = w.p /\ Moved(ps, g, x, ps2)
    BY DEF Moved
  <2>2. Peered(x, q, o, s, M2, N2)
    <3>1. PICK u, r : u = lo[o] /\ r = Asked(t, g, prio, c, d)
      OBVIOUS
    <3>2. Serviced(w, q, o, s, M2, N2, u, r)
      BY <1>6, <3>1
    <3> QED
      BY <1>1, <2>1, <3>2, ServicedIs
  <2>3. Heard(t, g, v, ep, eo, so, M, N, s, M2, N2)
    BY DEF Heard, CallsKept
  <2>4. Fits(t, RemoteSet(lay, ps, o), RemoteHolding(lay, ps, o))
    BY <1>1, <1>2
  <2>5. Fits(t, RemoteSet(lay, ps2, o), RemoteHolding(lay, ps2, o))
    BY <1>4, <2>1, <2>2, <2>3, <2>4, ServedFits
  <2>6. x.state[o] = s /\ x.toReplica[o] = M2 /\ x.toPrimary[o] = N2
    BY <1>1, <2>2, PeeredIs
  <2>7. View(x, l, o) = v /\ x.epoch = q.epoch
    <3>1. View(x, l, o) = View(q, l, o)
      BY <1>1, <2>2, PeeredView
    <3> QED
      BY <2>2, <3>1 DEF Peered, PeerStage
  <2>8. RemoteOK(x, l, o, c) /\ RemoteOK(x, l, o, d)
    BY <1>1, <2>6, <2>7 DEF RemoteOK, PeerStage
  <2>9. c \in RemoteSet(lay, ps2, o) /\ d \in RemoteSet(lay, ps2, o)
    BY <1>1, <2>1, <2>8, SetsMove
  <2>10. g \in RemoteHolding(lay, ps2, o)
    <3>1. /\ g \in PG /\ ps \in [PG -> PGRecord] /\ Moved(ps, g, x, ps2)
          /\ o \in lay[g].replicas /\ x.state[o] \in RemoteHolders
      BY <1>1, <2>1, <2>6
    <3> QED
      BY <3>1, HoldingMove
  <2>11. Fits(Asked(t, g, prio, c, d), RemoteSet(lay, ps2, o), RemoteHolding(lay, ps2, o))
    BY <1>1, <1>4, <1>5, <2>5, <2>9, <2>10, FitsRequest DEF Asked, PG
  <2>12. PICK r : r = Asked(t, g, prio, c, d)
    OBVIOUS
  <2> QED
    BY <1>6, <2>1, <2>11, <2>12, ServicedReacts
<1> QED
  BY <1>2, <1>4, <1>6

LEMMA ServicedAsserts ==
  ASSUME NEW w, NEW q \in PGRecord, NEW o \in OSD, NEW s, NEW M, NEW N, NEW l, NEW r,
         Serviced(w, q, o, s, M, N, l, r), NEW P, P
  PROVE  Serviced(Asserts(w, P), q, o, s, M, N, l, r)
<1>1. w \in [p : PGRecord, l : {l}, r : {r}, bad : BOOLEAN] /\ ~w.bad /\ Peered(w.p, q, o, s, M, N)
  BY DEF Serviced
<1> DEFINE b == w.bad \/ ~P
           x == [w EXCEPT !.bad = b]
<1>2. b \in BOOLEAN /\ ~b
  BY <1>1
<1> HIDE DEF b
<1>3. x.p = w.p /\ x.bad = b /\ x \in [p : PGRecord, l : {l}, r : {r}, bad : BOOLEAN]
  BY <1>1, <1>2
<1>4. Asserts(w, P) = x
  BY DEF Asserts, b
<1> HIDE DEF x
<1>5. ~x.bad
  BY <1>2, <1>3
<1> QED
  BY <1>1, <1>3, <1>4, <1>5 DEF Serviced

LEMMA PeerEvent ==
  ASSUME State, NEW g \in PG, NEW o \in OSD, ~IsPrimary(g, o), NEW e, NEW q, NEW l, NEW r,
         NEW full \in BOOLEAN, q.epoch[o] \in Nat, e.epoch \in Nat,
         do_peering_event(g, o, e, q, l, r, full),
         NEW w, w = [p |-> q, l |-> l, r |-> r, bad |-> FALSE],
         e.epoch < q.epoch[o] => Moves(pgs, local, remote, g, o, w),
         e.epoch = q.epoch[o] =>
            Moves(pgs, local, remote, g, o, Replica_react(w, g, o, e.ev, full))
  PROVE  Kept
<1> DEFINE x == IF old_peering_evt(q, o, e) THEN w ELSE Replica_react(w, g, o, e.ev, full)
<1>1. /\ e.epoch <= q.epoch[o]
      /\ full => fulls < MaxFull
      /\ pgs' = [pgs EXCEPT ![g] = x.p]
      /\ local' = [local EXCEPT ![o] = x.l]
      /\ remote' = [remote EXCEPT ![o] = x.r]
      /\ fulls' = IF full THEN fulls + 1 ELSE fulls
      /\ crashed' = (crashed \/ x.bad)
      /\ lay' = lay
  BY DEF do_peering_event
<1>2. Moves(pgs, local, remote, g, o, x)
  <2>1. e.epoch < q.epoch[o] \/ e.epoch = q.epoch[o]
    BY <1>1
  <2> QED
    BY <2>1 DEF old_peering_evt
<1> HIDE DEF x
<1>3. AllOK(pgs', local', remote')
  BY <1>1, <1>2 DEF Moves
<1>4. fulls' \in 0 .. MaxFull
  BY <1>1, RecoveryReservationAssumption DEF State
<1>5. crashed' \in BOOLEAN /\ (~TooFullLate => crashed' = crashed)
  BY <1>1, <1>2 DEF Moves, State
<1> QED
  BY <1>1, <1>3, <1>4, <1>5 DEF Kept

----------------------------------------------------------------------------
(* The peer takes a message.                                                *)

(* w is what its handler gets.                                              *)
Arrives(ps, lo, re, g, l, o, q, v, ep, eo, so, M, N, w) ==
    /\ PeerStage(ps, lo, re, g, l, o, q, v, ep, eo, so, M, N)
    /\ M # <<>>
    /\ Serviced(w, q, o, so, Tail(M), N, lo[o], re[o])

LEMMA ArrivesIs ==
  ASSUME NEW ps, NEW lo, NEW re, NEW g, NEW l, NEW o, NEW q, NEW v, NEW ep, NEW eo, NEW so,
         NEW M, NEW N, NEW w, Arrives(ps, lo, re, g, l, o, q, v, ep, eo, so, M, N, w)
  PROVE  /\ PeerStage(ps, lo, re, g, l, o, q, v, ep, eo, so, M, N)
         /\ M # <<>> /\ Serviced(w, q, o, so, Tail(M), N, lo[o], re[o])
         /\ w.p.state[o] = so /\ q \in PGRecord /\ o \in OSD /\ q.epoch[o] = eo
         /\ ep \in Nat /\ eo \in Nat /\ M \in Seq(Event) /\ N \in Seq(Event)
         /\ PairOK(v, ep, eo, so, M, N) /\ g \in PG /\ l = lay[g] /\ IsLayout(l)
         /\ eo \in Interval
         /\ Fits(re[o], RemoteSet(lay, ps, o), RemoteHolding(lay, ps, o))
<1>1. /\ PeerStage(ps, lo, re, g, l, o, q, v, ep, eo, so, M, N)
      /\ M # <<>> /\ Serviced(w, q, o, so, Tail(M), N, lo[o], re[o])
  BY DEF Arrives
<1>2. /\ q \in PGRecord /\ o \in OSD /\ q.epoch[o] = eo
      /\ ep \in Nat /\ eo \in Nat /\ M \in Seq(Event) /\ N \in Seq(Event)
      /\ PairOK(v, ep, eo, so, M, N) /\ g \in PG /\ l = lay[g] /\ IsLayout(l)
      /\ eo \in Interval
      /\ Fits(re[o], RemoteSet(lay, ps, o), RemoteHolding(lay, ps, o))
  BY <1>1, PeerStageIs
<1>3. PICK K, a, b : K = Tail(M) /\ a = lo[o] /\ b = re[o]
  OBVIOUS
<1>4. Serviced(w, q, o, so, K, N, a, b)
  BY <1>1, <1>3
<1>5. w.p.state[o] = so
  BY <1>2, <1>4, ServicedIs
<1> QED
  BY <1>1, <1>2, <1>5

(* A message of an earlier interval.                                        *)
LEMMA TakeOld ==
  ASSUME NEW ps, NEW lo, NEW re, NEW g, NEW l, NEW o, NEW q, NEW v, NEW ep, NEW eo, NEW so,
         NEW M, NEW N, NEW w, Arrives(ps, lo, re, g, l, o, q, v, ep, eo, so, M, N, w),
         M[1].epoch # eo
  PROVE  Reacts(ps, lo, re, g, o, w)
<1>1. /\ PeerStage(ps, lo, re, g, l, o, q, v, ep, eo, so, M, N)
      /\ M # <<>> /\ Serviced(w, q, o, so, Tail(M), N, lo[o], re[o])
      /\ ep \in Nat /\ eo \in Nat /\ M \in Seq(Event) /\ N \in Seq(Event)
      /\ PairOK(v, ep, eo, so, M, N)
      /\ Fits(re[o], RemoteSet(lay, ps, o), RemoteHolding(lay, ps, o))
  BY ArrivesIs
<1>2. PICK K, r : K = Tail(M) /\ r = re[o]
  OBVIOUS
<1>3. /\ PairOK(v, ep, eo, so, K, N)
      /\ \A c : CallbackOK(v, ep, eo, so, M, N, c) => CallbackOK(v, ep, eo, so, K, N, c)
  BY <1>1, <1>2, PairDrop
<1>4. Heard(r, g, v, ep, eo, so, M, N, so, K, N)
  BY <1>3 DEF Heard
<1>5. so \in RemoteHolders \/ so \notin RemoteHolders
  OBVIOUS
<1> QED
  BY <1>1, <1>2, <1>3, <1>4, <1>5, ServedKeep

(* RequestRecoveryPrio and RequestBackfillPrio: the peer asks its reserver. *)
PeerAsks(m, s, c, d) ==
    \/ /\ m = "RequestRecoveryPrio" /\ s = "RepWaitRecoveryReserved"
       /\ c = "RemoteRecoveryReserved" /\ d = "RemoteRecoveryPreempted"
    \/ /\ m = "RequestBackfillPrio" /\ s = "RepWaitBackfillReserved"
       /\ c = "RemoteBackfillReserved" /\ d = "RemoteBackfillPreempted"

RequestTaken(v, ep, eo, so, M, N, s) ==
    /\ PairOK(v, ep, eo, s, Tail(M), N)
    /\ \A c : /\ s \in Waits /\ c.ev \in RemoteGrants /\ c.epoch = eo
              /\ c.ev = "RemoteRecoveryReserved" <=> M[1].ev = "RequestRecoveryPrio"
              => CallbackOK(v, ep, eo, s, Tail(M), N, c)
    /\ \A d : CallbackOK(v, ep, eo, so, M, N, d) =>
              /\ CallbackOK(v, ep, eo, s, Tail(M), N, d)
              /\ d.epoch = eo => d.ev \notin RemoteGrants

LEMMA PairAsked ==
  ASSUME NEW v, NEW ep \in Nat, NEW eo \in Nat, NEW so, NEW M \in Seq(Event),
         NEW N \in Seq(Event), PairOK(v, ep, eo, so, M, N), M # <<>>,
         M[1].epoch = eo, M[1].ev \in Requests, NEW s, s \in Takers, s \in Waits,
         s = "RepWaitRecoveryReserved" <=> M[1].ev = "RequestRecoveryPrio"
  PROVE  so = "RepNotRecovering" /\ RequestTaken(v, ep, eo, so, M, N, s)
<1>0. PICK st \in Takers : st = s
  OBVIOUS
<1>1. PairOK(v, ep, eo, s, Tail(M), N)
  <2>1. st \in Waits => (st = "RepWaitRecoveryReserved" <=> M[1].ev = "RequestRecoveryPrio")
    BY <1>0
  <2>2. PairOK(v, ep, eo, st, Tail(M), N)
    BY <1>0, <2>1, PairRequested
  <2> QED
    BY <1>0, <2>2
<1>5. RequestKeeps(v, ep, eo, so, M, N, st, Tail(M))
  <2>1. st \in Waits => (st = "RepWaitRecoveryReserved" <=> M[1].ev = "RequestRecoveryPrio")
    BY <1>0
  <2> QED
    BY <1>0, <1>1, <2>1, PairRequest
<1>2. so = "RepNotRecovering"
  <2>1. 1 \in 1 .. Len(M)
    BY TailIs
  <2> QED
    BY <2>1 DEF PairOK, MessagesOK, RequestOK, Ready
<1>3. \A d : CallbackOK(v, ep, eo, so, M, N, d) =>
            /\ CallbackOK(v, ep, eo, s, Tail(M), N, d)
            /\ d.epoch = eo => d.ev \notin RemoteGrants
  BY <1>0, <1>5 DEF RequestKeeps
<1>4. ASSUME NEW c, c.ev \in RemoteGrants, c.epoch = eo,
             c.ev = "RemoteRecoveryReserved" <=> M[1].ev = "RequestRecoveryPrio"
      PROVE  CallbackOK(v, ep, eo, s, Tail(M), N, c)
  BY <1>0, <1>4, <1>5 DEF RequestKeeps
<1> QED
  BY <1>1, <1>2, <1>3, <1>4 DEF RequestTaken

LEMMA TakeRequest ==
  ASSUME NEW ps, NEW lo, NEW re, NEW g, NEW l, NEW o, NEW q, NEW v, NEW ep, NEW eo, NEW so,
         NEW M, NEW N, NEW w, Arrives(ps, lo, re, g, l, o, q, v, ep, eo, so, M, N, w),
         M[1].epoch = eo, NEW s, NEW ce, NEW de, PeerAsks(M[1].ev, s, ce, de), NEW prio \in Prio
  PROVE  /\ so = "RepNotRecovering"
         /\ Reacts(ps, lo, re, g, o, request_remote(To(w, o, s), g, o, prio, ce, de))
<1>1. /\ PeerStage(ps, lo, re, g, l, o, q, v, ep, eo, so, M, N)
      /\ M # <<>> /\ Serviced(w, q, o, so, Tail(M), N, lo[o], re[o])
      /\ ep \in Nat /\ eo \in Nat /\ M \in Seq(Event) /\ N \in Seq(Event)
      /\ PairOK(v, ep, eo, so, M, N) /\ g \in PG /\ eo \in Interval
      /\ q \in PGRecord /\ o \in OSD /\ q.epoch[o] = eo
  BY ArrivesIs
<1>2. PICK K, r, a : K = Tail(M) /\ r = re[o] /\ a = lo[o]
  OBVIOUS
<1>3. /\ M[1].ev \in Requests /\ s \in Takers /\ s \in Waits /\ s \in RemoteHolders /\ s \in States
      /\ s = "RepWaitRecoveryReserved" <=> M[1].ev = "RequestRecoveryPrio"
      /\ ce = "RemoteRecoveryReserved" <=> M[1].ev = "RequestRecoveryPrio"
      /\ ce \in RemoteGrants /\ ce \in GrantEvents /\ de \notin GrantEvents
      /\ de \in RemotePreemptions /\ ce \in Events /\ de \in Events
  BY DEF PeerAsks, Requests, Takers, Waits, RemoteHolders, States, RemoteGrants, GrantEvents,
         RemotePreemptions, Events
<1>4. /\ so = "RepNotRecovering"
      /\ PairOK(v, ep, eo, s, K, N)
      /\ \A c : /\ s \in Waits /\ c.ev \in RemoteGrants /\ c.epoch = eo
                /\ c.ev = "RemoteRecoveryReserved" <=> M[1].ev = "RequestRecoveryPrio"
                => CallbackOK(v, ep, eo, s, K, N, c)
      /\ \A d : CallbackOK(v, ep, eo, so, M, N, d) =>
                /\ CallbackOK(v, ep, eo, s, K, N, d)
                /\ d.epoch = eo => d.ev \notin RemoteGrants
  <2>1. so = "RepNotRecovering" /\ RequestTaken(v, ep, eo, so, M, N, s)
    BY <1>1, <1>3, PairAsked
  <2> QED
    BY <1>2, <1>3, <2>1 DEF RequestTaken
<1>5. PICK c, d : c = Ctx(g, ce, eo) /\ d = Ctx(g, de, eo)
  OBVIOUS
<1>6. /\ c \in Context /\ d \in Context /\ c.pg = g /\ d.pg = g /\ c.ev = ce /\ d.ev = de
      /\ c.epoch = eo /\ d.epoch = eo
  BY <1>1, <1>3, <1>5, RecoveryReservationAssumption DEF Ctx
<1>7. CallbackOK(v, ep, eo, s, K, N, c)
  BY <1>3, <1>4, <1>6
<1>8. CallbackOK(v, ep, eo, s, K, N, d)
  <2>1. d.ev \in RemotePreemptions /\ d.ev \notin RemoteGrants /\ s # "Stray"
    BY <1>3, <1>6 DEF RemotePreemptions, RemoteGrants, Waits
  <2> QED
    BY <1>1, <1>6, <2>1 DEF CallbackOK
<1>9. ~CallbackOK(v, ep, eo, so, M, N, c)
  BY <1>3, <1>4, <1>6
<1>10. CallsKept(v, ep, eo, so, M, N, s, K, N)
  BY <1>4 DEF CallsKept
<1>11. so \notin RemoteHolders
  BY <1>4 DEF RemoteHolders
<1>12. c.ev \in GrantEvents /\ d.ev \notin GrantEvents
  BY <1>3, <1>6
<1>13. /\ ~HasReservation(re[o], g)
       /\ \A u : Serviced(u, q, o, s, K, N, lo[o], Asked(re[o], g, prio, c, d)) =>
                 Reacts(ps, lo, re, g, o, u)
  BY <1>1, <1>3, <1>4, <1>6, <1>7, <1>8, <1>9, <1>10, <1>11, <1>12, ServedAsk
<1>14. PICK w1 : w1 = To(w, o, s)
  OBVIOUS
<1>15. Serviced(w1, q, o, s, K, N, a, r)
  <2>1. Serviced(w, q, o, so, K, N, a, r)
    BY <1>1, <1>2
  <2> QED
    BY <1>1, <1>3, <1>14, <2>1, ServicedTo
<1>16. ~HasReservation(r, g)
  BY <1>2, <1>13
<1>17. Serviced(request_remote(w1, g, o, prio, ce, de), q, o, s, K, N, a,
                Asked(r, g, prio, Ctx(g, ce, q.epoch[o]), Ctx(g, de, q.epoch[o])))
  BY <1>1, <1>15, <1>16, ServicedRequest
<1>18. Serviced(request_remote(w1, g, o, prio, ce, de), q, o, s, K, N, lo[o],
                Asked(re[o], g, prio, c, d))
  BY <1>1, <1>2, <1>5, <1>17
<1> QED
  BY <1>4, <1>13, <1>14, <1>18

(* RequestBackfillPrio: the peer is too full.                               *)
LEMMA TakeTooFull ==
  ASSUME NEW ps, NEW lo, NEW re, NEW g, NEW l, NEW o, NEW q, NEW v, NEW ep, NEW eo, NEW so,
         NEW M, NEW N, NEW w, Arrives(ps, lo, re, g, l, o, q, v, ep, eo, so, M, N, w),
         M[1].epoch = eo, M[1].ev = "RequestBackfillPrio"
  PROVE  /\ so = "RepNotRecovering"
         /\ Reacts(ps, lo, re, g, o,
                   cancel_remote(Reply(w, o, "RemoteReservationRejectedTooFull"), g))
<1>1. /\ PeerStage(ps, lo, re, g, l, o, q, v, ep, eo, so, M, N)
      /\ M # <<>> /\ Serviced(w, q, o, so, Tail(M), N, lo[o], re[o])
      /\ ep \in Nat /\ eo \in Nat /\ M \in Seq(Event) /\ N \in Seq(Event)
      /\ PairOK(v, ep, eo, so, M, N) /\ g \in PG
      /\ q \in PGRecord /\ o \in OSD /\ q.epoch[o] = eo
  BY ArrivesIs
<1>2. PICK K, r, a, ev, m : /\ K = Tail(M) /\ r = re[o] /\ a = lo[o]
                            /\ ev = "RemoteReservationRejectedTooFull" /\ m = Msg(ev, eo)
  OBVIOUS
<1>3. ev \in Events
  BY <1>2 DEF Events
<1>4. Serviced(w, q, o, so, K, N, a, r)
  BY <1>1, <1>2
<1>5. PICK w1 : w1 = Reply(w, o, ev)
  OBVIOUS
<1>6. Serviced(w1, q, o, so, K, Append(N, m), a, r) /\ m \in Event
  <2>1. Serviced(Reply(w, o, ev), q, o, so, K, Append(N, Msg(ev, q.epoch[o])), a, r)
    BY <1>1, <1>3, <1>4, ServicedReply
  <2>2. Msg(ev, q.epoch[o]) \in Event
    BY <1>1, <1>3, <1>4, ServicedReply
  <2> QED
    BY <1>1, <1>2, <1>5, <2>1, <2>2
<1>7. m.ev = "RemoteReservationRejectedTooFull" /\ m.epoch = eo
  BY <1>2 DEF Msg
<1>8. PICK N2 : N2 = Append(N, m)
  OBVIOUS
<1>9. /\ so = "RepNotRecovering"
      /\ PairOK(v, ep, eo, so, K, N2)
      /\ \A d : CallbackOK(v, ep, eo, so, M, N, d) => CallbackOK(v, ep, eo, so, K, N2, d)
  <2>1. /\ so = "RepNotRecovering"
        /\ PairOK(v, ep, eo, so, Tail(M), Append(N, m))
        /\ \A d : CallbackOK(v, ep, eo, so, M, N, d) =>
                  CallbackOK(v, ep, eo, so, Tail(M), Append(N, m), d)
    BY <1>1, <1>6, <1>7, PairReject
  <2> QED
    BY <1>2, <1>8, <2>1
<1>10. CallsKept(v, ep, eo, so, M, N, so, K, N2)
  BY <1>9 DEF CallsKept
<1>11. Serviced(cancel_remote(w1, g), q, o, so, K, N2, a, Cancelled(r, g))
  BY <1>1, <1>6, <1>8, ServicedCancel
<1>12. Reacts(ps, lo, re, g, o, cancel_remote(w1, g))
  BY <1>1, <1>2, <1>9, <1>10, <1>11, ServedCancel
<1> QED
  BY <1>2, <1>5, <1>9, <1>12

(* RecoveryDone and RemoteReservationCanceled.                              *)
LEMMA TakeRelease ==
  ASSUME NEW ps, NEW lo, NEW re, NEW g, NEW l, NEW o, NEW q, NEW v, NEW ep, NEW eo, NEW so,
         NEW M, NEW N, NEW w, Arrives(ps, lo, re, g, l, o, q, v, ep, eo, so, M, N, w),
         M[1].epoch = eo, M[1].ev \in Releases
  PROVE  /\ so \in ReplicaStates /\ (M[1].ev = "RecoveryDone" => so \notin Waits)
         /\ Reacts(ps, lo, re, g, o, cancel_remote(To(w, o, "RepNotRecovering"), g))
         /\ so = "RepNotRecovering" => \A P : P => Reacts(ps, lo, re, g, o, Asserts(w, P))
<1>1. /\ PeerStage(ps, lo, re, g, l, o, q, v, ep, eo, so, M, N)
      /\ M # <<>> /\ Serviced(w, q, o, so, Tail(M), N, lo[o], re[o])
      /\ ep \in Nat /\ eo \in Nat /\ M \in Seq(Event) /\ N \in Seq(Event)
      /\ PairOK(v, ep, eo, so, M, N) /\ g \in PG
      /\ q \in PGRecord /\ o \in OSD
      /\ Fits(re[o], RemoteSet(lay, ps, o), RemoteHolding(lay, ps, o))
  BY ArrivesIs
<1>2. PICK K, r, a, s : K = Tail(M) /\ r = re[o] /\ a = lo[o] /\ s = "RepNotRecovering"
  OBVIOUS
<1>3. /\ so \in ReplicaStates
      /\ M[1].ev = "RecoveryDone" => so \notin Waits
      /\ PairOK(v, ep, eo, s, K, N)
      /\ \A d : CallbackOK(v, ep, eo, so, M, N, d) => CallbackOK(v, ep, eo, s, K, N, d)
  BY <1>1, <1>2, PairReleased
<1>4. Serviced(w, q, o, so, K, N, a, r) /\ s \in States
  BY <1>1, <1>2 DEF States
<1>5. PICK w1 : w1 = To(w, o, s)
  OBVIOUS
<1>6. Serviced(w1, q, o, s, K, N, a, r)
  BY <1>1, <1>4, <1>5, ServicedTo
<1>7. Serviced(cancel_remote(w1, g), q, o, s, K, N, a, Cancelled(r, g))
  BY <1>1, <1>6, ServicedCancel
<1>8. CallsKept(v, ep, eo, so, M, N, s, K, N)
  BY <1>3 DEF CallsKept
<1>9. Reacts(ps, lo, re, g, o, cancel_remote(w1, g))
  BY <1>1, <1>2, <1>3, <1>7, <1>8, ServedCancel
<1>10. ASSUME so = "RepNotRecovering", NEW P, P
       PROVE  Reacts(ps, lo, re, g, o, Asserts(w, P))
  <2>1. PICK w2 : w2 = Asserts(w, P)
    OBVIOUS
  <2>2. Serviced(w2, q, o, so, K, N, a, r)
    BY <1>1, <1>4, <1>10, <2>1, ServicedAsserts
  <2>3. Heard(r, g, v, ep, eo, so, M, N, s, K, N) /\ so = s
    BY <1>2, <1>3, <1>10 DEF Heard
  <2>4. so \notin RemoteHolders
    BY <1>10 DEF RemoteHolders
  <2>5. Reacts(ps, lo, re, g, o, w2)
    BY <1>1, <1>2, <1>3, <2>2, <2>3, <2>4, ServedKeep
  <2> QED
    BY <2>1, <2>5
<1> QED
  BY <1>2, <1>3, <1>5, <1>9, <1>10

(* The reactions of a peer to messages.                                     *)
LEMMA TakeMessage ==
  ASSUME NEW ps, NEW lo, NEW re, NEW g, NEW l, NEW o, NEW q, NEW v, NEW ep, NEW eo, NEW so,
         NEW M, NEW N, NEW w, Arrives(ps, lo, re, g, l, o, q, v, ep, eo, so, M, N, w),
         M[1].epoch = eo, NEW full \in BOOLEAN
  PROVE  Reacts(ps, lo, re, g, o, Replica_react(w, g, o, M[1].ev, full))
<1>1. /\ w.p.state[o] = so /\ ep \in Nat /\ eo \in Nat /\ M \in Seq(Event) /\ M # <<>>
      /\ PairOK(v, ep, eo, so, M, N) /\ l = lay[g] /\ IsLayout(l)
  BY ArrivesIs
<1>2. M[1].ev \in Requests \cup Releases
  <2>1. 1 \in 1 .. Len(M)
    BY <1>1, TailIs
  <2> QED
    BY <1>1, <2>1 DEF PairOK, MessagesOK, MessageOK
<1>3. lay[g].recovery \in Prio /\ lay[g].backfill \in Prio
  BY <1>1 DEF IsLayout
<1>4. PICK m, pr, pb : m = M[1].ev /\ pr = lay[g].recovery /\ pb = lay[g].backfill
  OBVIOUS
<1>5. CASE m = "RequestRecoveryPrio"
  <2>1. PICK s, ce, de : /\ s = "RepWaitRecoveryReserved" /\ ce = "RemoteRecoveryReserved"
                         /\ de = "RemoteRecoveryPreempted"
    OBVIOUS
  <2>2. PeerAsks(M[1].ev, s, ce, de) /\ pr \in Prio
    BY <1>3, <1>4, <1>5, <2>1 DEF PeerAsks
  <2>3. /\ so = "RepNotRecovering"
        /\ Reacts(ps, lo, re, g, o, request_remote(To(w, o, s), g, o, pr, ce, de))
    BY <2>2, TakeRequest
  <2>4. Replica_react(w, g, o, m, full) = request_remote(To(w, o, s), g, o, pr, ce, de)
    BY <1>1, <1>4, <1>5, <2>1, <2>3 DEF Replica_react
  <2> QED
    BY <1>4, <2>3, <2>4
<1>6. CASE m = "RequestBackfillPrio"
  <2>1. PICK s, ce, de : /\ s = "RepWaitBackfillReserved" /\ ce = "RemoteBackfillReserved"
                         /\ de = "RemoteBackfillPreempted"
    OBVIOUS
  <2>2. PeerAsks(M[1].ev, s, ce, de) /\ pb \in Prio /\ M[1].ev = "RequestBackfillPrio"
    BY <1>3, <1>4, <1>6, <2>1 DEF PeerAsks
  <2>3. /\ so = "RepNotRecovering"
        /\ Reacts(ps, lo, re, g, o, request_remote(To(w, o, s), g, o, pb, ce, de))
    BY <2>2, TakeRequest
  <2>4. Reacts(ps, lo, re, g, o, cancel_remote(Reply(w, o, "RemoteReservationRejectedTooFull"), g))
    BY <2>2, TakeTooFull
  <2>5. Replica_react(w, g, o, m, full) =
           IF full THEN cancel_remote(Reply(w, o, "RemoteReservationRejectedTooFull"), g)
           ELSE request_remote(To(w, o, s), g, o, pb, ce, de)
    BY <1>1, <1>4, <1>6, <2>1, <2>3 DEF Replica_react
  <2> QED
    BY <1>4, <2>3, <2>4, <2>5
<1>7. ASSUME m \in Releases
      PROVE  Reacts(ps, lo, re, g, o, Replica_react(w, g, o, m, full))
  <2>1. /\ so \in ReplicaStates /\ (m = "RecoveryDone" => so \notin Waits)
        /\ Reacts(ps, lo, re, g, o, cancel_remote(To(w, o, "RepNotRecovering"), g))
        /\ so = "RepNotRecovering" => \A P : P => Reacts(ps, lo, re, g, o, Asserts(w, P))
    BY <1>4, <1>7, TakeRelease
  <2>2. CASE so = "RepNotRecovering"
    <3>1. Replica_react(w, g, o, m, full) = Asserts(w, <<so, m>> \in Discarded)
      BY <1>1, <1>7, <2>2 DEF Replica_react, Releases
    <3>2. <<so, m>> \in Discarded
      BY <1>7, <2>2 DEF Discarded, Releases, ReplicaStates
    <3> QED
      BY <2>1, <2>2, <3>1, <3>2
  <2>3. CASE so # "RepNotRecovering"
    <3>1. Replica_react(w, g, o, m, full) = cancel_remote(To(w, o, "RepNotRecovering"), g)
      BY <1>1, <1>7, <2>1, <2>3 DEF Replica_react, Releases, ReplicaStates, Waits
    <3> QED
      BY <2>1, <3>1
  <2> QED
    BY <2>2, <2>3
<1> QED
  BY <1>2, <1>4, <1>5, <1>6, <1>7 DEF Requests

MessageTaken(q, o, x) == x = [q EXCEPT !.toReplica[o] = Tail(@)]

LEMMA MessageTakenIs ==
  ASSUME NEW q \in PGRecord, NEW o \in OSD, q.toReplica[o] # <<>>, NEW x, MessageTaken(q, o, x)
  PROVE  /\ x \in PGRecord /\ x.epoch = q.epoch
         /\ Peered(x, q, o, q.state[o], Tail(q.toReplica[o]), q.toPrimary[o])
<1>1. /\ q.toReplica \in [OSD -> Seq(Event)] /\ q.toPrimary \in [OSD -> Seq(Event)]
      /\ q.state \in [OSD -> States]
  BY DEF PGRecord
<1>2. PICK K : K = Tail(q.toReplica[o])
  OBVIOUS
<1>3. K \in Seq(Event)
  BY <1>1, <1>2, TailIs
<1>4. PICK f : f = [q.toReplica EXCEPT ![o] = K]
  OBVIOUS
<1>5. f \in [OSD -> Seq(Event)]
  BY <1>1, <1>3, <1>4
<1>6. x = [q EXCEPT !.toReplica = f]
  BY <1>2, <1>4 DEF MessageTaken
<1>7. x \in PGRecord
  BY <1>5, <1>6 DEF PGRecord
<1>8. /\ x.state = q.state /\ x.epoch = q.epoch /\ x.interval = q.interval /\ x.it = q.it
      /\ x.todo = q.todo /\ x.timers = q.timers /\ x.working = q.working /\ x.scan = q.scan
      /\ x.toReplica = f /\ x.toPrimary = q.toPrimary /\ x.own = q.own
  BY <1>6 DEF PGRecord
<1>9. q.state = [q.state EXCEPT ![o] = q.state[o]]
  BY <1>1
<1>10. q.toPrimary = [q.toPrimary EXCEPT ![o] = q.toPrimary[o]]
  BY <1>1
<1> QED
  BY <1>2, <1>4, <1>7, <1>8, <1>9, <1>10 DEF Peered

LEMMA ServicedStart ==
  ASSUME NEW q \in PGRecord, NEW o \in OSD, NEW x, NEW s, NEW M, NEW N, Peered(x, q, o, s, M, N),
         NEW l, NEW r, NEW w, w = [p |-> x, l |-> l, r |-> r, bad |-> FALSE]
  PROVE  Serviced(w, q, o, s, M, N, l, r)
<1>1. x \in PGRecord
  BY DEF Peered
<1>2. w \in [p : PGRecord, l : {l}, r : {r}, bad : BOOLEAN]
  BY <1>1
<1> QED
  BY <1>2 DEF Serviced

LEMMA ToReplicaStep ==
  ASSUME State, NEW g \in PG, NEW o \in OSD, NEW full \in BOOLEAN, ToReplica(g, o, full)
  PROVE  Kept
<1>1. PICK l, q, h, x, a, b : /\ l = lay[g] /\ q = pgs[g] /\ h = Head(q.toReplica[o])
                              /\ MessageTaken(q, o, x) /\ a = local[o] /\ b = remote[o]
  BY DEF MessageTaken
<1>2. q.toReplica[o] # <<>> /\ do_peering_event(g, o, h, x, a, b, full)
  BY <1>1 DEF ToReplica, MessageTaken
<1>3. AllOK(pgs, local, remote) /\ q \in PGRecord /\ GroupOK(q, l) /\ IsLayout(l)
  BY <1>1, AllIs DEF State
<1>4. o \in l.replicas /\ o # l.primary
  BY <1>2, <1>3 DEF GroupOK, OthersOK, IsLayout
<1>5. PICK v, ep, eo, so, M, N : /\ v = View(q, l, o) /\ ep = q.epoch[l.primary] /\ eo = q.epoch[o]
                                 /\ so = q.state[o] /\ M = q.toReplica[o] /\ N = q.toPrimary[o]
  OBVIOUS
<1>6. PeerStage(pgs, local, remote, g, l, o, q, v, ep, eo, so, M, N)
  BY <1>1, <1>3, <1>4, <1>5 DEF PeerStage
<1>7. eo \in Nat /\ M \in Seq(Event) /\ M # <<>>
  BY <1>2, <1>3, <1>4, <1>5, PairTypes
<1>8. h = M[1] /\ h \in Event /\ h.epoch \in Nat
  BY <1>1, <1>5, <1>7, TailIs, EventIs
<1>9. PICK K, w : K = Tail(M) /\ w = [p |-> x, l |-> a, r |-> b, bad |-> FALSE]
  OBVIOUS
<1>10. x.epoch = q.epoch /\ Peered(x, q, o, so, K, N)
  <2>1. x.epoch = q.epoch /\ Peered(x, q, o, q.state[o], Tail(q.toReplica[o]), q.toPrimary[o])
    BY <1>1, <1>2, <1>3, MessageTakenIs
  <2> QED
    BY <1>5, <1>9, <2>1
<1>11. Serviced(w, q, o, so, K, N, a, b)
  BY <1>3, <1>9, <1>10, ServicedStart
<1>12. Arrives(pgs, local, remote, g, l, o, q, v, ep, eo, so, M, N, w)
  BY <1>1, <1>6, <1>7, <1>9, <1>11 DEF Arrives
<1>13. ~IsPrimary(g, o)
  BY <1>1, <1>4 DEF IsPrimary, Primary
<1>14. x.epoch[o] = eo
  BY <1>5, <1>10
<1>15. h.epoch < x.epoch[o] => Moves(pgs, local, remote, g, o, w)
  <2> SUFFICES ASSUME M[1].epoch < eo
               PROVE  Moves(pgs, local, remote, g, o, w)
    BY <1>8, <1>14
  <2>1. M[1].epoch # eo
    BY <1>7, <1>8
  <2>2. Reacts(pgs, local, remote, g, o, w)
    BY <1>12, <2>1, TakeOld
  <2> QED
    BY <2>2, ReactsMoves
<1>16. h.epoch = x.epoch[o] =>
          Moves(pgs, local, remote, g, o, Replica_react(w, g, o, h.ev, full))
  <2> SUFFICES ASSUME M[1].epoch = eo
               PROVE  Moves(pgs, local, remote, g, o, Replica_react(w, g, o, h.ev, full))
    BY <1>8, <1>14
  <2>1. Reacts(pgs, local, remote, g, o, Replica_react(w, g, o, M[1].ev, full))
    BY <1>12, TakeMessage
  <2>2. Reacts(pgs, local, remote, g, o, Replica_react(w, g, o, h.ev, full))
    BY <1>8, <2>1
  <2> QED
    BY <2>2, ReactsMoves
<1>17. x.epoch[o] \in Nat
  BY <1>7, <1>14
<1> QED
  BY <1>2, <1>8, <1>9, <1>13, <1>15, <1>16, <1>17, PeerEvent

----------------------------------------------------------------------------
(* The peer's Finisher completes a callback.                                *)

(* c is the callback, r the remote reserver without it, w what the handler  *)
(* gets.                                                                    *)
Completes(ps, lo, re, g, l, o, q, v, ep, eo, so, M, N, c, r, w) ==
    /\ PeerStage(ps, lo, re, g, l, o, q, v, ep, eo, so, M, N)
    /\ c \in Context /\ c.pg = g /\ CallbackOK(v, ep, eo, so, M, N, c)
    /\ Fits(r, RemoteSet(lay, ps, o), RemoteHolding(lay, ps, o))
    /\ c.ev \in GrantEvents => ~Holds(r, c)
    /\ Serviced(w, q, o, so, M, N, lo[o], r)

LEMMA RemotePop ==
  ASSUME NEW ps, NEW lo, NEW re, AllOK(ps, lo, re), NEW o \in OSD,
         NEW r, Popped(re[o], r), NEW c, c = Head(re[o].f)
  PROVE  /\ c \in Context /\ RemoteOK(ps[c.pg], lay[c.pg], o, c)
         /\ Fits(r, RemoteSet(lay, ps, o), RemoteHolding(lay, ps, o))
         /\ c.ev \in GrantEvents => ~Holds(r, c)
<1>1. PICK s, A, H : s = re[o] /\ A = RemoteSet(lay, ps, o) /\ H = RemoteHolding(lay, ps, o)
  OBVIOUS
<1>2. Fits(s, A, H)
  BY <1>1 DEF AllOK, RemotesOK
<1>3. /\ c \in A /\ c \in Context
      /\ c.ev \in GrantEvents => Fits(r, A \ {c}, H)
      /\ Fits(r, A, H)
  <2>1. s.f # <<>> /\ r = [s EXCEPT !.f = Tail(@)] /\ c = Head(s.f)
    BY <1>1 DEF Popped
  <2> QED
    BY <1>2, <2>1, FitsFinish
<1>4. c.ev \in GrantEvents => ~Holds(r, c)
  <2> SUFFICES ASSUME c.ev \in GrantEvents, Holds(r, c)
               PROVE  FALSE
    OBVIOUS
  <2>1. PICK B : B = A \ {c}
    OBVIOUS
  <2>2. Fits(r, B, H)
    BY <1>3, <2>1
  <2>3. c \in B
    BY <2>2, HeldIs
  <2> QED
    BY <2>1, <2>3
<1>5. RemoteOK(ps[c.pg], lay[c.pg], o, c)
  BY <1>1, <1>3 DEF RemoteSet
<1> QED
  BY <1>1, <1>3, <1>4, <1>5

LEMMA CompletesIs ==
  ASSUME NEW ps, NEW lo, NEW re, NEW g, NEW l, NEW o, NEW q, NEW v, NEW ep, NEW eo, NEW so,
         NEW M, NEW N, NEW c, NEW r, NEW w,
         Completes(ps, lo, re, g, l, o, q, v, ep, eo, so, M, N, c, r, w)
  PROVE  /\ PeerStage(ps, lo, re, g, l, o, q, v, ep, eo, so, M, N)
         /\ c \in Context /\ c.pg = g /\ CallbackOK(v, ep, eo, so, M, N, c)
         /\ Fits(r, RemoteSet(lay, ps, o), RemoteHolding(lay, ps, o))
         /\ c.ev \in GrantEvents => ~Holds(r, c)
         /\ Serviced(w, q, o, so, M, N, lo[o], r)
         /\ w.p.state[o] = so /\ q \in PGRecord /\ o \in OSD /\ q.epoch[o] = eo
         /\ ep \in Nat /\ eo \in Nat /\ M \in Seq(Event) /\ N \in Seq(Event)
         /\ PairOK(v, ep, eo, so, M, N)
<1>1. /\ PeerStage(ps, lo, re, g, l, o, q, v, ep, eo, so, M, N)
      /\ c \in Context /\ c.pg = g /\ CallbackOK(v, ep, eo, so, M, N, c)
      /\ Fits(r, RemoteSet(lay, ps, o), RemoteHolding(lay, ps, o))
      /\ c.ev \in GrantEvents => ~Holds(r, c)
      /\ Serviced(w, q, o, so, M, N, lo[o], r)
  BY DEF Completes
<1>2. /\ q \in PGRecord /\ o \in OSD /\ q.epoch[o] = eo
      /\ ep \in Nat /\ eo \in Nat /\ M \in Seq(Event) /\ N \in Seq(Event)
      /\ PairOK(v, ep, eo, so, M, N)
  BY <1>1, PeerStageIs
<1>3. PICK a : a = lo[o]
  OBVIOUS
<1>4. Serviced(w, q, o, so, M, N, a, r)
  BY <1>1, <1>3
<1>5. w.p.state[o] = so
  BY <1>2, <1>4, ServicedIs
<1> QED
  BY <1>1, <1>2, <1>5

(* A callback that the peer drops.                                          *)
LEMMA TakeDropped ==
  ASSUME NEW ps, NEW lo, NEW re, NEW g, NEW l, NEW o, NEW q, NEW v, NEW ep, NEW eo, NEW so,
         NEW M, NEW N, NEW c, NEW r, NEW w,
         Completes(ps, lo, re, g, l, o, q, v, ep, eo, so, M, N, c, r, w), NEW P, P
  PROVE  Reacts(ps, lo, re, g, o, w) /\ Reacts(ps, lo, re, g, o, Asserts(w, P))
<1>1. /\ PeerStage(ps, lo, re, g, l, o, q, v, ep, eo, so, M, N)
      /\ Fits(r, RemoteSet(lay, ps, o), RemoteHolding(lay, ps, o))
      /\ Serviced(w, q, o, so, M, N, lo[o], r) /\ q \in PGRecord /\ o \in OSD
      /\ PairOK(v, ep, eo, so, M, N)
  BY CompletesIs
<1>2. Heard(r, g, v, ep, eo, so, M, N, so, M, N)
  BY DEF Heard
<1>3. so \in RemoteHolders \/ so \notin RemoteHolders
  OBVIOUS
<1>4. Reacts(ps, lo, re, g, o, w)
  BY <1>1, <1>2, <1>3, ServedKeep
<1>5. PICK a, w2 : a = lo[o] /\ w2 = Asserts(w, P)
  OBVIOUS
<1>6. Serviced(w, q, o, so, M, N, a, r)
  BY <1>1, <1>5
<1>7. Serviced(w2, q, o, so, M, N, a, r)
  BY <1>1, <1>5, <1>6, ServicedAsserts
<1>8. Reacts(ps, lo, re, g, o, w2)
  BY <1>1, <1>2, <1>3, <1>5, <1>7, ServedKeep
<1> QED
  BY <1>4, <1>5, <1>8

(* The peer tells the primary that it lost its slot or is too full.         *)
LEMMA ServedNotice ==
  ASSUME NEW ps, NEW lo, NEW re, NEW g, NEW l, NEW o, NEW q, NEW v, NEW ep, NEW eo, NEW so,
         NEW M, NEW N, NEW r, NEW w,
         PeerStage(ps, lo, re, g, l, o, q, v, ep, eo, so, M, N),
         Fits(r, RemoteSet(lay, ps, o), RemoteHolding(lay, ps, o)),
         Serviced(w, q, o, so, M, N, lo[o], r), so # "Stray", NEW ev, ev \in Notices
  PROVE  Reacts(ps, lo, re, g, o, Reply(w, o, ev))
<1>1. /\ q \in PGRecord /\ o \in OSD /\ q.epoch[o] = eo
      /\ ep \in Nat /\ eo \in Nat /\ M \in Seq(Event) /\ N \in Seq(Event)
      /\ PairOK(v, ep, eo, so, M, N)
  BY PeerStageIs
<1>2. PICK a, m, w2, N2 : /\ a = lo[o] /\ m = Msg(ev, eo) /\ w2 = Reply(w, o, ev)
                          /\ N2 = Append(N, m)
  OBVIOUS
<1>3. ev \in Events
  BY DEF Notices, Events
<1>4. Serviced(w2, q, o, so, M, N2, a, r) /\ m \in Event
  <2>1. Serviced(w, q, o, so, M, N, a, r)
    BY <1>2
  <2>2. Serviced(Reply(w, o, ev), q, o, so, M, Append(N, Msg(ev, q.epoch[o])), a, r)
    BY <1>1, <1>3, <2>1, ServicedReply
  <2>3. Msg(ev, q.epoch[o]) \in Event
    BY <1>1, <1>3, <2>1, ServicedReply
  <2> QED
    BY <1>1, <1>2, <2>2, <2>3
<1>5. m.ev \in Notices /\ m.epoch = eo
  BY <1>2 DEF Msg
<1>6. /\ PairOK(v, ep, eo, so, M, N2)
      /\ \A d : CallbackOK(v, ep, eo, so, M, N, d) => CallbackOK(v, ep, eo, so, M, N2, d)
  <2>1. /\ PairOK(v, ep, eo, so, M, Append(N, m))
        /\ \A d : CallbackOK(v, ep, eo, so, M, N, d) => CallbackOK(v, ep, eo, so, M, Append(N, m), d)
    BY <1>1, <1>4, <1>5, PairNotice
  <2> QED
    BY <1>2, <2>1
<1>7. Heard(r, g, v, ep, eo, so, M, N, so, M, N2)
  BY <1>6 DEF Heard
<1>8. so \in RemoteHolders \/ so \notin RemoteHolders
  OBVIOUS
<1>9. Reacts(ps, lo, re, g, o, w2)
  BY <1>2, <1>4, <1>6, <1>7, <1>8, ServedKeep
<1> QED
  BY <1>2, <1>9

(* RemoteRecoveryReserved and RemoteBackfillReserved: the peer that waited  *)
(* tells the primary.                                                       *)
LEMMA TakeGrant ==
  ASSUME NEW ps, NEW lo, NEW re, NEW g, NEW l, NEW o, NEW q, NEW v, NEW ep, NEW eo, NEW so,
         NEW M, NEW N, NEW c, NEW r, NEW w,
         Completes(ps, lo, re, g, l, o, q, v, ep, eo, so, M, N, c, r, w),
         c.epoch = eo, c.ev \in RemoteGrants, so \in Waits
  PROVE  Reacts(ps, lo, re, g, o, Reply(To(w, o, "RepRecovering"), o, c.ev))
<1>1. /\ PeerStage(ps, lo, re, g, l, o, q, v, ep, eo, so, M, N)
      /\ c \in Context /\ c.pg = g /\ CallbackOK(v, ep, eo, so, M, N, c)
      /\ Fits(r, RemoteSet(lay, ps, o), RemoteHolding(lay, ps, o))
      /\ Serviced(w, q, o, so, M, N, lo[o], r)
      /\ q \in PGRecord /\ o \in OSD /\ q.epoch[o] = eo
      /\ ep \in Nat /\ eo \in Nat /\ M \in Seq(Event) /\ N \in Seq(Event)
      /\ PairOK(v, ep, eo, so, M, N)
  BY CompletesIs
<1>2. ~Holds(r, c)
  <2>1. c.ev \in GrantEvents => ~Holds(r, c)
    BY CompletesIs
  <2> QED
    BY <2>1 DEF RemoteGrants, GrantEvents
<1>3. PICK a, ev, m, s, w1, w2, N2 :
         /\ a = lo[o] /\ ev = c.ev /\ m = Msg(ev, eo) /\ s = "RepRecovering"
         /\ w1 = To(w, o, s) /\ w2 = Reply(w1, o, ev) /\ N2 = Append(N, m)
  OBVIOUS
<1>4. ev \in Events /\ s \in States /\ s \in RemoteHolders
  BY <1>3 DEF RemoteGrants, Events, States, RemoteHolders
<1>5. Serviced(w1, q, o, s, M, N, a, r)
  <2>1. Serviced(w, q, o, so, M, N, a, r)
    BY <1>1, <1>3
  <2> QED
    BY <1>1, <1>3, <1>4, <2>1, ServicedTo
<1>6. Serviced(w2, q, o, s, M, N2, a, r) /\ m \in Event
  <2>1. Serviced(Reply(w1, o, ev), q, o, s, M, Append(N, Msg(ev, q.epoch[o])), a, r)
    BY <1>1, <1>4, <1>5, ServicedReply
  <2>2. Msg(ev, q.epoch[o]) \in Event
    BY <1>1, <1>4, <1>5, ServicedReply
  <2> QED
    BY <1>1, <1>3, <2>1, <2>2
<1>7. m.ev = c.ev /\ m.epoch = eo
  BY <1>3 DEF Msg
<1>8. /\ PairOK(v, ep, eo, s, M, N2)
      /\ \A d : CallbackOK(v, ep, eo, so, M, N, d) =>
                \/ CallbackOK(v, ep, eo, s, M, N2, d)
                \/ d.epoch = eo /\ d.ev = c.ev
  <2>0. c.ev \in RemoteGrants /\ c.epoch = eo /\ so \in Waits
    OBVIOUS
  <2>1. /\ PairOK(v, ep, eo, "RepRecovering", M, Append(N, m))
        /\ GrantKeeps(v, ep, eo, so, M, N, Append(N, m), c.ev)
    BY <1>1, <1>6, <1>7, <2>0, PairGrant
  <2> QED
    BY <1>3, <2>1 DEF GrantKeeps
<1>9. Heard(r, g, v, ep, eo, so, M, N, s, M, N2)
  <2> SUFFICES ASSUME NEW d \in Context, d.pg = g, Holds(r, d), CallbackOK(v, ep, eo, so, M, N, d)
               PROVE  CallbackOK(v, ep, eo, s, M, N2, d)
    BY DEF Heard
  <2>1. d.epoch = eo /\ d.ev = c.ev => d = c
    BY <1>1, RecoveryReservationAssumption
  <2> QED
    BY <1>2, <1>8, <2>1
<1>10. Reacts(ps, lo, re, g, o, w2)
  BY <1>1, <1>3, <1>4, <1>6, <1>8, <1>9, ServedKeep
<1> QED
  BY <1>3, <1>10

(* The reactions of a peer to its callbacks.                                *)
LEMMA TakeCallback ==
  ASSUME NEW ps, NEW lo, NEW re, NEW g, NEW l, NEW o, NEW q, NEW v, NEW ep, NEW eo, NEW so,
         NEW M, NEW N, NEW c, NEW r, NEW w,
         Completes(ps, lo, re, g, l, o, q, v, ep, eo, so, M, N, c, r, w),
         c.epoch = eo, NEW full \in BOOLEAN
  PROVE  Reacts(ps, lo, re, g, o, Replica_react(w, g, o, c.ev, full))
<1>1. /\ PeerStage(ps, lo, re, g, l, o, q, v, ep, eo, so, M, N)
      /\ CallbackOK(v, ep, eo, so, M, N, c)
      /\ Fits(r, RemoteSet(lay, ps, o), RemoteHolding(lay, ps, o))
      /\ Serviced(w, q, o, so, M, N, lo[o], r)
      /\ PairOK(v, ep, eo, so, M, N) /\ w.p.state[o] = so
  BY CompletesIs
<1>2. so \in ReplicaStates
  BY <1>1 DEF CallbackOK, PairOK, EpochOK
<1>3. /\ c.ev \in RemoteGrants \cup RemotePreemptions
      /\ c.ev = "RemoteRecoveryReserved" => so = "RepWaitRecoveryReserved"
      /\ c.ev = "RemoteBackfillReserved" => so \in {"RepWaitBackfillReserved", "RepNotRecovering"}
  BY <1>1 DEF CallbackOK, DueOK, RemoteGrants
<1>4. PICK ev : ev = c.ev
  OBVIOUS
<1>5. ASSUME ev \in RemoteGrants, so \in Waits
      PROVE  Reacts(ps, lo, re, g, o, Replica_react(w, g, o, ev, full))
  <2>1. Reacts(ps, lo, re, g, o, Reply(To(w, o, "RepRecovering"), o, c.ev))
    BY <1>4, <1>5, TakeGrant
  <2>2. Replica_react(w, g, o, ev, full) = Reply(To(w, o, "RepRecovering"), o, ev)
    BY <1>1, <1>3, <1>4, <1>5 DEF Replica_react, RemoteGrants, Waits
  <2> QED
    BY <1>4, <2>1, <2>2
<1>6. ASSUME ev \in RemotePreemptions, so = "RepRecovering"
      PROVE  Reacts(ps, lo, re, g, o, Replica_react(w, g, o, ev, full))
  <2>1. PICK n : n = IF ev = "RemoteRecoveryPreempted" THEN "DeferRecovery"
                     ELSE "RemoteReservationRevoked"
    OBVIOUS
  <2>2. n \in Notices /\ so # "Stray"
    BY <1>6, <2>1 DEF Notices
  <2>3. Reacts(ps, lo, re, g, o, Reply(w, o, n))
    BY <1>1, <2>2, ServedNotice
  <2>4. Replica_react(w, g, o, ev, full) = Reply(w, o, n)
    BY <1>1, <1>6, <2>1 DEF Replica_react, RemotePreemptions
  <2> QED
    BY <2>3, <2>4
<1>7. ASSUME \/ ev \in RemoteGrants /\ so \notin Waits
             \/ ev \in RemotePreemptions /\ so # "RepRecovering"
      PROVE  Reacts(ps, lo, re, g, o, Replica_react(w, g, o, ev, full))
  <2>1. PICK P : P = (<<so, ev>> \in Discarded)
    OBVIOUS
  <2>2. ev \in RemoteGrants => ev = "RemoteBackfillReserved" /\ so = "RepNotRecovering"
    BY <1>3, <1>4, <1>7 DEF RemoteGrants, RemotePreemptions, Waits
  <2>3. <<so, ev>> \in Discarded
    BY <1>2, <1>7, <2>2 DEF Discarded, RemotePreemptions, ReplicaStates
  <2>4. Replica_react(w, g, o, ev, full) = Asserts(w, <<so, ev>> \in Discarded)
    BY <1>1, <1>7, <2>2 DEF Replica_react, RemotePreemptions
  <2>5. P
    BY <2>1, <2>3
  <2>6. Reacts(ps, lo, re, g, o, Asserts(w, P))
    BY <2>5, TakeDropped
  <2> QED
    BY <2>1, <2>4, <2>6
<1>8. ev \in RemoteGrants \cup RemotePreemptions
  BY <1>3, <1>4
<1>9. Reacts(ps, lo, re, g, o, Replica_react(w, g, o, ev, full))
  BY <1>5, <1>6, <1>7, <1>8
<1> QED
  BY <1>4, <1>9

LEMMA PeeredSame ==
  ASSUME NEW q \in PGRecord, NEW o \in OSD
  PROVE  Peered(q, q, o, q.state[o], q.toReplica[o], q.toPrimary[o])
<1>1. /\ q.toReplica \in [OSD -> Seq(Event)] /\ q.toPrimary \in [OSD -> Seq(Event)]
      /\ q.state \in [OSD -> States]
  BY DEF PGRecord
<1>2. /\ q.state = [q.state EXCEPT ![o] = q.state[o]]
      /\ q.toReplica = [q.toReplica EXCEPT ![o] = q.toReplica[o]]
      /\ q.toPrimary = [q.toPrimary EXCEPT ![o] = q.toPrimary[o]]
  BY <1>1
<1> QED
  BY <1>2 DEF Peered

LEMMA FinishRemoteStep ==
  ASSUME State, NEW o \in OSD, FinishRemote(o)
  PROVE  Kept
<1>1. PICK c, r, g, q, a, l : /\ c = Head(remote[o].f) /\ r = [remote[o] EXCEPT !.f = Tail(@)]
                              /\ g = c.pg /\ q = pgs[g] /\ a = local[o] /\ l = lay[g]
  OBVIOUS
<1>2. PICK full \in BOOLEAN : full = FALSE
  OBVIOUS
<1>3. remote[o].f # <<>> /\ do_peering_event(g, o, c, q, a, r, full)
  BY <1>1, <1>2 DEF FinishRemote
<1>4. AllOK(pgs, local, remote) /\ pgs \in [PG -> PGRecord]
  BY DEF State
<1>5. /\ c \in Context /\ RemoteOK(pgs[c.pg], lay[c.pg], o, c)
      /\ Fits(r, RemoteSet(lay, pgs, o), RemoteHolding(lay, pgs, o))
      /\ c.ev \in GrantEvents => ~Holds(r, c)
  <2>1. Popped(remote[o], r)
    BY <1>1, <1>3 DEF Popped
  <2>2. c = Head(remote[o].f)
    BY <1>1
  <2> QED
    BY <1>4, <2>1, <2>2, RemotePop
<1>6. g \in PG /\ c.epoch \in Nat /\ q \in PGRecord
  BY <1>1, <1>4, <1>5, ContextIs, IntervalIs
<1>7. IsLayout(l) /\ RemoteOK(q, l, o, c)
  BY <1>1, <1>4, <1>5, <1>6, AllIs
<1>8. o \in l.replicas /\ o # l.primary
  BY <1>7 DEF RemoteOK, IsLayout
<1>9. PICK v, ep, eo, so, M, N : /\ v = View(q, l, o) /\ ep = q.epoch[l.primary] /\ eo = q.epoch[o]
                                 /\ so = q.state[o] /\ M = q.toReplica[o] /\ N = q.toPrimary[o]
  OBVIOUS
<1>10. PeerStage(pgs, local, remote, g, l, o, q, v, ep, eo, so, M, N)
  BY <1>1, <1>4, <1>6, <1>8, <1>9 DEF PeerStage
<1>11. PICK w : w = [p |-> q, l |-> a, r |-> r, bad |-> FALSE]
  OBVIOUS
<1>12. Serviced(w, q, o, so, M, N, a, r)
  <2>1. Peered(q, q, o, so, M, N)
    BY <1>6, <1>9, PeeredSame
  <2> QED
    BY <1>6, <1>11, <2>1, ServicedStart
<1>13. CallbackOK(v, ep, eo, so, M, N, c)
  BY <1>7, <1>9 DEF RemoteOK
<1>14. Completes(pgs, local, remote, g, l, o, q, v, ep, eo, so, M, N, c, r, w)
  BY <1>1, <1>5, <1>10, <1>12, <1>13 DEF Completes
<1>15. ~IsPrimary(g, o)
  BY <1>1, <1>8 DEF IsPrimary, Primary
<1>16. c.epoch < q.epoch[o] => Moves(pgs, local, remote, g, o, w)
  <2>1. PICK P : P = TRUE
    OBVIOUS
  <2>2. P
    BY <2>1
  <2>3. Reacts(pgs, local, remote, g, o, w)
    BY <1>14, <2>2, TakeDropped
  <2> QED
    BY <2>3, ReactsMoves
<1>17. c.epoch = q.epoch[o] =>
          Moves(pgs, local, remote, g, o, Replica_react(w, g, o, c.ev, full))
  <2> SUFFICES ASSUME c.epoch = eo
               PROVE  Moves(pgs, local, remote, g, o, Replica_react(w, g, o, c.ev, full))
    BY <1>9
  <2>1. Reacts(pgs, local, remote, g, o, Replica_react(w, g, o, c.ev, full))
    BY <1>14, TakeCallback
  <2> QED
    BY <2>1, ReactsMoves
<1>18. q.epoch[o] \in Nat
  BY <1>6, EpochIs
<1> QED
  BY <1>3, <1>6, <1>11, <1>15, <1>16, <1>17, <1>18, PeerEvent

----------------------------------------------------------------------------
(* The peer takes an event it queued for itself: it is too full.            *)
LEMMA OwnReplicaStep ==
  ASSUME State, NEW g \in PG, NEW o \in OSD, o # Primary(g), NEW full \in BOOLEAN, Own(g, o, full)
  PROVE  Kept
<1>1. PICK l, q, h, x, a, b : /\ l = lay[g] /\ q = pgs[g] /\ h = Head(q.own[o])
                              /\ OwnTaken(q, o, x) /\ a = local[o] /\ b = remote[o]
  BY DEF OwnTaken
<1>2. q.own[o] # <<>> /\ do_peering_event(g, o, h, x, a, b, full)
  BY <1>1 DEF Own, OwnTaken
<1>3. /\ AllOK(pgs, local, remote) /\ q \in PGRecord /\ GroupOK(q, l) /\ IsLayout(l)
      /\ lay \in Layouts
  BY <1>1, AllIs DEF State, AllOK
<1>4. o \in l.replicas /\ o # l.primary
  BY <1>1, <1>2, <1>3 DEF GroupOK, OthersOK, IsLayout, Primary
<1>5. PICK v, ep, eo, so, M, N : /\ v = View(q, l, o) /\ ep = q.epoch[l.primary] /\ eo = q.epoch[o]
                                 /\ so = q.state[o] /\ M = q.toReplica[o] /\ N = q.toPrimary[o]
  OBVIOUS
<1>6. PeerStage(pgs, local, remote, g, l, o, q, v, ep, eo, so, M, N)
  BY <1>1, <1>3, <1>4, <1>5 DEF PeerStage
<1>7. /\ eo \in Nat /\ PairOK(v, ep, eo, so, M, N)
      /\ Fits(remote[o], RemoteSet(lay, pgs, o), RemoteHolding(lay, pgs, o))
  BY <1>6, PeerStageIs
<1>8. h.ev = "BackfillTooFull" /\ h.epoch \in Nat
  <2>1. q.own[o] \in Seq(Event)
    BY <1>3 DEF PGRecord
  <2>2. h = q.own[o][1] /\ h \in Event /\ 1 \in 1 .. Len(q.own[o])
    BY <1>1, <1>2, <2>1, TailIs
  <2>3. h.ev = "BackfillTooFull"
    BY <1>3, <1>4, <2>2 DEF GroupOK, ScansOK
  <2> QED
    BY <2>2, <2>3, EventIs
<1>9. h.epoch = q.epoch[o] /\ so # "RepRecovering" => TooFullLate
  BY <1>1, <1>2, <1>4, <1>5, <1>8 DEF TooFullLate
<1>10. PICK w : w = [p |-> x, l |-> a, r |-> b, bad |-> FALSE]
  OBVIOUS
<1>11. Peered(x, q, o, so, M, N) /\ x.epoch = q.epoch
  <2>1. /\ x \in PGRecord /\ Alike(q, x) /\ x.interval = q.interval /\ x.working = q.working
        /\ x.scan = q.scan /\ x.own[o] = Tail(q.own[o])
        /\ \A y \in OSD : y # o => x.own[y] = q.own[y]
    BY <1>1, <1>2, <1>3, OwnTakenIs
  <2>2. Peered(q, q, o, so, M, N)
    BY <1>3, <1>5, PeeredSame
  <2> QED
    BY <1>2, <2>1, <2>2 DEF Peered, Alike
<1>12. Serviced(w, q, o, so, M, N, a, b)
  BY <1>3, <1>10, <1>11, ServicedStart
<1>13. Reacts(pgs, local, remote, g, o, w)
  <2>1. Heard(b, g, v, ep, eo, so, M, N, so, M, N)
    BY DEF Heard
  <2>2. so \in RemoteHolders \/ so \notin RemoteHolders
    OBVIOUS
  <2> QED
    BY <1>1, <1>6, <1>7, <1>12, <2>1, <2>2, ServedKeep
<1>14. ASSUME h.epoch = x.epoch[o]
       PROVE  Moves(pgs, local, remote, g, o, Replica_react(w, g, o, h.ev, full))
  <2>1. w.p.state[o] = so
    BY <1>3, <1>12, ServicedIs
  <2>2. CASE so = "RepRecovering"
    <3>1. PICK n : n = "RemoteReservationRevokedTooFull"
      OBVIOUS
    <3>2. n \in Notices /\ so # "Stray"
      BY <2>2, <3>1 DEF Notices
    <3>3. Reacts(pgs, local, remote, g, o, Reply(w, o, n))
      BY <1>1, <1>6, <1>7, <1>12, <3>2, ServedNotice
    <3>4. Replica_react(w, g, o, h.ev, full) = Reply(w, o, n)
      BY <1>8, <2>1, <2>2, <3>1 DEF Replica_react
    <3>5. Moves(pgs, local, remote, g, o, Reply(w, o, n))
      BY <3>3, ReactsMoves
    <3> QED
      BY <3>4, <3>5
  <2>3. CASE so # "RepRecovering"
    <3>1. PICK P, w2 : P = (<<so, h.ev>> \in Discarded) /\ w2 = Asserts(w, P)
      OBVIOUS
    <3>2. Replica_react(w, g, o, h.ev, full) = w2
      BY <1>8, <2>1, <2>3, <3>1 DEF Replica_react
    <3>3. w2.p = w.p /\ w2.l = w.l /\ w2.r = w.r
      BY <1>10, <3>1 DEF Asserts
    <3>4. TooFullLate
      BY <1>9, <1>11, <1>14, <2>3
    <3>5. Moves(pgs, local, remote, g, o, w2)
      BY <1>13, <3>3, <3>4 DEF Moves, Reacts
    <3> QED
      BY <3>2, <3>5
  <2> QED
    BY <2>2, <2>3
<1>15. ~IsPrimary(g, o)
  BY DEF IsPrimary
<1>16. Moves(pgs, local, remote, g, o, w)
  BY <1>13, ReactsMoves
<1>17. x.epoch[o] \in Nat
  BY <1>5, <1>7, <1>11
<1> QED
  BY <1>2, <1>8, <1>10, <1>14, <1>15, <1>16, <1>17, PeerEvent

----------------------------------------------------------------------------
(* The work itself and new intervals.                                       *)

LEMMA ChangeStep ==
  ASSUME State, NEW g \in PG, NEW x, Change(g, x), NEW ps2, Moved(pgs, g, x, ps2),
         AllOK(ps2, local, remote), fulls' \in 0 .. MaxFull
  PROVE  Kept
BY DEF Kept, Change, Moved, State, AllOK

(* The group of a step that changes neither the peers nor the state.        *)
LEMMA AlikeStep ==
  ASSUME State, NEW g \in PG, NEW l, l = lay[g], NEW q, q = pgs[g], NEW x, Change(g, x),
         fulls' \in 0 .. MaxFull, x \in PGRecord, Alike(q, x), x.interval \in Nat,
         q.interval <= x.interval,
         OthersOK(x, l), ScansOK(x, l), NEW p, p = l.primary,
         OwnOK(x.own[p], x.epoch[p], x.state[p], x.working, x.todo),
         WorkOK(x.state[p], x.it, x.working, x.todo, l)
  PROVE  Kept
<1>1. PICK ps2 : Moved(pgs, g, x, ps2)
  BY DEF Moved
<1>2. AllOK(pgs, local, remote) /\ q \in PGRecord /\ GroupOK(q, l)
  BY AllIs DEF State
<1>3. \A o \in OSD : x.epoch[o] <= x.interval
  <2> SUFFICES ASSUME NEW o \in OSD PROVE x.epoch[o] <= x.interval
    OBVIOUS
  <2>1. q.epoch[o] \in Nat /\ q.epoch[o] <= q.interval /\ x.epoch = q.epoch /\ q.interval \in Nat
    BY <1>2, EpochIs, IntervalIs DEF GroupOK, Alike, PGRecord
  <2> QED
    BY <2>1
<1>4. AllOK(ps2, local, remote)
  BY <1>1, <1>2, <1>3, AlikeAll
<1> QED
  BY <1>1, <1>4, ChangeStep

LEMMA NewIntervalStep ==
  ASSUME State, NEW g \in PG, NewInterval(g)
  PROVE  Kept
<1>1. PICK l, q, p, n, x : /\ l = lay[g] /\ q = pgs[g] /\ p = l.primary /\ n = q.interval + 1
                           /\ x = [q EXCEPT !.interval = n]
  OBVIOUS
<1>2. Change(g, x) /\ fulls' = fulls /\ q.interval < MaxInterval
  BY <1>1 DEF NewInterval
<1>3. q \in PGRecord /\ GroupOK(q, l)
  BY <1>1, AllIs DEF State
<1>4. q.interval \in Interval
  BY <1>3 DEF PGRecord
<1>5. n \in Interval /\ n \in Nat /\ q.interval <= n
  BY <1>1, <1>2, <1>4, RecoveryReservationAssumption DEF Interval
<1>6. x \in PGRecord
  BY <1>1, <1>3, <1>5 DEF PGRecord
<1>7. /\ Alike(q, x) /\ x.interval = n /\ x.scan = q.scan /\ x.own = q.own
      /\ x.working = q.working
  BY <1>1, <1>3 DEF PGRecord, Alike
<1>8. OthersOK(x, l) /\ ScansOK(x, l)
  <2>1. OthersOK(q, l) /\ ScansOK(q, l)
    BY <1>3 DEF GroupOK
  <2>2. /\ x.scan = q.scan /\ x.own = q.own
        /\ x.toReplica = q.toReplica /\ x.toPrimary = q.toPrimary
    BY <1>7 DEF Alike
  <2>3. OthersOK(x, l)
    BY <2>1, <2>2, OthersSame
  <2>4. ScansOK(x, l)
    BY <2>1, <2>2, ScansSame
  <2> QED
    BY <2>3, <2>4
<1>9. /\ OwnOK(x.own[p], x.epoch[p], x.state[p], x.working, x.todo)
      /\ WorkOK(x.state[p], x.it, x.working, x.todo, l)
  BY <1>1, <1>3, <1>7 DEF GroupOK, Alike
<1>10. fulls' \in 0 .. MaxFull
  BY <1>2 DEF State
<1> QED
  BY <1>1, <1>2, <1>5, <1>6, <1>7, <1>8, <1>9, <1>10, AlikeStep

LEMMA ScanDigestStep ==
  ASSUME State, NEW g \in PG, NEW o \in OSD, scan_digest(g, o)
  PROVE  Kept
<1>1. PICK l, q, p, W, D, x :
         /\ l = lay[g] /\ q = pgs[g] /\ p = l.primary /\ D = [q.digest EXCEPT ![o] = 0]
         /\ W = IF q.digest[o] = q.epoch[p] THEN q.waiting_on_backfill \ {o}
                ELSE q.waiting_on_backfill
         /\ x = [q EXCEPT !.digest = D, !.waiting_on_backfill = W]
  OBVIOUS
<1>2. q \in PGRecord /\ GroupOK(q, l)
  BY <1>1, AllIs DEF State
<1>3. Change(g, x) /\ fulls' = fulls
  BY <1>1, <1>2 DEF scan_digest, Primary
<1>4. D \in [OSD -> 0 .. MaxInterval] /\ W \in SUBSET OSD
  <2>1. q.digest \in [OSD -> 0 .. MaxInterval] /\ q.waiting_on_backfill \in SUBSET OSD
    BY <1>2 DEF PGRecord
  <2>2. 0 \in 0 .. MaxInterval
    BY RecoveryReservationAssumption
  <2> QED
    BY <1>1, <2>1, <2>2
<1>5. x \in PGRecord
  <2>1. x = [q EXCEPT !.digest = D, !.waiting_on_backfill = W]
    BY <1>1
  <2> QED
    BY <1>2, <1>4, <2>1 DEF PGRecord
<1>6. /\ Alike(q, x) /\ x.interval = q.interval /\ x.scan = q.scan /\ x.own = q.own
      /\ x.working = q.working
  BY <1>1, <1>2 DEF PGRecord, Alike
<1>7. OthersOK(x, l) /\ ScansOK(x, l)
  <2>1. OthersOK(q, l) /\ ScansOK(q, l)
    BY <1>2 DEF GroupOK
  <2>2. /\ x.scan = q.scan /\ x.own = q.own
        /\ x.toReplica = q.toReplica /\ x.toPrimary = q.toPrimary
    BY <1>6 DEF Alike
  <2>3. OthersOK(x, l)
    BY <2>1, <2>2, OthersSame
  <2>4. ScansOK(x, l)
    BY <2>1, <2>2, ScansSame
  <2> QED
    BY <2>3, <2>4
<1>8. /\ OwnOK(x.own[p], x.epoch[p], x.state[p], x.working, x.todo)
      /\ WorkOK(x.state[p], x.it, x.working, x.todo, l)
  BY <1>1, <1>2, <1>6 DEF GroupOK, Alike
<1>9. fulls' \in 0 .. MaxFull
  BY <1>3 DEF State
<1>10. x.interval \in Nat /\ q.interval <= x.interval
  <2>1. q.interval \in Interval
    BY <1>2 DEF PGRecord
  <2>2. q.interval \in Nat
    BY <2>1, IntervalIs
  <2> QED
    BY <1>6, <2>2
<1> QED
  BY <1>1, <1>3, <1>5, <1>6, <1>7, <1>8, <1>9, <1>10, AlikeStep

LEMMA SendScanStep ==
  ASSUME State, NEW g \in PG, NEW S, S \subseteq lay[g].targets, send_scan(g, S)
  PROVE  Kept
<1>1. PICK l, q, p, n, D, x :
         /\ l = lay[g] /\ q = pgs[g] /\ p = l.primary /\ n = q.scans + 1
         /\ D = [a \in OSD |-> IF a \in S THEN q.epoch[p] ELSE q.scan[a]]
         /\ x = [q EXCEPT !.scan = D, !.waiting_on_backfill = S, !.scans = n]
  OBVIOUS
<1>2. q \in PGRecord /\ GroupOK(q, l) /\ IsLayout(l)
  BY <1>1, AllIs DEF State
<1>3. Change(g, x) /\ fulls' = fulls /\ q.scans < MaxScans /\ "scan" \in l.may
  BY <1>1, <1>2 DEF send_scan, Primary
<1>4. D \in [OSD -> 0 .. MaxInterval] /\ S \in SUBSET OSD /\ n \in 0 .. MaxScans
  <2>1. /\ q.scan \in [OSD -> 0 .. MaxInterval] /\ q.scans \in 0 .. MaxScans
        /\ q.epoch \in [OSD -> Interval] /\ p \in OSD /\ S \subseteq l.replicas
        /\ l.replicas \subseteq OSD
    BY <1>1, <1>2 DEF PGRecord, IsLayout
  <2>2. q.epoch[p] \in 0 .. MaxInterval
    BY <2>1, RecoveryReservationAssumption DEF Interval
  <2>3. n \in 0 .. MaxScans
    BY <1>1, <1>3, <2>1, RecoveryReservationAssumption
  <2> QED
    BY <1>1, <2>1, <2>2, <2>3
<1>5. x \in PGRecord
  BY <1>1, <1>2, <1>4 DEF PGRecord
<1>6. /\ Alike(q, x) /\ x.interval = q.interval /\ x.scan = D /\ x.own = q.own
      /\ x.working = q.working
  BY <1>1, <1>2 DEF PGRecord, Alike
<1>7. OthersOK(x, l) /\ ScansOK(x, l)
  <2>1. \A a \in OSD \ l.replicas : D[a] = q.scan[a]
    BY <1>1, <1>2 DEF IsLayout
  <2> QED
    BY <1>2, <1>3, <1>6, <2>1 DEF GroupOK, OthersOK, ScansOK, Alike
<1>8. /\ OwnOK(x.own[p], x.epoch[p], x.state[p], x.working, x.todo)
      /\ WorkOK(x.state[p], x.it, x.working, x.todo, l)
  BY <1>1, <1>2, <1>6 DEF GroupOK, Alike
<1>9. fulls' \in 0 .. MaxFull
  BY <1>3 DEF State
<1>10. x.interval \in Nat /\ q.interval <= x.interval
  <2>1. q.interval \in Interval
    BY <1>2 DEF PGRecord
  <2>2. q.interval \in Nat
    BY <2>1, IntervalIs
  <2> QED
    BY <1>6, <2>2
<1>11. Change(g, x) /\ Alike(q, x) /\ l = lay[g] /\ q = pgs[g] /\ p = l.primary
  BY <1>1, <1>3, <1>6
<1> QED
  BY <1>5, <1>7, <1>8, <1>9, <1>10, <1>11, AlikeStep

LEMMA DoScanStep ==
  ASSUME State, NEW g \in PG, NEW o \in OSD, NEW full \in BOOLEAN, do_scan(g, o, full)
  PROVE  Kept
<1>1. PICK l, q, p, m, s, d, D, E, F, x :
         /\ l = lay[g] /\ q = pgs[g] /\ p = l.primary /\ m = Msg("BackfillTooFull", q.epoch[o])
         /\ s = (IF full THEN Append(q.own[o], m) ELSE q.own[o])
         /\ d = (IF full \/ q.scan[o] < q.epoch[o] THEN 0 ELSE q.epoch[o])
         /\ D = [q.scan EXCEPT ![o] = 0] /\ E = [q.digest EXCEPT ![o] = d]
         /\ F = [q.own EXCEPT ![o] = s]
         /\ x = [q EXCEPT !.scan = D, !.digest = E, !.own = F]
  OBVIOUS
<1>2. q \in PGRecord /\ GroupOK(q, l) /\ IsLayout(l)
  BY <1>1, AllIs DEF State
<1>3. /\ Change(g, x) /\ q.scan[o] # 0
      /\ full => fulls < MaxFull
      /\ fulls' = IF full THEN fulls + 1 ELSE fulls
  BY <1>1, <1>2 DEF do_scan, Msg, PGRecord
<1>4. o \in l.replicas /\ o # p /\ "scan" \in l.may
  BY <1>1, <1>2, <1>3 DEF GroupOK, OthersOK, ScansOK, IsLayout
<1>5. /\ q.scan \in [OSD -> 0 .. MaxInterval] /\ q.digest \in [OSD -> 0 .. MaxInterval]
      /\ q.epoch \in [OSD -> Interval] /\ q.own \in [OSD -> Seq(Event)] /\ p \in OSD
  BY <1>1, <1>2 DEF PGRecord, IsLayout
<1>6. m \in Event /\ m.ev = "BackfillTooFull"
  <2>1. q.epoch[o] \in Interval
    BY <1>5
  <2> QED
    BY <1>1, <2>1 DEF Msg, Event, Events
<1>7. s \in Seq(Event) /\ \A k \in 1 .. Len(s) : s[k].ev = "BackfillTooFull"
  <2>1. PICK t : t = q.own[o]
    OBVIOUS
  <2>2. t \in Seq(Event) /\ \A k \in 1 .. Len(t) : t[k].ev = "BackfillTooFull"
    BY <1>1, <1>2, <1>4, <1>5, <2>1 DEF GroupOK, ScansOK
  <2>3. CASE full
    <3>1. s = Append(t, m)
      BY <1>1, <2>1, <2>3
    <3> QED
      BY <1>6, <2>2, <3>1, AppendIs
  <2>4. CASE ~full
    BY <1>1, <2>1, <2>2, <2>4
  <2> QED
    BY <2>3, <2>4
<1>8. d \in 0 .. MaxInterval
  <2>1. q.epoch[o] \in 1 .. MaxInterval
    BY <1>5 DEF Interval
  <2> QED
    BY <1>1, <2>1, RecoveryReservationAssumption
<1>9. D \in [OSD -> 0 .. MaxInterval] /\ E \in [OSD -> 0 .. MaxInterval] /\ F \in [OSD -> Seq(Event)]
  <2>1. 0 \in 0 .. MaxInterval
    BY RecoveryReservationAssumption
  <2> QED
    BY <1>1, <1>5, <1>7, <1>8, <2>1
<1>10. x \in PGRecord
  <2>1. x = [q EXCEPT !.scan = D, !.digest = E, !.own = F]
    BY <1>1
  <2> QED
    BY <1>2, <1>9, <2>1 DEF PGRecord
<1>11. /\ Alike(q, x) /\ x.interval = q.interval /\ x.scan = D /\ x.own = F
       /\ x.working = q.working
  BY <1>1, <1>2 DEF PGRecord, Alike
<1>12. /\ \A a \in OSD : a # o => D[a] = q.scan[a] /\ F[a] = q.own[a]
       /\ F[o] = s
  BY <1>1, <1>5
<1>13. OthersOK(x, l)
  BY <1>2, <1>4, <1>11, <1>12 DEF GroupOK, OthersOK, Alike
<1>14. ScansOK(x, l)
  <2>1. ASSUME NEW a \in OSD \ {l.primary}, NEW k \in 1 .. Len(F[a])
        PROVE  F[a][k].ev = "BackfillTooFull"
    BY <1>2, <1>7, <1>12, <2>1 DEF GroupOK, ScansOK
  <2> QED
    BY <1>4, <1>11, <2>1 DEF ScansOK
<1>15. /\ OwnOK(x.own[p], x.epoch[p], x.state[p], x.working, x.todo)
       /\ WorkOK(x.state[p], x.it, x.working, x.todo, l)
  <2>1. /\ OwnOK(q.own[p], q.epoch[p], q.state[p], q.working, q.todo)
        /\ WorkOK(q.state[p], q.it, q.working, q.todo, l)
    BY <1>1, <1>2 DEF GroupOK
  <2>2. /\ x.own[p] = q.own[p] /\ x.epoch = q.epoch /\ x.state = q.state
        /\ x.working = q.working /\ x.todo = q.todo /\ x.it = q.it
    BY <1>1, <1>4, <1>5, <1>11, <1>12 DEF Alike
  <2> QED
    BY <2>1, <2>2
<1>16. fulls' \in 0 .. MaxFull
  BY <1>3, RecoveryReservationAssumption DEF State
<1>17. x.interval \in Nat /\ q.interval <= x.interval
  <2>1. q.interval \in Interval
    BY <1>2 DEF PGRecord
  <2>2. q.interval \in Nat
    BY <2>1, IntervalIs
  <2> QED
    BY <1>11, <2>2
<1>18. Change(g, x) /\ Alike(q, x) /\ l = lay[g] /\ q = pgs[g] /\ p = l.primary
  BY <1>1, <1>3, <1>11
<1> QED
  BY <1>10, <1>13, <1>14, <1>15, <1>16, <1>17, <1>18, AlikeStep

(* What the primary queued for itself before it was at work.                *)
LEMMA OwnAppend ==
  ASSUME NEW s \in Seq(Event), NEW m \in Event, NEW e, NEW s0, NEW b0, NEW todo,
         OwnOK(s, e, s0, b0, todo),
         \A k \in 1 .. Len(s) : s[k].epoch = e => s[k].ev = "Backfilled",
         NEW st, st # "Peering", NEW b,
         m.ev \in {"DoRecovery", "RequestBackfill", "AllReplicasRecovered", "Backfilled"},
         m.epoch = e, e \in Nat,
         m.ev # "Backfilled" =>
            /\ st = "Activating" \/ (st = "Recovering" /\ ~b)
            /\ m.ev = "DoRecovery" => st = "Activating"
            /\ m.ev # "DoRecovery" => "recovery" \notin todo
  PROVE  OwnOK(Append(s, m), e, st, b, todo)
<1>1. PICK t, n : t = Append(s, m) /\ n = Len(s) + 1
  OBVIOUS
<1>2. /\ Len(t) = n
      /\ \A k \in 1 .. Len(s) : t[k] = s[k]
      /\ t[n] = m
      /\ \A k \in 1 .. Len(t) : k \in 1 .. Len(s) \/ k = n
  BY <1>1, AppendIs
<1>3. \A j \in 1 .. Len(t) : t[j].epoch = e /\ t[j].ev # "Backfilled" => j = n
  BY <1>2
<1>4. ASSUME NEW k \in 1 .. Len(s)
      PROVE  /\ s[k].ev \in {"DoRecovery", "RequestBackfill", "AllReplicasRecovered", "Backfilled"}
             /\ s[k].epoch <= e
             /\ s[k].epoch = e => s[k].ev = "Backfilled"
  BY <1>4 DEF OwnOK
<1>5. ASSUME NEW k \in 1 .. Len(t)
      PROVE  /\ t[k].ev \in {"DoRecovery", "RequestBackfill", "AllReplicasRecovered", "Backfilled"}
             /\ t[k].epoch <= e
             /\ t[k].epoch = e /\ t[k].ev # "Backfilled" =>
                   /\ st = "Activating" \/ (st = "Recovering" /\ ~b)
                   /\ t[k].ev = "DoRecovery" => st = "Activating"
                   /\ t[k].ev # "DoRecovery" => "recovery" \notin todo
                   /\ k = n
  <2>1. CASE k \in 1 .. Len(s)
    <3>1. t[k] = s[k]
      BY <1>2, <2>1
    <3> QED
      BY <1>4, <2>1, <3>1
  <2>2. CASE k = n
    <3>1. t[k] = m
      BY <1>2, <2>2
    <3> QED
      BY <2>2, <3>1
  <2> QED
    BY <1>2, <1>5, <2>1, <2>2
<1>6. OwnOK(t, e, st, b, todo)
  BY <1>3, <1>5 DEF OwnOK
<1> QED
  BY <1>1, <1>6

LEMMA StartRecoveryOpsStep ==
  ASSUME State, NEW g \in PG, start_recovery_ops(g)
  PROVE  Kept
<1>1. PICK l, q, p, k, ev, m, s, F, x :
         /\ l = lay[g] /\ q = pgs[g] /\ p = l.primary /\ k = Kind(q.state[p])
         /\ ev = (IF k = "backfill" THEN "Backfilled"
                  ELSE IF "backfill" \in q.todo THEN "RequestBackfill" ELSE "AllReplicasRecovered")
         /\ m = Msg(ev, q.epoch[p])
         /\ s = Append(q.own[p], m) /\ F = [q.own EXCEPT ![p] = s]
         /\ x = [q EXCEPT !.working = FALSE, !.own = F]
  OBVIOUS
<1>2. q \in PGRecord /\ GroupOK(q, l) /\ IsLayout(l)
  BY <1>1, AllIs DEF State
<1>3. /\ Change(g, x) /\ fulls' = fulls /\ k \notin q.todo
      /\ q.state[p] \in {"Recovering", "Backfilling"} /\ q.working
  BY <1>1, <1>2 DEF start_recovery_ops, AtWork, Primary, Msg, PGRecord
<1>4. /\ q.epoch[p] \in Nat /\ q.epoch[p] \in Interval /\ q.own \in [OSD -> Seq(Event)] /\ p \in OSD
      /\ q.own[p] \in Seq(Event)
  BY <1>1, <1>2, EpochIs DEF PGRecord, IsLayout
<1>5. /\ m \in Event /\ m.epoch = q.epoch[p] /\ m.ev = ev
      /\ ev \in {"DoRecovery", "RequestBackfill", "AllReplicasRecovered", "Backfilled"}
      /\ ev # "DoRecovery"
  BY <1>1, <1>4 DEF Msg, Event, Events
<1>6. ev # "Backfilled" => q.state[p] = "Recovering" /\ "recovery" \notin q.todo
  BY <1>1, <1>3 DEF Kind
<1>7. s \in Seq(Event)
  BY <1>1, <1>4, <1>5, AppendIs
<1>8. F \in [OSD -> Seq(Event)]
  BY <1>1, <1>4, <1>7
<1>9. x \in PGRecord
  <2>1. x = [q EXCEPT !.working = FALSE, !.own = F]
    BY <1>1
  <2> QED
    BY <1>2, <1>8, <2>1 DEF PGRecord
<1>10. /\ Alike(q, x) /\ x.interval = q.interval /\ x.scan = q.scan /\ x.own = F
       /\ x.working = FALSE
  BY <1>1, <1>2 DEF PGRecord, Alike
<1>11. F[p] = s /\ \A a \in OSD : a # p => F[a] = q.own[a]
  BY <1>1, <1>4
<1>12. OthersOK(x, l) /\ ScansOK(x, l)
  <2>1. p = l.primary
    BY <1>1
  <2>2. OthersOK(x, l)
    BY <1>2, <1>10, <1>11, <2>1 DEF GroupOK, OthersOK, Alike
  <2>3. ScansOK(q, l) /\ x.scan = q.scan /\ \A a \in OSD : a # l.primary => x.own[a] = q.own[a]
    BY <1>2, <1>10, <1>11, <2>1 DEF GroupOK
  <2>4. ScansOK(x, l)
    BY <2>3 DEF ScansOK
  <2> QED
    BY <2>2, <2>4
<1>13. OwnOK(s, q.epoch[p], q.state[p], FALSE, q.todo)
  <2>1. PICK t, e, st, todo, b : t = q.own[p] /\ e = q.epoch[p] /\ st = q.state[p] /\ todo = q.todo
                                 /\ b = FALSE
    OBVIOUS
  <2>2. NoOwn(q, p)
    BY <1>1, <1>2, <1>3, NoOwnIs
  <2>3. \A j \in 1 .. Len(t) : t[j].epoch = e => t[j].ev = "Backfilled"
    BY <2>1, <2>2 DEF NoOwn
  <2>4. OwnOK(t, e, st, q.working, todo)
    BY <1>1, <1>2, <2>1 DEF GroupOK
  <2>5. st # "Peering" /\ t \in Seq(Event) /\ e \in Nat /\ m.epoch = e
    BY <1>3, <1>4, <1>5, <2>1
  <2>6. m.ev # "Backfilled" =>
            /\ st = "Activating" \/ (st = "Recovering" /\ ~b)
            /\ m.ev = "DoRecovery" => st = "Activating"
            /\ m.ev # "DoRecovery" => "recovery" \notin todo
    BY <1>5, <1>6, <2>1
  <2>7. OwnOK(Append(t, m), e, st, b, todo)
    BY <1>5, <2>3, <2>4, <2>5, <2>6, OwnAppend
  <2> QED
    BY <1>1, <2>1, <2>7
<1>14. /\ OwnOK(x.own[p], x.epoch[p], x.state[p], x.working, x.todo)
       /\ WorkOK(x.state[p], x.it, x.working, x.todo, l)
  <2>1. OwnOK(x.own[p], x.epoch[p], x.state[p], x.working, x.todo)
    BY <1>10, <1>11, <1>13 DEF Alike
  <2>2. WorkOK(q.state[p], q.it, q.working, q.todo, l)
    BY <1>1, <1>2 DEF GroupOK
  <2>3. q.state[p] = "Recovering" => "recovery" \notin q.todo
    BY <1>1, <1>3 DEF Kind
  <2>4. WorkOK(q.state[p], q.it, FALSE, q.todo, l)
    BY <2>2, <2>3 DEF WorkOK
  <2> QED
    BY <1>10, <2>1, <2>4 DEF Alike
<1>15. fulls' \in 0 .. MaxFull
  BY <1>3 DEF State
<1>16. x.interval \in Nat /\ q.interval <= x.interval
  <2>1. q.interval \in Interval
    BY <1>2 DEF PGRecord
  <2>2. q.interval \in Nat
    BY <2>1, IntervalIs
  <2> QED
    BY <1>10, <2>2
<1>17. Change(g, x) /\ Alike(q, x) /\ l = lay[g] /\ q = pgs[g] /\ p = l.primary
  BY <1>1, <1>3, <1>10
<1> QED
  BY <1>9, <1>12, <1>14, <1>15, <1>16, <1>17, AlikeStep

(* The last object is recovered, or the last target is complete.            *)
LEMMA LastObjectStep ==
  ASSUME State, NEW g \in PG, LastObject(g)
  PROVE  Kept
<1>1. PICK l, q, p, k, T, x :
         /\ l = lay[g] /\ q = pgs[g] /\ p = l.primary /\ k = Kind(q.state[p])
         /\ T = q.todo \ {k} /\ x = [q EXCEPT !.todo = T]
  OBVIOUS
<1>2. AllOK(pgs, local, remote) /\ q \in PGRecord /\ GroupOK(q, l) /\ IsLayout(l)
  BY <1>1, AllIs DEF State
<1>3. /\ Change(g, x) /\ fulls' = fulls /\ k \in q.todo
      /\ q.state[p] \in {"Recovering", "Backfilling"} /\ q.working
  BY <1>1, <1>2 DEF LastObject, AtWork, Primary
<1>4. x \in PGRecord
  <2>1. x = [q EXCEPT !.todo = T] /\ T \in SUBSET {"recovery", "backfill"}
    BY <1>1, <1>2 DEF PGRecord
  <2> QED
    BY <1>2, <2>1 DEF PGRecord
<1>5. /\ x.state = q.state /\ x.epoch = q.epoch /\ x.it = q.it /\ x.todo = T
      /\ x.timers = q.timers /\ x.toReplica = q.toReplica /\ x.toPrimary = q.toPrimary
      /\ x.interval = q.interval /\ x.scan = q.scan /\ x.own = q.own /\ x.working = q.working
  BY <1>1, <1>2 DEF PGRecord
<1>6. ASSUME NEW o \in l.replicas
      PROVE  \/ View(x, l, o) = View(q, l, o)
             \/ View(q, l, o) = "granted" /\ View(x, l, o) = "done"
  <2>1. PICK s : s = q.state[l.primary]
    OBVIOUS
  <2>2. s = x.state[l.primary] /\ s \in {"Recovering", "Backfilling"}
    BY <1>1, <1>3, <1>5, <2>1
  <2>3. CASE s = "Recovering"
    <3>1. View(q, l, o) = "granted"
      BY <2>1, <2>3, ViewIs
    <3>2. View(x, l, o) = "granted"
      BY <2>2, <2>3, ViewIs
    <3> QED
      BY <3>1, <3>2
  <2>4. CASE s = "Backfilling"
    <3>1. View(q, l, o) = IF o \notin l.targets THEN "free"
                          ELSE IF "backfill" \in q.todo THEN "granted" ELSE "done"
      BY <2>1, <2>4, ViewIs
    <3>2. View(x, l, o) = IF o \notin l.targets THEN "free"
                          ELSE IF "backfill" \in x.todo THEN "granted" ELSE "done"
      BY <2>2, <2>4, ViewIs
    <3>3. k = "backfill"
      BY <1>1, <2>1, <2>4 DEF Kind
    <3>4. "backfill" \in q.todo /\ "backfill" \notin x.todo
      BY <1>1, <1>3, <1>5, <3>3
    <3> QED
      BY <3>1, <3>2, <3>4
  <2> QED
    BY <2>2, <2>3, <2>4
<1>7. ASSUME NEW o \in l.replicas
      PROVE  PeersKept(q, x, l, o)
  <2>1. CASE View(x, l, o) = View(q, l, o)
    BY <1>2, <1>5, <2>1, PeersAlike
  <2>2. CASE View(q, l, o) = "granted" /\ View(x, l, o) = "done"
    <3>1. PICK v, u, ep, eo, so, M, N :
             /\ v = View(q, l, o) /\ u = View(x, l, o) /\ ep = q.epoch[l.primary]
             /\ eo = q.epoch[o] /\ so = q.state[o] /\ M = q.toReplica[o] /\ N = q.toPrimary[o]
      OBVIOUS
    <3>2. ep \in Nat /\ eo \in Nat /\ M \in Seq(Event) /\ N \in Seq(Event)
      BY <1>2, <3>1, PairTypes
    <3>3. PairOK(v, ep, eo, so, M, N)
      BY <1>2, <3>1 DEF GroupOK, PeerOK
    <3>4. v = "granted" /\ u \in Grants /\ PairOK("granted", ep, eo, so, M, N)
      BY <2>2, <3>1, <3>3 DEF Grants
    <3>5. /\ PairOK(u, ep, eo, so, M, N)
          /\ \A c : CallbackOK("granted", ep, eo, so, M, N, c) => CallbackOK(u, ep, eo, so, M, N, c)
      BY <3>2, <3>4, PairDone
    <3> QED
      BY <1>5, <3>1, <3>4, <3>5 DEF PeersKept, PeerOK, Callback
  <2> QED
    BY <1>6, <2>1, <2>2
<1>8. OthersOK(x, l) /\ ScansOK(x, l)
  <2>1. OthersOK(q, l) /\ ScansOK(q, l)
    BY <1>2 DEF GroupOK
  <2>2. /\ x.scan = q.scan /\ x.own = q.own
        /\ x.toReplica = q.toReplica /\ x.toPrimary = q.toPrimary
    BY <1>5
  <2>3. OthersOK(x, l)
    BY <2>1, <2>2, OthersSame
  <2>4. ScansOK(x, l)
    BY <2>1, <2>2, ScansSame
  <2> QED
    BY <2>3, <2>4
<1>9. OwnOK(x.own[p], x.epoch[p], x.state[p], x.working, x.todo)
  <2>1. OwnOK(q.own[p], q.epoch[p], q.state[p], q.working, q.todo)
    BY <1>1, <1>2 DEF GroupOK
  <2>2. OwnOK(q.own[p], q.epoch[p], q.state[p], q.working, T)
    <3>1. PICK s, e, st, b, todo : /\ s = q.own[p] /\ e = q.epoch[p] /\ st = q.state[p]
                                   /\ b = q.working /\ todo = q.todo
      OBVIOUS
    <3>2. OwnOK(s, e, st, b, todo) /\ ("recovery" \notin todo => "recovery" \notin T)
      BY <1>1, <2>1, <3>1
    <3>3. OwnOK(s, e, st, b, T)
      BY <3>2 DEF OwnOK
    <3> QED
      BY <3>1, <3>3
  <2> QED
    BY <1>5, <2>2
<1>10. WorkOK(x.state[p], x.it, x.working, x.todo, l)
  <2>1. WorkOK(q.state[p], q.it, q.working, q.todo, l)
    BY <1>1, <1>2 DEF GroupOK
  <2>2. WorkOK(q.state[p], q.it, q.working, T, l)
    BY <1>1, <2>1 DEF WorkOK
  <2> QED
    BY <1>5, <2>2
<1>11. GroupOK(x, l)
  BY <1>1, <1>2, <1>5, <1>7, <1>8, <1>9, <1>10 DEF GroupOK, PeersKept
<1>12. PICK ps2 : Moved(pgs, g, x, ps2)
  BY DEF Moved
<1>13. \A o \in l.replicas : \A c \in Context : Callback(q, l, o, c) => Callback(x, l, o, c)
  BY <1>7 DEF PeersKept
<1>14. l = lay[g] /\ q = pgs[g]
  BY <1>1
<1>15. AllOK(ps2, local, remote)
  BY <1>2, <1>4, <1>5, <1>11, <1>12, <1>13, <1>14, QuietAll
<1>16. fulls' \in 0 .. MaxFull
  BY <1>3 DEF State
<1> QED
  BY <1>3, <1>12, <1>15, <1>16, ChangeStep

----------------------------------------------------------------------------
(* The instances enter a new interval and are activated: what becomes of    *)
(* the reservers when the group q becomes x.                                *)
LocalKept(q, x, l, a) == \A c \in Context : LocalOK(q, l, a, c) => LocalOK(x, l, a, c)

RemoteKept(q, x, l, a) == \A c \in Context : RemoteOK(q, l, a, c) => RemoteOK(x, l, a, c)

LEMMA LocalFits ==
  ASSUME NEW ps, NEW lo, NEW re, AllOK(ps, lo, re), NEW g \in PG, NEW l, l = lay[g],
         NEW q, q = ps[g], NEW x, NEW ps2, Moved(ps, g, x, ps2), NEW a \in OSD,
         LocalKept(q, x, l, a)
  PROVE  /\ Fits(Cancelled(lo[a], g), LocalSet(lay, ps2, a), LocalHolding(lay, ps2, a))
         /\ (a = l.primary /\ q.state[a] \in LocalHolders => x.state[a] \in LocalHolders) =>
               Fits(lo[a], LocalSet(lay, ps2, a), LocalHolding(lay, ps2, a))
<1>1. PICK r, A, H, B, J : /\ r = lo[a] /\ A = LocalSet(lay, ps, a) /\ H = LocalHolding(lay, ps, a)
                           /\ B = LocalSet(lay, ps2, a) /\ J = LocalHolding(lay, ps2, a)
  OBVIOUS
<1>2. Fits(r, A, H) /\ ps \in [PG -> PGRecord]
  BY <1>1, AllIs
<1>3. A \subseteq B
  <2> SUFFICES ASSUME NEW c \in A PROVE c \in B
    OBVIOUS
  <2>1. c \in Context /\ LocalOK(ps[c.pg], lay[c.pg], a, c)
    BY <1>1 DEF LocalSet
  <2>2. c.pg = g => LocalOK(x, lay[g], a, c)
    BY <2>1 DEF LocalKept
  <2> QED
    BY <1>1, <1>2, <2>1, <2>2, SetsMove
<1>4. \A i \in H : i \in PG /\ (i # g => i \in J)
  <2> SUFFICES ASSUME NEW i \in H PROVE i \in PG /\ (i # g => i \in J)
    OBVIOUS
  <2>1. i \in PG
    BY <1>1 DEF LocalHolding
  <2> QED
    BY <1>1, <1>2, <2>1, HoldingMove
<1>5. Fits(Cancelled(r, g), B, J)
  <2>1. PICK s, K : s = Cancelled(r, g) /\ K = H \ {g}
    OBVIOUS
  <2>2. Fits(s, A, K)
    BY <1>2, <2>1, FitsCancel DEF Cancelled, PG
  <2>3. \A c \in A : Holds(s, c) => c \in B
    BY <1>3
  <2>4. \A i \in K : HasReservation(s, i) => i \in J
    BY <1>4, <2>1
  <2>5. Fits(s, B, J)
    BY <2>2, <2>3, <2>4, FitsMove
  <2> QED
    BY <2>1, <2>5
<1>6. ASSUME a = l.primary /\ q.state[a] \in LocalHolders => x.state[a] \in LocalHolders
      PROVE  Fits(r, B, J)
  <2>1. g \in H => g \in J
    <3>1. g \in J <=> a = lay[g].primary /\ x.state[a] \in LocalHolders
      BY <1>1, <1>2, HoldingMove
    <3> QED
      BY <1>1, <1>6, <3>1 DEF LocalHolding
  <2>2. \A i \in H : HasReservation(r, i) => i \in J
    BY <1>4, <2>1
  <2>3. \A c \in A : Holds(r, c) => c \in B
    BY <1>3
  <2> QED
    BY <1>2, <2>2, <2>3, FitsMove
<1> QED
  BY <1>1, <1>5, <1>6

LEMMA RemoteFits ==
  ASSUME NEW ps, NEW lo, NEW re, AllOK(ps, lo, re), NEW g \in PG, NEW l, l = lay[g],
         NEW q, q = ps[g], NEW x, NEW ps2, Moved(ps, g, x, ps2), NEW a \in OSD,
         RemoteKept(q, x, l, a)
  PROVE  /\ Fits(Cancelled(re[a], g), RemoteSet(lay, ps2, a), RemoteHolding(lay, ps2, a))
         /\ (a \in l.replicas /\ q.state[a] \in RemoteHolders => x.state[a] \in RemoteHolders) =>
               Fits(re[a], RemoteSet(lay, ps2, a), RemoteHolding(lay, ps2, a))
<1>1. PICK r, A, H, B, J : /\ r = re[a] /\ A = RemoteSet(lay, ps, a) /\ H = RemoteHolding(lay, ps, a)
                           /\ B = RemoteSet(lay, ps2, a) /\ J = RemoteHolding(lay, ps2, a)
  OBVIOUS
<1>2. Fits(r, A, H) /\ ps \in [PG -> PGRecord]
  BY <1>1, AllIs
<1>3. A \subseteq B
  <2> SUFFICES ASSUME NEW c \in A PROVE c \in B
    OBVIOUS
  <2>1. c \in Context /\ RemoteOK(ps[c.pg], lay[c.pg], a, c)
    BY <1>1 DEF RemoteSet
  <2>2. c.pg = g => RemoteOK(x, lay[g], a, c)
    BY <2>1 DEF RemoteKept
  <2> QED
    BY <1>1, <1>2, <2>1, <2>2, SetsMove
<1>4. \A i \in H : i \in PG /\ (i # g => i \in J)
  <2> SUFFICES ASSUME NEW i \in H PROVE i \in PG /\ (i # g => i \in J)
    OBVIOUS
  <2>1. i \in PG
    BY <1>1 DEF RemoteHolding
  <2> QED
    BY <1>1, <1>2, <2>1, HoldingMove
<1>5. Fits(Cancelled(r, g), B, J)
  <2>1. PICK s, K : s = Cancelled(r, g) /\ K = H \ {g}
    OBVIOUS
  <2>2. Fits(s, A, K)
    BY <1>2, <2>1, FitsCancel DEF Cancelled, PG
  <2>3. \A c \in A : Holds(s, c) => c \in B
    BY <1>3
  <2>4. \A i \in K : HasReservation(s, i) => i \in J
    BY <1>4, <2>1
  <2>5. Fits(s, B, J)
    BY <2>2, <2>3, <2>4, FitsMove
  <2> QED
    BY <2>1, <2>5
<1>6. ASSUME a \in l.replicas /\ q.state[a] \in RemoteHolders => x.state[a] \in RemoteHolders
      PROVE  Fits(r, B, J)
  <2>1. g \in H => g \in J
    <3>1. g \in J <=> a \in lay[g].replicas /\ x.state[a] \in RemoteHolders
      BY <1>1, <1>2, HoldingMove
    <3> QED
      BY <1>1, <1>6, <3>1 DEF RemoteHolding
  <2>2. \A i \in H : HasReservation(r, i) => i \in J
    BY <1>4, <2>1
  <2>3. \A c \in A : Holds(r, c) => c \in B
    BY <1>3
  <2> QED
    BY <1>2, <2>2, <2>3, FitsMove
<1> QED
  BY <1>1, <1>5, <1>6

(* The primary enters a new interval.                                       *)
Restarted(q, p, x) ==
    x = [q EXCEPT !.epoch = [q.epoch EXCEPT ![p] = q.interval],
                  !.state = [q.state EXCEPT ![p] = "Peering"],
                  !.it = 0, !.working = FALSE, !.waiting_on_backfill = {}]

RestartKeeps(q, p, x) ==
    /\ x \in PGRecord
    /\ x.epoch[p] = q.interval /\ x.state[p] = "Peering"
    /\ \A a \in OSD : a # p => x.epoch[a] = q.epoch[a] /\ x.state[a] = q.state[a]
    /\ x.toReplica = q.toReplica /\ x.toPrimary = q.toPrimary /\ x.own = q.own
    /\ x.scan = q.scan /\ x.timers = q.timers /\ x.interval = q.interval
    /\ x.todo = q.todo /\ x.it = 0 /\ x.working = FALSE

LEMMA RestartedIs ==
  ASSUME NEW q \in PGRecord, NEW p \in OSD, NEW x, Restarted(q, p, x)
  PROVE  RestartKeeps(q, p, x)
<1>1. PICK E, S : E = [q.epoch EXCEPT ![p] = q.interval] /\ S = [q.state EXCEPT ![p] = "Peering"]
  OBVIOUS
<1>2. q.epoch \in [OSD -> Interval] /\ q.state \in [OSD -> States] /\ q.interval \in Interval
  BY DEF PGRecord
<1>3. E \in [OSD -> Interval] /\ S \in [OSD -> States]
  BY <1>1, <1>2 DEF States
<1>4. x = [q EXCEPT !.epoch = E, !.state = S, !.it = 0, !.working = FALSE,
                    !.waiting_on_backfill = {}]
  BY <1>1 DEF Restarted
<1>5. 0 \in 0 .. Cardinality(OSD)
  BY PeersAreFew
<1>6. x \in PGRecord
  BY <1>3, <1>4, <1>5 DEF PGRecord
<1>7. /\ E[p] = q.interval /\ S[p] = "Peering"
      /\ \A a \in OSD : a # p => E[a] = q.epoch[a] /\ S[a] = q.state[a]
  BY <1>1, <1>2
<1>8. /\ x.epoch = E /\ x.state = S
      /\ x.toReplica = q.toReplica /\ x.toPrimary = q.toPrimary /\ x.own = q.own
      /\ x.scan = q.scan /\ x.timers = q.timers /\ x.interval = q.interval
      /\ x.todo = q.todo /\ x.it = 0 /\ x.working = FALSE
  BY <1>4 DEF PGRecord
<1> QED
  BY <1>6, <1>7, <1>8 DEF RestartKeeps

LEMMA RestartPrimary ==
  ASSUME NEW ps, NEW lo, NEW re, AllOK(ps, lo, re), NEW g \in PG, NEW l, l = lay[g],
         NEW q, q = ps[g], NEW p, p = l.primary, q.epoch[p] < q.interval,
         NEW x, Restarted(q, p, x), NEW ps2, Moved(ps, g, x, ps2)
  PROVE  AllOK(ps2, [lo EXCEPT ![p] = Cancelled(lo[p], g)], [re EXCEPT ![p] = re[p]])
<1>1. q \in PGRecord /\ GroupOK(q, l) /\ IsLayout(l) /\ ps \in [PG -> PGRecord]
  BY AllIs
<1>2. p \in OSD /\ l.replicas \subseteq OSD /\ p \notin l.replicas
  BY <1>1 DEF IsLayout
<1>3. /\ x \in PGRecord
      /\ x.epoch[p] = q.interval /\ x.state[p] = "Peering"
      /\ \A a \in OSD : a # p => x.epoch[a] = q.epoch[a] /\ x.state[a] = q.state[a]
      /\ x.toReplica = q.toReplica /\ x.toPrimary = q.toPrimary /\ x.own = q.own
      /\ x.scan = q.scan /\ x.timers = q.timers /\ x.interval = q.interval
      /\ x.todo = q.todo /\ x.it = 0 /\ x.working = FALSE
  <2>1. RestartKeeps(q, p, x)
    BY <1>1, <1>2, RestartedIs
  <2> QED
    BY <2>1 DEF RestartKeeps
<1>4. PICK ep, e2 : ep = q.epoch[p] /\ e2 = q.interval
  OBVIOUS
<1>5. ep \in Nat /\ e2 \in Nat /\ ep < e2 /\ \A a \in OSD : q.epoch[a] \in Nat /\ q.epoch[a] <= e2
  <2>1. q.interval \in Interval
    BY <1>1 DEF PGRecord
  <2> QED
    BY <1>1, <1>2, <1>4, <2>1, EpochIs, IntervalIs DEF GroupOK
<1>6. ASSUME NEW a \in l.replicas
      PROVE  PeersKept(q, x, l, a)
  <2>1. PICK v, eo, so, M, N : /\ v = View(q, l, a) /\ eo = q.epoch[a] /\ so = q.state[a]
                               /\ M = q.toReplica[a] /\ N = q.toPrimary[a]
    OBVIOUS
  <2>2. eo \in Nat /\ eo <= e2 /\ M \in Seq(Event) /\ N \in Seq(Event)
    BY <1>1, <1>2, <1>5, <2>1, PairTypes
  <2>3. PairOK(v, ep, eo, so, M, N)
    BY <1>1, <1>4, <2>1 DEF GroupOK, PeerOK
  <2>4. /\ PairOK("peering", e2, eo, so, M, N)
        /\ \A c : CallbackOK(v, ep, eo, so, M, N, c) => CallbackOK("peering", e2, eo, so, M, N, c)
    BY <1>5, <2>2, <2>3, PairLeave
  <2>5. View(x, l, a) = "peering"
    BY <1>3, ViewIs
  <2>6. /\ x.epoch[l.primary] = e2 /\ x.epoch[a] = eo /\ x.state[a] = so
        /\ x.toReplica[a] = M /\ x.toPrimary[a] = N
    BY <1>2, <1>3, <1>4, <2>1
  <2> QED
    BY <1>4, <2>1, <2>4, <2>5, <2>6 DEF PeersKept, PeerOK, Callback
<1>7. GroupOK(x, l)
  <2>1. \A o \in OSD : x.epoch[o] <= x.interval
    BY <1>3, <1>4, <1>5
  <2>2. OthersOK(x, l) /\ ScansOK(x, l)
    <3>1. OthersOK(q, l) /\ ScansOK(q, l)
      BY <1>1 DEF GroupOK
    <3>2. /\ x.scan = q.scan /\ x.own = q.own
          /\ x.toReplica = q.toReplica /\ x.toPrimary = q.toPrimary
      BY <1>3
    <3>3. OthersOK(x, l)
      BY <3>1, <3>2, OthersSame
    <3>4. ScansOK(x, l)
      BY <3>1, <3>2, ScansSame
    <3> QED
      BY <3>3, <3>4
  <2>3. OwnOK(x.own[p], e2, "Peering", FALSE, x.todo)
    <3>1. PICK s, st, b : s = q.own[p] /\ st = q.state[p] /\ b = q.working
      OBVIOUS
    <3>2. OwnOK(s, ep, st, b, q.todo) /\ s \in Seq(Event)
      BY <1>1, <1>2, <1>4, <3>1 DEF GroupOK, PGRecord
    <3>3. \A k \in 1 .. Len(s) : s[k].epoch \in Nat
      BY <3>2, MessageIs
    <3>4. \A k \in 1 .. Len(s) : s[k].epoch <= e2 /\ s[k].epoch # e2
      BY <1>5, <3>2, <3>3 DEF OwnOK
    <3>5. OwnOK(s, e2, "Peering", FALSE, q.todo)
      BY <3>2, <3>4 DEF OwnOK
    <3> QED
      BY <1>3, <3>1, <3>5
  <2>4. TimersOK(x.timers, e2, "Peering")
    <3>1. PICK T, st : T = q.timers /\ st = q.state[p]
      OBVIOUS
    <3>2. TimersOK(T, ep, st) /\ \A t \in T : t.epoch \in Interval
      BY <1>1, <1>2, <1>4, <3>1 DEF GroupOK, PGRecord
    <3>3. \A t \in T : t.epoch <= e2 /\ t.epoch # e2
      <4> SUFFICES ASSUME NEW t \in T PROVE t.epoch <= e2 /\ t.epoch # e2
        OBVIOUS
      <4>1. t.epoch \in Nat
        BY <3>2, IntervalIs
      <4>2. t.epoch <= ep
        BY <3>2 DEF TimersOK
      <4> QED
        BY <1>5, <4>1, <4>2
    <3>4. TimersOK(T, e2, "Peering")
      BY <3>3 DEF TimersOK
    <3> QED
      BY <1>3, <3>1, <3>4
  <2>5. WorkOK("Peering", 0, FALSE, x.todo, l)
    BY DEF WorkOK, BackfillStates
  <2>6. \A o \in l.replicas : PeerOK(x, l, o)
    BY <1>6 DEF PeersKept
  <2> QED
    BY <1>3, <1>4, <2>1, <2>2, <2>3, <2>4, <2>5, <2>6 DEF GroupOK
<1>8. ASSUME NEW a \in OSD
      PROVE  LocalKept(q, x, l, a) /\ RemoteKept(q, x, l, a)
  <2>1. LocalKept(q, x, l, a)
    <3> SUFFICES ASSUME NEW c \in Context, LocalOK(q, l, a, c) PROVE LocalOK(x, l, a, c)
      BY DEF LocalKept
    <3>1. c.epoch \in Nat /\ a = p
      BY ContextIs, IntervalIs DEF LocalOK
    <3>2. c.epoch <= ep
      BY <1>4, <3>1 DEF LocalOK
    <3>3. c.epoch <= e2 /\ c.epoch # e2
      BY <1>5, <3>1, <3>2
    <3> QED
      BY <1>3, <1>4, <3>1, <3>3 DEF LocalOK
  <2>2. RemoteKept(q, x, l, a)
    BY <1>6 DEF RemoteKept, RemoteOK, PeersKept, Callback
  <2> QED
    BY <2>1, <2>2
<1>9. PICK lp, rp : lp = Cancelled(lo[p], g) /\ rp = re[p]
  OBVIOUS
<1>10. Fits(lp, LocalSet(lay, ps2, p), LocalHolding(lay, ps2, p))
  BY <1>2, <1>8, <1>9, LocalFits
<1>11. \A a \in OSD : a # p => Fits(lo[a], LocalSet(lay, ps2, a), LocalHolding(lay, ps2, a))
  BY <1>8, LocalFits
<1>12. ASSUME NEW a \in OSD
       PROVE  Fits(re[a], RemoteSet(lay, ps2, a), RemoteHolding(lay, ps2, a))
  <2>1. a \in l.replicas /\ q.state[a] \in RemoteHolders => x.state[a] \in RemoteHolders
    BY <1>2, <1>3
  <2> QED
    BY <1>8, <2>1, RemoteFits
<1>13. Fits(rp, RemoteSet(lay, ps2, p), RemoteHolding(lay, ps2, p))
  BY <1>2, <1>9, <1>12
<1>14. AllOK(ps2, [lo EXCEPT ![p] = lp], [re EXCEPT ![p] = rp])
  BY <1>2, <1>3, <1>7, <1>10, <1>11, <1>12, <1>13, StepAll
<1> QED
  BY <1>9, <1>14

LEMMA ResetPrimaryStep ==
  ASSUME State, NEW g \in PG, NEW o \in OSD, IsPrimary(g, o), Reset(g, o)
  PROVE  Kept
<1>1. PICK l, q, p : l = lay[g] /\ q = pgs[g] /\ p = l.primary
  OBVIOUS
<1>2. q \in PGRecord /\ IsLayout(l) /\ p = o /\ p \in OSD
  BY <1>1, AllIs DEF State, IsPrimary, Primary, IsLayout
<1>3. AllOK(pgs, local, remote) /\ pgs \in [PG -> PGRecord]
  BY DEF State
<1>4. PICK x : x = [q EXCEPT !.epoch = [q.epoch EXCEPT ![p] = q.interval],
                             !.state = [q.state EXCEPT ![p] = "Peering"],
                             !.it = 0, !.working = FALSE, !.waiting_on_backfill = {}]
  OBVIOUS
<1>5. Restarted(q, p, x)
  BY <1>4 DEF Restarted
<1>6. PICK lo, re, w : lo = local[p] /\ re = remote[p]
                       /\ w = [p |-> [q EXCEPT !.epoch[o] = q.interval], l |-> lo, r |-> re, bad |-> FALSE]
  OBVIOUS
<1>7. PICK y : y = [cancel_local(Leave(w, o, "Peering"), g) EXCEPT !.p.waiting_on_backfill = {}]
  OBVIOUS
<1>8. /\ q.epoch[p] < q.interval
      /\ pgs' = [pgs EXCEPT ![g] = y.p]
      /\ local' = [local EXCEPT ![p] = y.l]
      /\ remote' = [remote EXCEPT ![p] = y.r]
      /\ lay' = lay /\ fulls' = fulls /\ crashed' = crashed
  BY <1>1, <1>2, <1>6, <1>7 DEF Reset, NeedsReset
<1>9. y.l = Cancelled(lo, g) /\ y.r = re
  BY <1>6, <1>7 DEF cancel_local, Leave, To, Cancelled
<1>10. y.p = x
  <2>1. PICK q1 : q1 = [q EXCEPT !.epoch = [q.epoch EXCEPT ![p] = q.interval]]
    OBVIOUS
  <2>2. w = [p |-> q1, l |-> lo, r |-> re, bad |-> FALSE]
    BY <1>2, <1>6, <2>1 DEF PGRecord
  <2>3. y.p = [q1 EXCEPT !.state = [q1.state EXCEPT ![p] = "Peering"],
                         !.it = 0, !.working = FALSE, !.waiting_on_backfill = {}]
    BY <1>2, <1>7, <2>1, <2>2 DEF cancel_local, Leave, To, PGRecord
  <2>4. q1.state = q.state
    BY <1>2, <2>1 DEF PGRecord
  <2> QED
    BY <1>2, <1>4, <2>1, <2>3, <2>4 DEF PGRecord
<1>11. Moved(pgs, g, x, pgs')
  BY <1>8, <1>10 DEF Moved
<1>12. AllOK(pgs', [local EXCEPT ![p] = Cancelled(local[p], g)], [remote EXCEPT ![p] = remote[p]])
  BY <1>1, <1>3, <1>5, <1>8, <1>11, RestartPrimary
<1>13. AllOK(pgs', local', remote')
  BY <1>6, <1>8, <1>9, <1>12
<1> QED
  BY <1>8, <1>13 DEF Kept, State

(* A peer enters a new interval.                                            *)
Strayed(q, o, x) ==
    x = [q EXCEPT !.epoch = [q.epoch EXCEPT ![o] = q.interval],
                  !.state = [q.state EXCEPT ![o] = "Stray"]]

StrayKeeps(q, o, x) ==
    /\ x \in PGRecord
    /\ x.epoch[o] = q.interval /\ x.state[o] = "Stray"
    /\ \A a \in OSD : a # o => x.epoch[a] = q.epoch[a] /\ x.state[a] = q.state[a]
    /\ x.toReplica = q.toReplica /\ x.toPrimary = q.toPrimary /\ x.own = q.own
    /\ x.scan = q.scan /\ x.timers = q.timers /\ x.interval = q.interval
    /\ x.todo = q.todo /\ x.it = q.it /\ x.working = q.working

LEMMA StrayedIs ==
  ASSUME NEW q \in PGRecord, NEW o \in OSD, NEW x, Strayed(q, o, x)
  PROVE  StrayKeeps(q, o, x)
<1>1. PICK E, S : E = [q.epoch EXCEPT ![o] = q.interval] /\ S = [q.state EXCEPT ![o] = "Stray"]
  OBVIOUS
<1>2. q.epoch \in [OSD -> Interval] /\ q.state \in [OSD -> States] /\ q.interval \in Interval
  BY DEF PGRecord
<1>3. E \in [OSD -> Interval] /\ S \in [OSD -> States]
  BY <1>1, <1>2 DEF States
<1>4. x = [q EXCEPT !.epoch = E, !.state = S]
  BY <1>1 DEF Strayed
<1>5. x \in PGRecord
  BY <1>3, <1>4 DEF PGRecord
<1>6. /\ E[o] = q.interval /\ S[o] = "Stray"
      /\ \A a \in OSD : a # o => E[a] = q.epoch[a] /\ S[a] = q.state[a]
  BY <1>1, <1>2
<1>7. /\ x.epoch = E /\ x.state = S
      /\ x.toReplica = q.toReplica /\ x.toPrimary = q.toPrimary /\ x.own = q.own
      /\ x.scan = q.scan /\ x.timers = q.timers /\ x.interval = q.interval
      /\ x.todo = q.todo /\ x.it = q.it /\ x.working = q.working
  BY <1>4 DEF PGRecord
<1> QED
  BY <1>5, <1>6, <1>7 DEF StrayKeeps

LEMMA RestartPeer ==
  ASSUME NEW ps, NEW lo, NEW re, AllOK(ps, lo, re), NEW g \in PG, NEW l, l = lay[g],
         NEW q, q = ps[g], NEW o \in l.replicas, q.epoch[o] < q.interval,
         NEW x, Strayed(q, o, x), NEW ps2, Moved(ps, g, x, ps2)
  PROVE  AllOK(ps2, [lo EXCEPT ![o] = lo[o]], [re EXCEPT ![o] = Cancelled(re[o], g)])
<1>1. q \in PGRecord /\ GroupOK(q, l) /\ IsLayout(l) /\ ps \in [PG -> PGRecord]
  BY AllIs
<1>2. PICK p : p = l.primary
  OBVIOUS
<1>3. p \in OSD /\ l.replicas \subseteq OSD /\ p \notin l.replicas /\ o \in OSD /\ o # p
  BY <1>1, <1>2 DEF IsLayout
<1>4. /\ x \in PGRecord
      /\ x.epoch[o] = q.interval /\ x.state[o] = "Stray"
      /\ \A a \in OSD : a # o => x.epoch[a] = q.epoch[a] /\ x.state[a] = q.state[a]
      /\ x.toReplica = q.toReplica /\ x.toPrimary = q.toPrimary /\ x.own = q.own
      /\ x.scan = q.scan /\ x.timers = q.timers /\ x.interval = q.interval
      /\ x.todo = q.todo /\ x.it = q.it /\ x.working = q.working
  <2>1. StrayKeeps(q, o, x)
    BY <1>1, <1>3, StrayedIs
  <2> QED
    BY <2>1 DEF StrayKeeps
<1>5. /\ x.epoch[l.primary] = q.epoch[l.primary] /\ x.state[l.primary] = q.state[l.primary]
      /\ x.epoch[p] = q.epoch[p] /\ x.state[p] = q.state[p]
  BY <1>2, <1>3, <1>4
<1>6. PICK ep, eo, e2 : ep = q.epoch[p] /\ eo = q.epoch[o] /\ e2 = q.interval
  OBVIOUS
<1>7. ep \in Nat /\ eo \in Nat /\ e2 \in Nat /\ eo < e2 /\ ep <= e2
  <2>1. q.interval \in Interval
    BY <1>1 DEF PGRecord
  <2> QED
    BY <1>1, <1>3, <1>6, <2>1, EpochIs, IntervalIs DEF GroupOK
<1>8. \A a : View(x, l, a) = View(q, l, a)
  BY <1>4, <1>5 DEF View, RetriesLate
<1>9. ASSUME NEW a \in l.replicas
      PROVE  PeersKept(q, x, l, a)
  <2>1. PICK v, ea, sa, M, N : /\ v = View(q, l, a) /\ ea = q.epoch[a] /\ sa = q.state[a]
                               /\ M = q.toReplica[a] /\ N = q.toPrimary[a]
    OBVIOUS
  <2>2. M \in Seq(Event) /\ N \in Seq(Event)
    BY <1>1, <2>1, PairTypes
  <2>3. PairOK(v, ep, ea, sa, M, N)
    BY <1>1, <1>2, <1>6, <2>1 DEF GroupOK, PeerOK
  <2>4. /\ View(x, l, a) = v /\ x.epoch[l.primary] = ep
        /\ x.toReplica[a] = M /\ x.toPrimary[a] = N
    BY <1>2, <1>4, <1>5, <1>6, <1>8, <2>1
  <2>5. CASE a # o
    <3>1. x.epoch[a] = ea /\ x.state[a] = sa
      BY <1>3, <1>4, <2>1, <2>5
    <3> QED
      BY <1>2, <1>6, <2>1, <2>3, <2>4, <3>1 DEF PeersKept, PeerOK, Callback
  <2>6. CASE a = o
    <3>1. ea = eo /\ x.epoch[a] = e2 /\ x.state[a] = "Stray"
      BY <1>4, <1>6, <2>1, <2>6
    <3>2. /\ PairOK(v, ep, e2, "Stray", M, N)
          /\ \A c : CallbackOK(v, ep, eo, sa, M, N, c) /\ c.epoch \in Nat =>
                    CallbackOK(v, ep, e2, "Stray", M, N, c)
      BY <1>7, <2>2, <2>3, <3>1, PairStray
    <3>3. \A c \in Context : c.epoch \in Nat
      BY ContextIs, IntervalIs
    <3>4. PeerOK(x, l, a)
      BY <2>4, <3>1, <3>2 DEF PeerOK
    <3>5. ASSUME NEW c \in Context, Callback(q, l, a, c) PROVE Callback(x, l, a, c)
      <4>1. CallbackOK(v, ep, eo, sa, M, N, c)
        BY <1>2, <1>6, <2>1, <3>1, <3>5 DEF Callback
      <4>2. CallbackOK(v, ep, e2, "Stray", M, N, c)
        BY <3>2, <3>3, <4>1
      <4> QED
        BY <2>4, <3>1, <4>2 DEF Callback
    <3> QED
      BY <3>4, <3>5 DEF PeersKept
  <2> QED
    BY <2>5, <2>6
<1>10. GroupOK(x, l)
  <2>1. \A a \in OSD : x.epoch[a] <= x.interval
    <3> SUFFICES ASSUME NEW a \in OSD PROVE x.epoch[a] <= x.interval
      OBVIOUS
    <3>1. q.epoch[a] <= q.interval
      BY <1>1 DEF GroupOK
    <3> QED
      BY <1>4, <1>6, <1>7, <3>1
  <2>2. OthersOK(x, l) /\ ScansOK(x, l)
    <3>1. OthersOK(q, l) /\ ScansOK(q, l)
      BY <1>1 DEF GroupOK
    <3>2. /\ x.scan = q.scan /\ x.own = q.own
          /\ x.toReplica = q.toReplica /\ x.toPrimary = q.toPrimary
      BY <1>4
    <3>3. OthersOK(x, l)
      BY <3>1, <3>2, OthersSame
    <3>4. ScansOK(x, l)
      BY <3>1, <3>2, ScansSame
    <3> QED
      BY <3>3, <3>4
  <2>3. /\ OwnOK(q.own[p], q.epoch[p], q.state[p], q.working, q.todo)
        /\ TimersOK(q.timers, q.epoch[p], q.state[p])
        /\ WorkOK(q.state[p], q.it, q.working, q.todo, l)
    BY <1>1, <1>2 DEF GroupOK
  <2>4. /\ OwnOK(x.own[p], x.epoch[p], x.state[p], x.working, x.todo)
        /\ TimersOK(x.timers, x.epoch[p], x.state[p])
        /\ WorkOK(x.state[p], x.it, x.working, x.todo, l)
    BY <1>4, <1>5, <2>3
  <2>5. \A a \in l.replicas : PeerOK(x, l, a)
    BY <1>9 DEF PeersKept
  <2> QED
    BY <1>2, <2>1, <2>2, <2>4, <2>5 DEF GroupOK
<1>11. ASSUME NEW a \in OSD
       PROVE  LocalKept(q, x, l, a) /\ RemoteKept(q, x, l, a)
  <2>1. LocalKept(q, x, l, a)
    BY <1>5 DEF LocalKept, LocalOK
  <2>2. RemoteKept(q, x, l, a)
    BY <1>9 DEF RemoteKept, RemoteOK, PeersKept, Callback
  <2> QED
    BY <2>1, <2>2
<1>12. PICK lp, rp : lp = lo[o] /\ rp = Cancelled(re[o], g)
  OBVIOUS
<1>13. Fits(rp, RemoteSet(lay, ps2, o), RemoteHolding(lay, ps2, o))
  BY <1>3, <1>11, <1>12, RemoteFits
<1>14. ASSUME NEW a \in OSD
       PROVE  Fits(lo[a], LocalSet(lay, ps2, a), LocalHolding(lay, ps2, a))
  <2>1. a = l.primary /\ q.state[a] \in LocalHolders => x.state[a] \in LocalHolders
    BY <1>5
  <2> QED
    BY <1>11, <2>1, LocalFits
<1>15. \A a \in OSD : a # o => Fits(re[a], RemoteSet(lay, ps2, a), RemoteHolding(lay, ps2, a))
  <2> SUFFICES ASSUME NEW a \in OSD, a # o
               PROVE  Fits(re[a], RemoteSet(lay, ps2, a), RemoteHolding(lay, ps2, a))
    OBVIOUS
  <2>1. a \in l.replicas /\ q.state[a] \in RemoteHolders => x.state[a] \in RemoteHolders
    BY <1>4
  <2> QED
    BY <1>11, <2>1, RemoteFits
<1>16. Fits(lp, LocalSet(lay, ps2, o), LocalHolding(lay, ps2, o))
  BY <1>3, <1>12, <1>14
<1>17. AllOK(ps2, [lo EXCEPT ![o] = lp], [re EXCEPT ![o] = rp])
  BY <1>3, <1>4, <1>10, <1>13, <1>14, <1>15, <1>16, StepAll
<1> QED
  BY <1>12, <1>17

LEMMA ResetPeerStep ==
  ASSUME State, NEW g \in PG, NEW o \in OSD, ~IsPrimary(g, o), Reset(g, o)
  PROVE  Kept
<1>1. PICK l, q : l = lay[g] /\ q = pgs[g]
  OBVIOUS
<1>2. q \in PGRecord /\ IsLayout(l) /\ o \in l.replicas
  BY <1>1, AllIs DEF State, IsPrimary, Primary, Reset, NeedsReset
<1>3. AllOK(pgs, local, remote) /\ pgs \in [PG -> PGRecord]
  BY DEF State
<1>4. PICK x : x = [q EXCEPT !.epoch = [q.epoch EXCEPT ![o] = q.interval],
                             !.state = [q.state EXCEPT ![o] = "Stray"]]
  OBVIOUS
<1>5. Strayed(q, o, x)
  BY <1>4 DEF Strayed
<1>6. PICK lo, re, w : lo = local[o] /\ re = remote[o]
                       /\ w = [p |-> [q EXCEPT !.epoch[o] = q.interval], l |-> lo, r |-> re, bad |-> FALSE]
  OBVIOUS
<1>7. PICK y : y = cancel_remote(To(w, o, "Stray"), g)
  OBVIOUS
<1>8. /\ q.epoch[o] < q.interval
      /\ pgs' = [pgs EXCEPT ![g] = y.p]
      /\ local' = [local EXCEPT ![o] = y.l]
      /\ remote' = [remote EXCEPT ![o] = y.r]
      /\ lay' = lay /\ fulls' = fulls /\ crashed' = crashed
  BY <1>1, <1>2, <1>6, <1>7 DEF Reset, NeedsReset
<1>9. y.r = Cancelled(re, g) /\ y.l = lo
  BY <1>6, <1>7 DEF cancel_remote, To, Cancelled
<1>10. y.p = x
  <2>1. PICK q1 : q1 = [q EXCEPT !.epoch = [q.epoch EXCEPT ![o] = q.interval]]
    OBVIOUS
  <2>2. w = [p |-> q1, l |-> lo, r |-> re, bad |-> FALSE]
    BY <1>2, <1>6, <2>1 DEF PGRecord
  <2>3. y.p = [q1 EXCEPT !.state = [q1.state EXCEPT ![o] = "Stray"]]
    BY <1>2, <1>7, <2>1, <2>2 DEF cancel_remote, To, PGRecord
  <2>4. q1.state = q.state
    BY <1>2, <2>1 DEF PGRecord
  <2> QED
    BY <1>2, <1>4, <2>1, <2>3, <2>4 DEF PGRecord
<1>11. Moved(pgs, g, x, pgs')
  BY <1>8, <1>10 DEF Moved
<1>12. AllOK(pgs', [local EXCEPT ![o] = local[o]], [remote EXCEPT ![o] = Cancelled(remote[o], g)])
  BY <1>1, <1>2, <1>3, <1>5, <1>8, <1>11, RestartPeer
<1>13. AllOK(pgs', local', remote')
  BY <1>6, <1>8, <1>9, <1>12
<1> QED
  BY <1>8, <1>13 DEF Kept, State

----------------------------------------------------------------------------
(* The group is activated.                                                  *)
LEMMA ActivateStep ==
  ASSUME State, NEW g \in PG, Activate(g)
  PROVE  Kept
<1>1. PICK l, q, p, ev, m, s, F, G, x :
         /\ l = lay[g] /\ q = pgs[g] /\ p = l.primary
         /\ ev = (IF "recovery" \in q.todo THEN "DoRecovery"
                  ELSE IF "backfill" \in q.todo THEN "RequestBackfill" ELSE "AllReplicasRecovered")
         /\ m = Msg(ev, q.epoch[p])
         /\ s = Append(q.own[p], m) /\ F = [q.own EXCEPT ![p] = s]
         /\ G = [a \in OSD |-> IF a = p THEN "Activating"
                               ELSE IF a \in l.replicas THEN "RepNotRecovering" ELSE q.state[a]]
         /\ x = [q EXCEPT !.state = G, !.own = F]
  OBVIOUS
<1>2. /\ q \in PGRecord /\ GroupOK(q, l) /\ IsLayout(l) /\ pgs \in [PG -> PGRecord]
      /\ AllOK(pgs, local, remote)
  BY <1>1, AllIs DEF State
<1>3. /\ Change(g, x) /\ fulls' = fulls /\ q.state[p] = "Peering"
      /\ \A a \in l.replicas : q.state[a] = "Stray" /\ q.epoch[a] = q.epoch[p]
  <2>1. PICK o : o = Primary(g)
    OBVIOUS
  <2>2. o = p /\ p = l.primary
    BY <1>1, <2>1 DEF Primary
  <2>3. /\ q.state[o] = "Peering" /\ fulls' = fulls
        /\ \A a \in lay[g].replicas : q.state[a] = "Stray" /\ q.epoch[a] = q.epoch[o]
    BY <1>1, <2>1 DEF Activate
  <2>4. Change(g, [q EXCEPT !.state = [a \in OSD |-> IF a = o THEN "Activating"
                                                    ELSE IF a \in lay[g].replicas
                                                    THEN "RepNotRecovering" ELSE q.state[a]],
                           !.own[o] = Append(q.own[o], [ev |-> ev, epoch |-> q.epoch[o]])])
    BY <1>1, <2>1, <2>2 DEF Activate
  <2>5. x = [q EXCEPT !.state = [a \in OSD |-> IF a = o THEN "Activating"
                                               ELSE IF a \in lay[g].replicas
                                               THEN "RepNotRecovering" ELSE q.state[a]],
                      !.own[o] = Append(q.own[o], [ev |-> ev, epoch |-> q.epoch[o]])]
    <3>1. x = [q EXCEPT !.state = G, !.own = F]
      BY <1>1
    <3>2. G = [a \in OSD |-> IF a = o THEN "Activating"
                             ELSE IF a \in lay[g].replicas
                             THEN "RepNotRecovering" ELSE q.state[a]]
      BY <1>1, <2>2
    <3>3. F = [q.own EXCEPT ![o] = Append(q.own[o], [ev |-> ev, epoch |-> q.epoch[o]])]
      BY <1>1, <2>2 DEF Msg
    <3> QED
      BY <1>2, <3>1, <3>2, <3>3 DEF PGRecord
  <2>6. Change(g, x)
    BY <2>4, <2>5
  <2> QED
    BY <1>1, <2>2, <2>3, <2>6
<1>4. /\ q.epoch[p] \in Nat /\ q.epoch[p] \in Interval /\ q.own \in [OSD -> Seq(Event)] /\ p \in OSD
      /\ q.own[p] \in Seq(Event) /\ q.state \in [OSD -> States]
      /\ l.replicas \subseteq OSD /\ p \notin l.replicas
  BY <1>1, <1>2, EpochIs DEF PGRecord, IsLayout
<1>5. /\ m \in Event /\ m.epoch = q.epoch[p] /\ m.ev = ev
      /\ ev \in {"DoRecovery", "RequestBackfill", "AllReplicasRecovered", "Backfilled"}
      /\ ev # "DoRecovery" => "recovery" \notin q.todo
  BY <1>1, <1>4 DEF Msg, Event, Events
<1>6. s \in Seq(Event)
  BY <1>1, <1>4, <1>5, AppendIs
<1>7. F \in [OSD -> Seq(Event)] /\ G \in [OSD -> States]
  BY <1>1, <1>4, <1>6 DEF States
<1>8. x \in PGRecord
  <2>1. x = [q EXCEPT !.state = G, !.own = F]
    BY <1>1
  <2> QED
    BY <1>2, <1>7, <2>1 DEF PGRecord
<1>9. /\ x.state = G /\ x.own = F /\ x.epoch = q.epoch /\ x.interval = q.interval
      /\ x.it = q.it /\ x.todo = q.todo /\ x.working = q.working /\ x.timers = q.timers
      /\ x.scan = q.scan /\ x.toReplica = q.toReplica /\ x.toPrimary = q.toPrimary
  BY <1>1, <1>2 DEF PGRecord
<1>10. F[p] = s /\ \A a \in OSD : a # p => F[a] = q.own[a]
  BY <1>1, <1>4
<1>11. G[p] = "Activating" /\ \A a \in l.replicas : G[a] = "RepNotRecovering"
  BY <1>1, <1>4
<1>12. PICK e : e = q.epoch[p]
  OBVIOUS
<1>13. ASSUME NEW a \in l.replicas
       PROVE  PeersKept(q, x, l, a)
  <2>1. PICK M, N : M = q.toReplica[a] /\ N = q.toPrimary[a]
    OBVIOUS
  <2>2. M \in Seq(Event) /\ N \in Seq(Event) /\ e \in Nat
    BY <1>2, <1>4, <1>12, <2>1, PairTypes
  <2>3. View(q, l, a) = "peering" /\ View(x, l, a) = "free"
    <3>1. q.state[l.primary] = "Peering" /\ x.state[l.primary] = "Activating"
      BY <1>1, <1>3, <1>9, <1>11
    <3>2. View(q, l, a) = "peering"
      BY <3>1, ViewIs
    <3>3. View(x, l, a) = "free"
      BY <3>1, ViewIs DEF FreeStates
    <3> QED
      BY <3>2, <3>3
  <2>4. PairOK("peering", e, e, "Stray", M, N)
    BY <1>1, <1>2, <1>3, <1>12, <2>1, <2>3 DEF GroupOK, PeerOK
  <2>5. /\ PairOK("free", e, e, "RepNotRecovering", M, N)
        /\ \A c : CallbackOK("peering", e, e, "Stray", M, N, c) =>
                  CallbackOK("free", e, e, "RepNotRecovering", M, N, c)
    BY <2>2, <2>4, PairActivate
  <2>6. /\ q.epoch[l.primary] = e /\ q.epoch[a] = e /\ q.state[a] = "Stray"
        /\ x.epoch[l.primary] = e /\ x.epoch[a] = e /\ x.state[a] = "RepNotRecovering"
        /\ x.toReplica[a] = M /\ x.toPrimary[a] = N
    <3>1. p = l.primary /\ q.epoch[a] = q.epoch[p] /\ q.state[a] = "Stray"
      BY <1>1, <1>3
    <3>2. G[a] = "RepNotRecovering"
      BY <1>11
    <3> QED
      BY <1>9, <1>12, <2>1, <3>1, <3>2
  <2>7. PeerOK(x, l, a)
    BY <2>3, <2>5, <2>6 DEF PeerOK
  <2>8. \A c \in Context : Callback(q, l, a, c) => Callback(x, l, a, c)
    BY <2>1, <2>3, <2>5, <2>6 DEF Callback
  <2> QED
    BY <2>7, <2>8 DEF PeersKept
<1>14. GroupOK(x, l)
  <2>1. \A a \in OSD : x.epoch[a] <= x.interval
    BY <1>2, <1>9 DEF GroupOK
  <2>2. p = l.primary
    BY <1>1
  <2>3. OthersOK(x, l)
    BY <1>2, <1>9, <1>10, <2>2 DEF GroupOK, OthersOK
  <2>4. ScansOK(q, l) /\ x.scan = q.scan /\ \A a \in OSD : a # l.primary => x.own[a] = q.own[a]
    BY <1>2, <1>9, <1>10, <2>2 DEF GroupOK
  <2>5. ScansOK(x, l)
    BY <2>4 DEF ScansOK
  <2>6. OwnOK(s, e, "Activating", q.working, q.todo)
    <3>1. PICK t, st, todo, b : t = q.own[p] /\ st = q.state[p] /\ todo = q.todo /\ b = q.working
      OBVIOUS
    <3>2. OwnOK(t, e, st, b, todo)
      BY <1>1, <1>2, <1>12, <3>1 DEF GroupOK
    <3>3. \A j \in 1 .. Len(t) : t[j].epoch = e => t[j].ev = "Backfilled"
      BY <1>3, <3>1, <3>2 DEF OwnOK
    <3>4. t \in Seq(Event) /\ e \in Nat /\ m.epoch = e
      BY <1>4, <1>5, <1>12, <3>1
    <3>5. PICK s2 : s2 = "Activating"
      OBVIOUS
    <3>6. /\ s2 # "Peering"
          /\ m.ev # "Backfilled" =>
               /\ s2 = "Activating" \/ (s2 = "Recovering" /\ ~b)
               /\ m.ev = "DoRecovery" => s2 = "Activating"
               /\ m.ev # "DoRecovery" => "recovery" \notin todo
      BY <1>5, <3>1, <3>5
    <3>7. OwnOK(Append(t, m), e, s2, b, todo)
      BY <1>5, <3>2, <3>3, <3>4, <3>6, OwnAppend
    <3> QED
      BY <1>1, <3>1, <3>5, <3>7
  <2>7. OwnOK(x.own[p], x.epoch[p], x.state[p], x.working, x.todo)
    BY <1>9, <1>10, <1>11, <1>12, <2>6
  <2>8. TimersOK(x.timers, x.epoch[p], x.state[p])
    <3>1. PICK T, st : T = q.timers /\ st = q.state[p]
      OBVIOUS
    <3>2. TimersOK(T, e, st) /\ st = "Peering"
      BY <1>1, <1>2, <1>3, <1>12, <3>1 DEF GroupOK
    <3>3. TimersOK(T, e, "Activating")
      BY <3>2 DEF TimersOK
    <3> QED
      BY <1>9, <1>11, <1>12, <3>1, <3>3
  <2>9. WorkOK(x.state[p], x.it, x.working, x.todo, l)
    BY <1>9, <1>11 DEF WorkOK, ActiveStates, BackfillStates
  <2>10. \A a \in l.replicas : PeerOK(x, l, a)
    BY <1>13 DEF PeersKept
  <2> QED
    BY <2>1, <2>2, <2>3, <2>5, <2>7, <2>8, <2>9, <2>10 DEF GroupOK
<1>15. ASSUME NEW a \in OSD
       PROVE  LocalKept(q, x, l, a) /\ RemoteKept(q, x, l, a)
  <2>1. LocalKept(q, x, l, a)
    <3> SUFFICES ASSUME NEW c \in Context, LocalOK(q, l, a, c) PROVE LocalOK(x, l, a, c)
      BY DEF LocalKept
    <3>1. a = p /\ p = l.primary /\ c.epoch # q.epoch[a]
      BY <1>1, <1>3 DEF LocalOK
    <3> QED
      BY <1>9, <3>1 DEF LocalOK
  <2>2. RemoteKept(q, x, l, a)
    BY <1>13 DEF RemoteKept, RemoteOK, PeersKept, Callback
  <2> QED
    BY <2>1, <2>2
<1>16. PICK ps2 : Moved(pgs, g, x, ps2)
  BY DEF Moved
<1>17. ASSUME NEW a \in OSD
       PROVE  /\ Fits(local[a], LocalSet(lay, ps2, a), LocalHolding(lay, ps2, a))
              /\ Fits(remote[a], RemoteSet(lay, ps2, a), RemoteHolding(lay, ps2, a))
  <2>1. a = l.primary /\ q.state[a] \in LocalHolders => x.state[a] \in LocalHolders
    BY <1>1, <1>3 DEF LocalHolders
  <2>2. a \in l.replicas /\ q.state[a] \in RemoteHolders => x.state[a] \in RemoteHolders
    BY <1>3 DEF RemoteHolders
  <2>3. Fits(local[a], LocalSet(lay, ps2, a), LocalHolding(lay, ps2, a))
    <3>1. LocalKept(q, x, l, a) /\ l = lay[g] /\ q = pgs[g]
      BY <1>1, <1>15
    <3> QED
      BY <1>2, <1>16, <2>1, <3>1, LocalFits
  <2>4. Fits(remote[a], RemoteSet(lay, ps2, a), RemoteHolding(lay, ps2, a))
    <3>1. RemoteKept(q, x, l, a) /\ l = lay[g] /\ q = pgs[g]
      BY <1>1, <1>15
    <3> QED
      BY <1>2, <1>16, <2>2, <3>1, RemoteFits
  <2> QED
    BY <2>3, <2>4
<1>18. AllOK(ps2, local, remote)
  <2>1. GroupsOK(lay, ps2)
    BY <1>1, <1>2, <1>8, <1>14, <1>16, GroupsMove DEF AllOK
  <2> QED
    BY <1>2, <1>17, <2>1 DEF AllOK, LocalsOK, RemotesOK
<1>19. fulls' \in 0 .. MaxFull
  BY <1>3 DEF State
<1> QED
  BY <1>3, <1>16, <1>18, <1>19, ChangeStep

----------------------------------------------------------------------------
(* The initial states.                                                      *)
LEMMA FitsNew ==
  ASSUME NEW n \in Nat, NEW A, NEW H
  PROVE  Fits(NewReserver(n, 0), A, H)
<1>1. PICK r : r = NewReserver(n, 0)
  OBVIOUS
<1>2. /\ r.queues = [p \in Prio |-> <<>>] /\ r.in_progress = {} /\ r.res = [i \in Item |-> Nil]
      /\ r.preempt_by_prio = {} /\ r.f = <<>>
  BY <1>1 DEF NewReserver
<1>3. Elems(<<>>) = {} /\ Len(<<>>) = 0
  BY DEF Elems
<1>4. \A p \in Prio : r.queues[p] = <<>> /\ Elems(r.queues[p]) = {}
  BY <1>2, <1>3
<1>5. Queued(r) = {} /\ \A i \in Item : ~HasReservation(r, i)
  BY <1>2, <1>4 DEF Queued, HasReservation
<1>6. r \in Reserver
  <2>1. Nil \in Reservation
    BY ReservationsAssumption DEF Nil, Reservation, Prio
  <2>2. <<>> \in Seq(Item) /\ <<>> \in Seq(Context)
    OBVIOUS
  <2>3. [p \in Prio |-> <<>>] \in [Prio -> Seq(Item)] /\ [i \in Item |-> Nil] \in [Item -> Reservation]
    BY <2>1, <2>2
  <2> QED
    BY <1>1, <2>2, <2>3 DEF NewReserver, Reserver
<1>7. QueuesDistinct(r) /\ QueuesIndexed(r)
  <2>1. Distinct(<<>>)
    BY <1>3 DEF Distinct
  <2> QED
    BY <1>4, <2>1 DEF QueuesDistinct, QueuesIndexed
<1>8. PreemptIndexed(r)
  BY <1>2 DEF PreemptIndexed
<1>9. HoldsCallbacks(r)
  <2>1. \A i \in Item : r.res[i].grant = Null /\ r.res[i].preempt = Null
    BY <1>2 DEF Nil
  <2> QED
    BY <1>5, <2>1 DEF HoldsCallbacks
<1>10. Sound(r)
  BY <1>6, <1>7, <1>8, <1>9 DEF Sound
<1>11. Fits(r, A, H)
  BY <1>2, <1>3, <1>5, <1>10 DEF Fits
<1> QED
  BY <1>1, <1>11

LEMMA NewGroup ==
  ASSUME NEW l, IsLayout(l), l.todo \subseteq {"recovery", "backfill"}
  PROVE  NewPG(l) \in PGRecord /\ GroupOK(NewPG(l), l)
<1>1. PICK x, p : x = NewPG(l) /\ p = l.primary
  OBVIOUS
<1>2. /\ x.state = [o \in OSD |-> IF o = l.primary THEN "Peering" ELSE "Stray"]
      /\ x.epoch = [o \in OSD |-> 1] /\ x.interval = 1 /\ x.it = 0 /\ x.working = FALSE
      /\ x.timers = {} /\ x.scan = [o \in OSD |-> 0] /\ x.toReplica = [o \in OSD |-> <<>>]
      /\ x.toPrimary = [o \in OSD |-> <<>>] /\ x.own = [o \in OSD |-> <<>>] /\ x.todo = l.todo
  BY <1>1 DEF NewPG
<1>3. p \in OSD /\ l.replicas \subseteq OSD /\ p \notin l.replicas
  BY <1>1 DEF IsLayout
<1>4. Len(<<>>) = 0 /\ <<>> \in Seq(Event)
  OBVIOUS
<1>5. x \in PGRecord
  <2>1. 1 \in Interval /\ 0 \in 0 .. MaxInterval /\ 0 \in 0 .. MaxScans /\ 0 \in 0 .. Cardinality(OSD)
    BY RecoveryReservationAssumption, PeersAreFew DEF Interval
  <2>2. /\ [o \in OSD |-> IF o = l.primary THEN "Peering" ELSE "Stray"] \in [OSD -> States]
        /\ [o \in OSD |-> 1] \in [OSD -> Interval] /\ [o \in OSD |-> 0] \in [OSD -> 0 .. MaxInterval]
        /\ [o \in OSD |-> <<>>] \in [OSD -> Seq(Event)]
    BY <1>4, <2>1 DEF States
  <2> QED
    BY <1>1, <2>1, <2>2 DEF NewPG, PGRecord
<1>6. ASSUME NEW o \in l.replicas PROVE PeerOK(x, l, o)
  <2>1. /\ x.epoch[l.primary] = 1 /\ x.epoch[o] = 1 /\ x.state[o] = "Stray"
        /\ x.state[l.primary] = "Peering"
        /\ x.toReplica[o] = <<>> /\ x.toPrimary[o] = <<>>
    BY <1>1, <1>2, <1>3
  <2>2. View(x, l, o) = "peering"
    BY <2>1, ViewIs
  <2>3. PairOK("peering", 1, 1, "Stray", <<>>, <<>>)
    BY <1>4 DEF PairOK, EpochOK, MessagesOK, AnswersOK, HeldOK
  <2> QED
    BY <2>1, <2>2, <2>3 DEF PeerOK
<1>7. /\ \A o \in OSD : x.epoch[o] <= x.interval
      /\ OthersOK(x, l) /\ ScansOK(x, l)
  BY <1>2, <1>4 DEF OthersOK, ScansOK
<1>8. x.state[p] = "Peering" /\ x.own[p] = <<>> /\ x.timers = {} /\ x.working = FALSE
  BY <1>1, <1>2, <1>3
<1>9. /\ OwnOK(x.own[p], x.epoch[p], x.state[p], x.working, x.todo)
      /\ TimersOK(x.timers, x.epoch[p], x.state[p])
      /\ WorkOK(x.state[p], x.it, x.working, x.todo, l)
  BY <1>4, <1>8 DEF OwnOK, TimersOK, WorkOK, BackfillStates
<1>10. GroupOK(x, l)
  BY <1>1, <1>6, <1>7, <1>9 DEF GroupOK
<1> QED
  BY <1>1, <1>5, <1>10

LEMMA InitState == Init => State /\ ~crashed
<1> SUFFICES ASSUME Init PROVE State /\ ~crashed
  OBVIOUS
<1>1. lay \in Layouts /\ fulls = 0 /\ crashed = FALSE
  BY DEF Init
<1>2. ASSUME NEW g \in PG PROVE pgs[g] \in PGRecord /\ GroupOK(pgs[g], lay[g])
  <2>1. pgs[g] = NewPG(lay[g])
    BY DEF Init
  <2>2. PICK l : l = lay[g]
    OBVIOUS
  <2>3. IsLayout(l) /\ l.todo \subseteq {"recovery", "backfill"}
    BY <1>1, <2>2, LayoutIs
  <2> QED
    BY <2>1, <2>2, <2>3, NewGroup
<1>3. pgs \in [PG -> PGRecord] /\ GroupsOK(lay, pgs)
  <2>1. pgs \in [PG -> PGRecord]
    BY <1>2 DEF Init
  <2> QED
    BY <1>2, <2>1 DEF GroupsOK
<1>4. MaxBackfills \in Nat
  BY RecoveryReservationAssumption
<1>5. ASSUME NEW o \in OSD
      PROVE  /\ local[o] = NewReserver(MaxBackfills, 0) /\ remote[o] = NewReserver(MaxBackfills, 0)
             /\ \A A, H : Fits(local[o], A, H) /\ Fits(remote[o], A, H)
  <2>1. local[o] = NewReserver(MaxBackfills, 0) /\ remote[o] = NewReserver(MaxBackfills, 0)
    BY DEF Init
  <2> QED
    BY <1>4, <2>1, FitsNew
<1>6. NewReserver(MaxBackfills, 0) \in Reserver
  BY <1>4, FitsNew, FitsTypes
<1>7. local \in [OSD -> Reserver] /\ remote \in [OSD -> Reserver]
  BY <1>6 DEF Init
<1>8. LocalsOK(lay, pgs, local) /\ RemotesOK(lay, pgs, remote)
  BY <1>5 DEF LocalsOK, RemotesOK
<1>9. fulls \in 0 .. MaxFull
  BY <1>1, RecoveryReservationAssumption
<1> QED
  BY <1>1, <1>3, <1>7, <1>8, <1>9 DEF State, AllOK

----------------------------------------------------------------------------
(* Every step keeps State until a backfill is tried again too soon.         *)
LEMMA DeliverStep ==
  ASSUME State, NEW g \in PG, NEW o \in OSD, Deliver(g, o)
  PROVE  Kept
<1>1. CASE ToPrimary(g, o)
  BY <1>1, ToPrimaryStep
<1>2. CASE scan_digest(g, o)
  BY <1>2, ScanDigestStep
<1>3. ASSUME NEW full \in BOOLEAN, ToReplica(g, o, full) PROVE Kept
  BY <1>3, ToReplicaStep
<1>4. ASSUME NEW full \in BOOLEAN, Own(g, o, full) PROVE Kept
  <2>1. CASE o = Primary(g)
    BY <1>4, <2>1, OwnPrimaryStep
  <2>2. CASE o # Primary(g)
    BY <1>4, <2>2, OwnReplicaStep
  <2> QED
    BY <2>1, <2>2
<1>5. ASSUME NEW full \in BOOLEAN, do_scan(g, o, full) PROVE Kept
  BY <1>5, DoScanStep
<1> QED
  BY <1>1, <1>2, <1>3, <1>4, <1>5 DEF Deliver

LEMMA NextStep ==
  ASSUME State, Next, ~hasty'
  PROVE  Kept
<1>1. ASSUME NEW o \in OSD, Finish(o) PROVE Kept
  BY <1>1, FinishLocalStep, FinishRemoteStep DEF Finish
<1>2. ASSUME NEW g \in PG, NEW o \in OSD, Deliver(g, o) PROVE Kept
  BY <1>2, DeliverStep
<1>3. ASSUME NEW g \in PG, NEW o \in OSD, Reset(g, o) PROVE Kept
  BY <1>3, ResetPrimaryStep, ResetPeerStep
<1>4. ASSUME NEW g \in PG, Due(g) PROVE Kept
  BY <1>4, TimerStep DEF Due
<1>5. ASSUME NEW g \in PG, Work(g) PROVE Kept
  BY <1>5, LastObjectStep, StartRecoveryOpsStep, ActivateStep DEF Work
<1>6. ASSUME NEW g \in PG, NewInterval(g) PROVE Kept
  BY <1>6, NewIntervalStep
<1>7. ASSUME NEW g \in PG, NEW S \in (SUBSET lay[g].targets) \ {{}}, send_scan(g, S) PROVE Kept
  BY <1>7, SendScanStep
<1> QED
  BY <1>1, <1>2, <1>3, <1>4, <1>5, <1>6, <1>7 DEF Next, Progress

LEMMA KeptState ==
  ASSUME State, Kept
  PROVE  State'
<1>1. /\ lay' = lay /\ lay \in Layouts /\ GroupsOK(lay, pgs')
      /\ local' \in [OSD -> Reserver] /\ LocalsOK(lay, pgs', local')
      /\ remote' \in [OSD -> Reserver] /\ RemotesOK(lay, pgs', remote')
      /\ fulls' \in 0 .. MaxFull /\ crashed' \in BOOLEAN
  BY DEF Kept, AllOK
<1>2. pgs' \in [PG -> PGRecord]
  BY <1>1 DEF GroupsOK
<1> QED
  BY <1>1, <1>2 DEF State, AllOK

LEMMA SameState ==
  ASSUME State, UNCHANGED vars
  PROVE  State'
BY DEF State, AllOK, vars

(* What happened once has happened.                                         *)
LEMMA HastyStays ==
  ASSUME [Next]_vars, hasty
  PROVE  hasty'
<1>1. ASSUME NEW o \in OSD, Finish(o) PROVE hasty'
  BY <1>1 DEF Finish, FinishLocal, FinishRemote
<1>2. ASSUME NEW g \in PG, NEW x, Change(g, x) PROVE hasty'
  BY <1>2 DEF Change
<1>3. ASSUME NEW g \in PG, NEW o \in OSD, Deliver(g, o) PROVE hasty'
  BY <1>2, <1>3 DEF Deliver, ToPrimary, scan_digest, ToReplica, Own, do_scan
<1>4. ASSUME NEW g \in PG, NEW o \in OSD, Reset(g, o) PROVE hasty'
  BY <1>4 DEF Reset
<1>5. ASSUME NEW g \in PG, Due(g) PROVE hasty'
  BY <1>5 DEF Due, Timer
<1>6. ASSUME NEW g \in PG, Work(g) PROVE hasty'
  BY <1>2, <1>6 DEF Work, LastObject, start_recovery_ops, Activate
<1>7. ASSUME NEW g \in PG, NewInterval(g) \/ \E S : send_scan(g, S) PROVE hasty'
  BY <1>2, <1>7 DEF NewInterval, send_scan
<1>8. CASE Next
  BY <1>1, <1>3, <1>4, <1>5, <1>6, <1>7, <1>8 DEF Next, Progress
<1>9. CASE UNCHANGED vars
  BY <1>9 DEF vars
<1> QED
  BY <1>8, <1>9

(* State holds until a backfill is tried again too soon.                    *)
LEMMA StateInductive == Spec => [](hasty \/ State)
<1>1. Init => hasty \/ State
  BY InitState
<1>2. (hasty \/ State) /\ [Next]_vars => (hasty \/ State)'
  <2> SUFFICES ASSUME State, [Next]_vars, ~hasty' PROVE State'
    BY HastyStays
  <2>1. CASE Next
    BY <2>1, NextStep, KeptState
  <2>2. CASE UNCHANGED vars
    BY <2>2, SameState
  <2> QED
    BY <2>1, <2>2
<1> QED
  BY <1>1, <1>2, PTL DEF Spec

----------------------------------------------------------------------------
(* Types and slots, whatever the timers do.  The reserver r is consistent   *)
(* and only groups of H have a reservation.                                 *)
Tidy(r, H) == Sound(r) /\ \A i \in Item : HasReservation(r, i) => i \in H

LEMMA TidyPreempt ==
  ASSUME NEW s, NEW H, Tidy(s, H), s.preempt_by_prio # {}
  PROVE  Tidy(preempt_one(s), H)
<1> DEFINE t == preempt_one(s)
<1>1. Sound(t) /\ t.queues = s.queues /\ \E v \in s.in_progress : t.in_progress = s.in_progress \ {v}
  BY PreemptOne DEF Tidy
<1> HIDE DEF t
<1>2. \A i \in Item : HasReservation(t, i) => HasReservation(s, i)
  BY <1>1 DEF HasReservation, Queued
<1>3. Tidy(t, H)
  BY <1>1, <1>2 DEF Tidy
<1> QED
  BY <1>3 DEF t

LEMMA TidyGrant ==
  ASSUME NEW s, NEW H, Tidy(s, H), Waiting(s) # {}
  PROVE  Tidy(grant(s), H)
<1> DEFINE t == grant(s)
<1>1. Sound(t) /\ \E i \in Queued(s) : Queued(t) = Queued(s) \ {i} /\ t.in_progress = s.in_progress \cup {i}
  BY Grant DEF Tidy
<1> HIDE DEF t
<1>2. \A i \in Item : HasReservation(t, i) => HasReservation(s, i)
  BY <1>1 DEF HasReservation
<1>3. Tidy(t, H)
  BY <1>1, <1>2 DEF Tidy
<1> QED
  BY <1>3 DEF t

LEMMA TidyShed ==
  ASSUME NEW s, NEW H, Tidy(s, H)
  PROVE  Tidy(shed(s), H)
BY TidyPreempt DEF shed, MustShed

LEMMA TidyServe ==
  ASSUME NEW s, NEW H, Tidy(s, H)
  PROVE  Tidy(serve(s), H)
<1> DEFINE t == IF Outranked(s) THEN preempt_one(s) ELSE s
<1>1. Tidy(t, H)
  BY TidyPreempt DEF Outranked
<1>2. MayServe(s) => Waiting(t) # {}
  <2>1. Outranked(s) => preempt_one(s).queues = s.queues
    BY PreemptOne DEF Outranked, Tidy
  <2> QED
    BY <2>1 DEF MayServe, Waiting
<1> HIDE DEF t
<1>3. MayServe(s) => Tidy(grant(t), H)
  BY <1>1, <1>2, TidyGrant
<1>4. serve(s) = IF ~MayServe(s) THEN s ELSE IF Full(t) THEN t ELSE grant(t)
  BY DEF serve, t
<1> QED
  BY <1>1, <1>3, <1>4

LEMMA TidyDoShed ==
  ASSUME NEW r, NEW H, Tidy(r, H)
  PROVE  Tidy(do_shed(r), H)
<1> DEFINE f == CHOOSE s : Shedding(r, s, Rounds)
<1>1. Shedding(r, f, Rounds)
  BY RoundsIs, SheddingExists
<1>2. do_shed(r) = f[Rounds]
  BY DEF do_shed, Shedding
<1> HIDE DEF f
<1>3. \A k \in 0 .. Rounds : f[k] = IF k = 0 THEN r ELSE shed(f[k - 1])
  BY <1>1, RoundsIs DEF Shedding
<1> DEFINE T == {k \in 0 .. Rounds : ~Tidy(f[k], H)}
<1>4. SUFFICES ASSUME T # {} PROVE FALSE
  BY <1>2, RoundsIs
<1> HIDE DEF T
<1>5. PICK m \in T : \A x \in T : m <= x
  <2>1. T \in SUBSET Nat
    BY RoundsIs DEF T
  <2> QED
    BY <1>4, <2>1, NatMin
<1>6. m # 0 /\ m - 1 \in 0 .. Rounds /\ m - 1 \notin T
  BY <1>3, <1>5, RoundsIs DEF T
<1>7. Tidy(shed(f[m - 1]), H)
  BY <1>6, TidyShed DEF T
<1> QED
  BY <1>3, <1>5, <1>6, <1>7 DEF T

LEMMA TidyDoServe ==
  ASSUME NEW r, NEW H, Tidy(r, H)
  PROVE  Tidy(do_serve(r), H)
<1> DEFINE f == CHOOSE s : Serving(r, s, Rounds)
<1>1. Serving(r, f, Rounds)
  BY RoundsIs, ServingExists
<1>2. do_serve(r) = f[Rounds]
  BY DEF do_serve, Serving
<1> HIDE DEF f
<1>3. \A k \in 0 .. Rounds : f[k] = IF k = 0 THEN r ELSE serve(f[k - 1])
  BY <1>1, RoundsIs DEF Serving
<1> DEFINE T == {k \in 0 .. Rounds : ~Tidy(f[k], H)}
<1>4. SUFFICES ASSUME T # {} PROVE FALSE
  BY <1>2, RoundsIs
<1> HIDE DEF T
<1>5. PICK m \in T : \A x \in T : m <= x
  <2>1. T \in SUBSET Nat
    BY RoundsIs DEF T
  <2> QED
    BY <1>4, <2>1, NatMin
<1>6. m # 0 /\ m - 1 \in 0 .. Rounds /\ m - 1 \notin T
  BY <1>3, <1>5, RoundsIs DEF T
<1>7. Tidy(serve(f[m - 1]), H)
  BY <1>6, TidyServe DEF T
<1> QED
  BY <1>3, <1>5, <1>6, <1>7 DEF T

LEMMA TidyDoQueues ==
  ASSUME NEW r, NEW H, Tidy(r, H)
  PROVE  Tidy(do_queues(r), H)
BY TidyDoShed, TidyDoServe DEF do_queues

LEMMA TidyMore ==
  ASSUME NEW r, NEW H, NEW J, Tidy(r, H), \A i \in H : i \in J
  PROVE  Tidy(r, J)
BY DEF Tidy

LEMMA TidyRequest ==
  ASSUME NEW s, NEW H, Tidy(s, H), NEW i \in Item, ~HasReservation(s, i),
         NEW c \in Context, NEW p \in Prio, NEW d \in Context
  PROVE  Tidy(do_queues(request_reservation(s, i, c, p, d)), H \cup {i})
<1> DEFINE t == request_reservation(s, i, c, p, d)
<1>0. Sound(s)
  BY DEF Tidy
<1>1. /\ Sound(t)
      /\ Queued(t) = Queued(s) \cup {i}
      /\ t.in_progress = s.in_progress
      /\ t.res = [s.res EXCEPT ![i] = [prio |-> p, grant |-> c, preempt |-> d]]
      /\ t.f = s.f
  BY <1>0, RequestReservation
<1> HIDE DEF t
<1>2. \A j \in Item : HasReservation(t, j) => j = i \/ HasReservation(s, j)
  BY <1>1 DEF HasReservation
<1>3. Tidy(t, H \cup {i})
  BY <1>1, <1>2 DEF Tidy
<1> QED
  BY <1>3, TidyDoQueues DEF t

LEMMA TidyCancel ==
  ASSUME NEW s, NEW H, Tidy(s, H), NEW i \in Item
  PROVE  Tidy(do_queues(cancel_reservation(s, i)), H \ {i})
<1> DEFINE t == cancel_reservation(s, i)
<1>1. Sound(t) /\ Queued(t) = Queued(s) \ {i} /\ t.in_progress = s.in_progress \ {i}
  BY CancelReservation DEF Tidy
<1> HIDE DEF t
<1>2. \A j \in Item : HasReservation(t, j) => j # i /\ HasReservation(s, j)
  BY <1>1 DEF HasReservation
<1>3. Tidy(t, H \ {i})
  BY <1>1, <1>2 DEF Tidy
<1> QED
  BY <1>3, TidyDoQueues DEF t

LEMMA TidyFinish ==
  ASSUME NEW s, NEW H, Tidy(s, H), s.f # <<>>
  PROVE  Head(s.f) \in Context /\ Tidy([s EXCEPT !.f = Tail(@)], H)
<1> DEFINE t == [s EXCEPT !.f = Tail(@)]
<1>1. s \in Reserver /\ s.f \in Seq(Context)
  BY SoundTypes DEF Tidy, Sound
<1>2. Head(s.f) \in Context /\ Tail(s.f) \in Seq(Context)
  BY <1>1, TailElems
<1>3. /\ t \in Reserver /\ t.queues = s.queues /\ t.in_progress = s.in_progress
      /\ t.res = s.res /\ t.preempt_by_prio = s.preempt_by_prio
  BY <1>1, <1>2 DEF Reserver
<1> HIDE DEF t
<1>4. Queued(t) = Queued(s)
  BY <1>3 DEF Queued
<1>5. \A i \in Item : HasReservation(t, i) <=> HasReservation(s, i)
  BY <1>3, <1>4 DEF HasReservation
<1>6. QueuesDistinct(t) /\ QueuesIndexed(t)
  BY <1>3 DEF Tidy, Sound, QueuesDistinct, QueuesIndexed
<1>7. PreemptIndexed(t)
  BY <1>3 DEF Tidy, Sound, PreemptIndexed
<1>8. HoldsCallbacks(t)
  BY <1>3, <1>4, <1>5 DEF Tidy, Sound, HoldsCallbacks
<1>9. Tidy(t, H)
  BY <1>3, <1>5, <1>6, <1>7, <1>8 DEF Tidy, Sound
<1> QED
  BY <1>2, <1>9 DEF t

----------------------------------------------------------------------------
(* A handler of group g on o works on w: the state of g elsewhere is as it  *)
(* was, and the reservers hold nothing new but for g.  b is {g} when g may  *)
(* have a local reservation and {} when not; c: the same for a remote one.  *)
Mine(H, g, b) == {i \in H : i # g} \cup b

Kits == [p : PGRecord, l : Reserver, r : Reserver, bad : BOOLEAN]

Kit(w, g, o, b, c) ==
    /\ w \in Kits
    /\ b \subseteq {g} /\ c \subseteq {g}
    /\ \A a \in OSD : a # o => w.p.state[a] = pgs[g].state[a]
    /\ Tidy(w.l, Mine(LocalHolding(lay, pgs, o), g, b))
    /\ Tidy(w.r, Mine(RemoteHolding(lay, pgs, o), g, c))

LEMMA KitIs ==
  ASSUME NEW w, NEW g, NEW o, NEW b, NEW c, Kit(w, g, o, b, c)
  PROVE  w \in Kits /\ w.p \in PGRecord /\ w.bad \in BOOLEAN
BY DEF Kit, Kits

(* The handler changes the group, and not its state elsewhere.              *)
LEMMA KitGroup ==
  ASSUME NEW w, NEW g, NEW o \in OSD, NEW b, NEW c, Kit(w, g, o, b, c),
         NEW y \in PGRecord, \A a \in OSD : a # o => y.state[a] = w.p.state[a],
         NEW x, x = [w EXCEPT !.p = y]
  PROVE  Kit(x, g, o, b, c) /\ x.p = y /\ x.bad = w.bad
<1>1. x \in Kits /\ x.p = y /\ x.l = w.l /\ x.r = w.r /\ x.bad = w.bad
  BY DEF Kit, Kits
<1> QED
  BY <1>1 DEF Kit

LEMMA KitTo ==
  ASSUME NEW w, NEW g, NEW o \in OSD, NEW b, NEW c, Kit(w, g, o, b, c), NEW s \in States
  PROVE  Kit(To(w, o, s), g, o, b, c) /\ To(w, o, s).p.state[o] = s
<1> DEFINE y == [w.p EXCEPT !.state = [w.p.state EXCEPT ![o] = s]]
<1>1. w.p \in PGRecord
  BY KitIs
<1>2. y \in PGRecord /\ y.state[o] = s /\ \A a \in OSD : a # o => y.state[a] = w.p.state[a]
  BY <1>1 DEF PGRecord
<1>3. To(w, o, s) = [w EXCEPT !.p = y]
  BY DEF To
<1> HIDE DEF y
<1> QED
  BY <1>2, <1>3, KitGroup

LEMMA KitTell ==
  ASSUME NEW w, NEW g, NEW o \in OSD, NEW b, NEW c, Kit(w, g, o, b, c), NEW S, NEW ev \in Events
  PROVE  /\ Kit(Tell(w, S, ev, o), g, o, b, c)
         /\ Tell(w, S, ev, o).p.state = w.p.state /\ Tell(w, S, ev, o).p.it = w.p.it
<1>1. w.p \in PGRecord
  BY KitIs
<1> DEFINE m == [ev |-> ev, epoch |-> w.p.epoch[o]]
           M == w.p.toReplica
           N == Told(M, S, m)
           y == [w.p EXCEPT !.toReplica = N]
<1>2. m \in Event /\ M \in [OSD -> Seq(Event)]
  BY <1>1 DEF PGRecord, Event
<1>3. N \in [OSD -> Seq(Event)]
  <2> HIDE DEF m, M
  <2> QED
    BY <1>2, ToldIs
<1>4. Tell(w, S, ev, o) = [w EXCEPT !.p = y]
  BY DEF Tell, Told
<1> HIDE DEF N
<1>5. y \in PGRecord /\ y.state = w.p.state /\ y.it = w.p.it
  BY <1>1, <1>3 DEF PGRecord
<1> HIDE DEF y
<1> QED
  BY <1>4, <1>5, KitGroup

LEMMA KitReply ==
  ASSUME NEW w, NEW g, NEW o \in OSD, NEW b, NEW c, Kit(w, g, o, b, c), NEW ev \in Events
  PROVE  Kit(Reply(w, o, ev), g, o, b, c) /\ Reply(w, o, ev).p.state = w.p.state
<1>1. w.p \in PGRecord
  BY KitIs
<1> DEFINE m == [ev |-> ev, epoch |-> w.p.epoch[o]]
           K == Append(w.p.toPrimary[o], m)
           y == [w.p EXCEPT !.toPrimary = [w.p.toPrimary EXCEPT ![o] = K]]
<1>2. m \in Event /\ w.p.toPrimary \in [OSD -> Seq(Event)]
  BY <1>1 DEF PGRecord, Event
<1>3. K \in Seq(Event)
  BY <1>2, AppendIs
<1>4. Reply(w, o, ev) = [w EXCEPT !.p = y]
  BY DEF Reply
<1> HIDE DEF K
<1>5. y \in PGRecord /\ y.state = w.p.state
  BY <1>1, <1>3 DEF PGRecord
<1> HIDE DEF y
<1> QED
  BY <1>4, <1>5, KitGroup

LEMMA KitSchedule ==
  ASSUME NEW w, NEW g, NEW o \in OSD, NEW b, NEW c, Kit(w, g, o, b, c),
         NEW ev \in {"DoRecovery", "RequestBackfill"}, NEW delay \in {"none", "retry"}
  PROVE  /\ Kit(schedule_event_after(w, o, ev, delay), g, o, b, c)
         /\ schedule_event_after(w, o, ev, delay).p.state = w.p.state
<1>1. w.p \in PGRecord
  BY KitIs
<1> DEFINE T == w.p.timers \cup {[ev |-> ev, epoch |-> w.p.epoch[o], delay |-> delay]}
           y == [w.p EXCEPT !.timers = T]
<1>2. schedule_event_after(w, o, ev, delay) = [w EXCEPT !.p = y]
  BY DEF schedule_event_after
<1>3. T \in SUBSET [ev : {"DoRecovery", "RequestBackfill"}, epoch : Interval, delay : {"none", "retry"}]
  BY <1>1 DEF PGRecord
<1> HIDE DEF T
<1>4. y \in PGRecord /\ y.state = w.p.state
  BY <1>1, <1>3 DEF PGRecord
<1> HIDE DEF y
<1> QED
  BY <1>2, <1>4, KitGroup

LEMMA KitLeave ==
  ASSUME NEW w, NEW g, NEW o \in OSD, NEW b, NEW c, Kit(w, g, o, b, c), NEW s \in States
  PROVE  Kit(Leave(w, o, s), g, o, b, c) /\ Leave(w, o, s).p.state[o] = s
<1> DEFINE v == To(w, o, s)
           y == [v.p EXCEPT !.it = 0, !.working = FALSE]
<1>0. Kit(v, g, o, b, c) /\ v.p.state[o] = s
  BY KitTo
<1>2. Leave(w, o, s) = [v EXCEPT !.p.it = 0, !.p.working = FALSE]
  BY DEF Leave
<1> HIDE DEF v
<1>1. Kit(v, g, o, b, c) /\ v.p.state[o] = s /\ v \in Kits /\ v.p \in PGRecord
  BY <1>0, KitIs
<1>3. Leave(w, o, s) = [v EXCEPT !.p = y]
  BY <1>1, <1>2 DEF Kits
<1>4. y \in PGRecord /\ y.state = v.p.state
  <2>1. 0 \in 0 .. Cardinality(OSD)
    BY PeersAreFew
  <2> QED
    BY <1>1, <2>1 DEF PGRecord
<1> HIDE DEF y
<1> QED
  BY <1>1, <1>3, <1>4, KitGroup

Idle(w) == [w EXCEPT !.p.waiting_on_backfill = {}]

Works(w) == [w EXCEPT !.p.working = TRUE]

At(w, k) == [w EXCEPT !.p.it = k]

LEMMA KitIdle ==
  ASSUME NEW w, NEW g, NEW o \in OSD, NEW b, NEW c, Kit(w, g, o, b, c)
  PROVE  Kit(Idle(w), g, o, b, c) /\ Idle(w).p.state = w.p.state
<1> DEFINE x == Idle(w)
           y == [w.p EXCEPT !.waiting_on_backfill = {}]
<1>1. w.p \in PGRecord
  BY KitIs
<1>2. x = [w EXCEPT !.p = y]
  BY DEF Idle
<1>3. y \in PGRecord /\ y.state = w.p.state
  BY <1>1 DEF PGRecord
<1> HIDE DEF x, y
<1>4. Kit(x, g, o, b, c) /\ x.p = y
  BY ONLY Kit(w, g, o, b, c), o \in OSD, <1>2, <1>3, KitGroup
<1> QED
  BY <1>3, <1>4 DEF x

LEMMA KitWorks ==
  ASSUME NEW w, NEW g, NEW o \in OSD, NEW b, NEW c, Kit(w, g, o, b, c)
  PROVE  Kit(Works(w), g, o, b, c) /\ Works(w).p.state = w.p.state
<1> DEFINE x == Works(w)
           y == [w.p EXCEPT !.working = TRUE]
<1>1. w.p \in PGRecord
  BY KitIs
<1>2. x = [w EXCEPT !.p = y]
  BY DEF Works
<1>3. y \in PGRecord /\ y.state = w.p.state
  BY <1>1 DEF PGRecord
<1> HIDE DEF x, y
<1>4. Kit(x, g, o, b, c) /\ x.p = y
  BY ONLY Kit(w, g, o, b, c), o \in OSD, <1>2, <1>3, KitGroup
<1> QED
  BY <1>3, <1>4 DEF x

LEMMA KitAt ==
  ASSUME NEW w, NEW g, NEW o \in OSD, NEW b, NEW c, Kit(w, g, o, b, c), NEW k,
         k \in 0 .. Cardinality(OSD)
  PROVE  Kit(At(w, k), g, o, b, c) /\ At(w, k).p.state = w.p.state /\ At(w, k).p.it = k
<1> DEFINE x == At(w, k)
           y == [w.p EXCEPT !.it = k]
<1>1. w.p \in PGRecord
  BY KitIs
<1>2. x = [w EXCEPT !.p = y]
  BY DEF At
<1>3. y \in PGRecord /\ y.state = w.p.state /\ y.it = k
  BY <1>1 DEF PGRecord
<1> HIDE DEF x, y
<1>4. Kit(x, g, o, b, c) /\ x.p = y
  BY ONLY Kit(w, g, o, b, c), o \in OSD, <1>2, <1>3, KitGroup
<1> QED
  BY <1>3, <1>4 DEF x

LEMMA KitAsserts ==
  ASSUME NEW w, NEW g, NEW o \in OSD, NEW b, NEW c, Kit(w, g, o, b, c), NEW P
  PROVE  Kit(Asserts(w, P), g, o, b, c) /\ Asserts(w, P).p = w.p
<1> DEFINE x == Asserts(w, P)
<1>1. x \in Kits /\ x.p = w.p /\ x.l = w.l /\ x.r = w.r
  BY DEF Kit, Kits, Asserts
<1> HIDE DEF x
<1>2. Kit(x, g, o, b, c)
  BY <1>1 DEF Kit
<1> QED
  BY <1>1, <1>2 DEF x

LEMMA MineIs ==
  ASSUME NEW H, NEW g, NEW b, NEW d, b \subseteq d, b \subseteq {g}
  PROVE  /\ \A i \in Mine(H, g, b) : i \in Mine(H, g, d)
         /\ \A i \in Mine(H, g, b) \cup {g} : i \in Mine(H, g, {g})
         /\ \A i \in Mine(H, g, b) \ {g} : i \in Mine(H, g, {})
BY DEF Mine

LEMMA KitMore ==
  ASSUME NEW w, NEW g, NEW o, NEW b, NEW c, Kit(w, g, o, b, c),
         NEW d, NEW e, b \subseteq d, c \subseteq e, d \subseteq {g}, e \subseteq {g}
  PROVE  Kit(w, g, o, d, e)
<1>1. Tidy(w.l, Mine(LocalHolding(lay, pgs, o), g, d))
  <2>1. \A i \in Mine(LocalHolding(lay, pgs, o), g, b) : i \in Mine(LocalHolding(lay, pgs, o), g, d)
    BY DEF Mine
  <2> QED
    BY <2>1, TidyMore DEF Kit
<1>2. Tidy(w.r, Mine(RemoteHolding(lay, pgs, o), g, e))
  <2>1. \A i \in Mine(RemoteHolding(lay, pgs, o), g, c) : i \in Mine(RemoteHolding(lay, pgs, o), g, e)
    BY DEF Mine
  <2> QED
    BY <2>1, TidyMore DEF Kit
<1> QED
  BY <1>1, <1>2 DEF Kit

(* The handler changes a reserver.                                          *)
LEMMA KitLocal ==
  ASSUME NEW w, NEW g, NEW o, NEW b, NEW c, Kit(w, g, o, b, c), NEW d, d \subseteq {g},
         NEW l, Tidy(l, Mine(LocalHolding(lay, pgs, o), g, d)), NEW x, x = [w EXCEPT !.l = l]
  PROVE  Kit(x, g, o, d, c) /\ x.p = w.p
<1>1. l \in Reserver
  BY DEF Tidy, Sound
<1>2. x \in Kits /\ x.p = w.p /\ x.l = l /\ x.r = w.r
  BY <1>1 DEF Kit, Kits
<1> QED
  BY <1>2 DEF Kit

LEMMA KitRemote ==
  ASSUME NEW w, NEW g, NEW o, NEW b, NEW c, Kit(w, g, o, b, c), NEW d, d \subseteq {g},
         NEW r, Tidy(r, Mine(RemoteHolding(lay, pgs, o), g, d)), NEW x, x = [w EXCEPT !.r = r]
  PROVE  Kit(x, g, o, b, d) /\ x.p = w.p
<1>1. r \in Reserver
  BY DEF Tidy, Sound
<1>2. x \in Kits /\ x.p = w.p /\ x.l = w.l /\ x.r = r
  BY <1>1 DEF Kit, Kits
<1> QED
  BY <1>2 DEF Kit

LEMMA KitBad ==
  ASSUME NEW w, NEW g, NEW o, NEW b, NEW c, Kit(w, g, o, b, c), NEW x, x = [w EXCEPT !.bad = TRUE]
  PROVE  Kit(x, g, o, b, c) /\ x.p = w.p
<1>1. x \in Kits /\ x.p = w.p /\ x.l = w.l /\ x.r = w.r
  BY DEF Kit, Kits
<1> QED
  BY <1>1 DEF Kit

LEMMA CallbackIs ==
  ASSUME NEW w, NEW g \in PG, NEW o \in OSD, NEW b, NEW c, Kit(w, g, o, b, c), NEW ev \in Events
  PROVE  [pg |-> g, ev |-> ev, epoch |-> w.p.epoch[o]] \in Context
<1>1. w.p \in PGRecord
  BY KitIs
<1>2. w.p.epoch[o] \in Interval
  BY <1>1 DEF PGRecord
<1> QED
  BY <1>2, RecoveryReservationAssumption

LEMMA KitRequestLocal ==
  ASSUME NEW w, NEW g \in PG, NEW o \in OSD, NEW b, NEW c, Kit(w, g, o, b, c), NEW prio \in Prio,
         NEW d \in Events, NEW e \in Events
  PROVE  /\ Kit(request_local(w, g, o, prio, d, e), g, o, {g}, c)
         /\ request_local(w, g, o, prio, d, e).p = w.p
<1> DEFINE C == [pg |-> g, ev |-> d, epoch |-> w.p.epoch[o]]
           D == [pg |-> g, ev |-> e, epoch |-> w.p.epoch[o]]
           l == do_queues(request_reservation(w.l, g, C, prio, D))
           x == request_local(w, g, o, prio, d, e)
<1>1. C \in Context /\ D \in Context /\ g \in Item
  BY CallbackIs DEF PG
<1>2. x = IF HasReservation(w.l, g) THEN [w EXCEPT !.bad = TRUE] ELSE [w EXCEPT !.l = l]
  BY DEF request_local
<1> HIDE DEF C, D
<1>3. CASE HasReservation(w.l, g)
  <2>1. Kit(w, g, o, {g}, c)
    <3>1. b \subseteq {g} /\ c \subseteq {g}
      BY DEF Kit
    <3> QED
      BY <3>1, KitMore
  <2> QED
    BY <1>2, <1>3, <2>1, KitBad
<1>4. CASE ~HasReservation(w.l, g)
  <2>1. PICK H : H = Mine(LocalHolding(lay, pgs, o), g, b)
    OBVIOUS
  <2>2. Tidy(w.l, H) /\ b \subseteq {g} /\ c \subseteq {g}
    BY <2>1 DEF Kit
  <2>3. Tidy(l, H \cup {g})
    BY <1>1, <1>4, <2>2, TidyRequest
  <2> HIDE DEF l
  <2>4. Tidy(l, Mine(LocalHolding(lay, pgs, o), g, {g}))
    BY <2>1, <2>2, <2>3, MineIs, TidyMore
  <2> HIDE DEF x
  <2>5. x = [w EXCEPT !.l = l]
    BY <1>2, <1>4
  <2>6. Kit(x, g, o, {g}, c) /\ x.p = w.p
    BY <2>4, <2>5, KitLocal
  <2> QED
    BY <2>6 DEF x
<1> QED
  BY <1>3, <1>4

LEMMA KitRequestRemote ==
  ASSUME NEW w, NEW g \in PG, NEW o \in OSD, NEW b, NEW c, Kit(w, g, o, b, c), NEW prio \in Prio,
         NEW d \in Events, NEW e \in Events
  PROVE  /\ Kit(request_remote(w, g, o, prio, d, e), g, o, b, {g})
         /\ request_remote(w, g, o, prio, d, e).p = w.p
<1> DEFINE C == [pg |-> g, ev |-> d, epoch |-> w.p.epoch[o]]
           D == [pg |-> g, ev |-> e, epoch |-> w.p.epoch[o]]
           r == do_queues(request_reservation(w.r, g, C, prio, D))
           x == request_remote(w, g, o, prio, d, e)
<1>1. C \in Context /\ D \in Context /\ g \in Item
  BY CallbackIs DEF PG
<1>2. x = IF HasReservation(w.r, g) THEN [w EXCEPT !.bad = TRUE] ELSE [w EXCEPT !.r = r]
  BY DEF request_remote
<1> HIDE DEF C, D
<1>3. CASE HasReservation(w.r, g)
  <2>1. Kit(w, g, o, b, {g})
    <3>1. b \subseteq {g} /\ c \subseteq {g}
      BY DEF Kit
    <3> QED
      BY <3>1, KitMore
  <2> QED
    BY <1>2, <1>3, <2>1, KitBad
<1>4. CASE ~HasReservation(w.r, g)
  <2>1. PICK H : H = Mine(RemoteHolding(lay, pgs, o), g, c)
    OBVIOUS
  <2>2. Tidy(w.r, H) /\ b \subseteq {g} /\ c \subseteq {g}
    BY <2>1 DEF Kit
  <2>3. Tidy(r, H \cup {g})
    BY <1>1, <1>4, <2>2, TidyRequest
  <2> HIDE DEF r
  <2>4. Tidy(r, Mine(RemoteHolding(lay, pgs, o), g, {g}))
    BY <2>1, <2>2, <2>3, MineIs, TidyMore
  <2> HIDE DEF x
  <2>5. x = [w EXCEPT !.r = r]
    BY <1>2, <1>4
  <2>6. Kit(x, g, o, b, {g}) /\ x.p = w.p
    BY <2>4, <2>5, KitRemote
  <2> QED
    BY <2>6 DEF x
<1> QED
  BY <1>3, <1>4

LEMMA KitCancelLocal ==
  ASSUME NEW w, NEW g \in PG, NEW o \in OSD, NEW b, NEW c, Kit(w, g, o, b, c)
  PROVE  Kit(cancel_local(w, g), g, o, {}, c) /\ cancel_local(w, g).p = w.p
<1> DEFINE l == do_queues(cancel_reservation(w.l, g))
           x == cancel_local(w, g)
<1>1. x = [w EXCEPT !.l = l]
  BY DEF cancel_local
<1>2. PICK H : H = Mine(LocalHolding(lay, pgs, o), g, b)
  OBVIOUS
<1>3. Tidy(w.l, H) /\ b \subseteq {g} /\ c \subseteq {g}
  BY <1>2 DEF Kit
<1>4. Tidy(l, H \ {g})
  BY <1>3, TidyCancel DEF PG
<1> HIDE DEF l, x
<1>5. Tidy(l, Mine(LocalHolding(lay, pgs, o), g, {}))
  BY <1>2, <1>3, <1>4, MineIs, TidyMore
<1>6. Kit(x, g, o, {}, c) /\ x.p = w.p
  BY <1>1, <1>5, KitLocal
<1> QED
  BY <1>6 DEF x

LEMMA KitCancelRemote ==
  ASSUME NEW w, NEW g \in PG, NEW o \in OSD, NEW b, NEW c, Kit(w, g, o, b, c)
  PROVE  Kit(cancel_remote(w, g), g, o, b, {}) /\ cancel_remote(w, g).p = w.p
<1> DEFINE r == do_queues(cancel_reservation(w.r, g))
           x == cancel_remote(w, g)
<1>1. x = [w EXCEPT !.r = r]
  BY DEF cancel_remote
<1>2. PICK H : H = Mine(RemoteHolding(lay, pgs, o), g, c)
  OBVIOUS
<1>3. Tidy(w.r, H) /\ b \subseteq {g} /\ c \subseteq {g}
  BY <1>2 DEF Kit
<1>4. Tidy(r, H \ {g})
  BY <1>3, TidyCancel DEF PG
<1> HIDE DEF r, x
<1>5. Tidy(r, Mine(RemoteHolding(lay, pgs, o), g, {}))
  BY <1>2, <1>3, <1>4, MineIs, TidyMore
<1>6. Kit(x, g, o, b, {}) /\ x.p = w.p
  BY <1>1, <1>5, KitRemote
<1> QED
  BY <1>6 DEF x

----------------------------------------------------------------------------
(* The reactions.  At their end g has a reservation only in a state that    *)
(* releases it.                                                             *)
Ends(x, g, o) ==
    \E b, c : /\ Kit(x, g, o, b, c)
              /\ b # {} => IsPrimary(g, o) /\ x.p.state[o] \in LocalHolders
              /\ c # {} => o \in lay[g].replicas /\ x.p.state[o] \in RemoteHolders

LEMMA EndsIdle ==
  ASSUME NEW x, NEW g, NEW o, Kit(x, g, o, {}, {})
  PROVE  Ends(x, g, o)
BY DEF Ends

LEMMA EndsLocal ==
  ASSUME NEW x, NEW g, NEW o, NEW b, Kit(x, g, o, b, {}), IsPrimary(g, o), x.p.state[o] \in LocalHolders
  PROVE  Ends(x, g, o)
BY DEF Ends

LEMMA EndsRemote ==
  ASSUME NEW x, NEW g, NEW o, NEW c, Kit(x, g, o, {}, c), o \in lay[g].replicas,
         x.p.state[o] \in RemoteHolders
  PROVE  Ends(x, g, o)
BY DEF Ends

LEMMA KitWaitLocal ==
  ASSUME NEW w, NEW g \in PG, NEW o \in OSD, NEW b, Kit(w, g, o, b, {}), IsPrimary(g, o),
         lay[g].backfill \in Prio
  PROVE  Ends(WaitLocalBackfillReserved(w, g, o), g, o)
<1>1. PICK v : v = To(w, o, "WaitLocalBackfillReserved")
  OBVIOUS
<1>2. Kit(v, g, o, b, {}) /\ v.p.state[o] = "WaitLocalBackfillReserved"
  BY <1>1, KitTo DEF States
<1>3. PICK x : x = request_local(v, g, o, lay[g].backfill, "LocalBackfillReserved", "DeferBackfill")
  OBVIOUS
<1>4. "LocalBackfillReserved" \in Events /\ "DeferBackfill" \in Events
  BY DEF Events
<1>5. Kit(x, g, o, {g}, {}) /\ x.p = v.p
  BY <1>2, <1>3, <1>4, KitRequestLocal
<1>6. Ends(x, g, o)
  BY <1>2, <1>5, EndsLocal DEF LocalHolders
<1> QED
  BY <1>1, <1>3, <1>6 DEF WaitLocalBackfillReserved

LEMMA KitWaitLocalRecovery ==
  ASSUME NEW w, NEW g \in PG, NEW o \in OSD, Kit(w, g, o, {}, {}), IsPrimary(g, o),
         lay[g].recovery \in Prio, NEW full
  PROVE  Ends(WaitLocalRecoveryReserved(w, g, o, full), g, o)
<1>1. CASE full
  <2>1. PICK v : v = To(w, o, "NotRecovering")
    OBVIOUS
  <2>2. Kit(v, g, o, {}, {})
    BY <2>1, KitTo DEF States
  <2>3. Kit(schedule_event_after(v, o, "DoRecovery", "retry"), g, o, {}, {})
    BY <2>2, KitSchedule
  <2> QED
    BY <1>1, <2>1, <2>3, EndsIdle DEF WaitLocalRecoveryReserved
<1>2. CASE ~full
  <2>1. PICK v : v = To(w, o, "WaitLocalRecoveryReserved")
    OBVIOUS
  <2>2. Kit(v, g, o, {}, {}) /\ v.p.state[o] = "WaitLocalRecoveryReserved"
    BY <2>1, KitTo DEF States
  <2>3. PICK x : x = request_local(v, g, o, lay[g].recovery, "LocalRecoveryReserved", "DeferRecovery")
    OBVIOUS
  <2>4. "LocalRecoveryReserved" \in Events /\ "DeferRecovery" \in Events
    BY DEF Events
  <2>5. Kit(x, g, o, {g}, {}) /\ x.p = v.p
    BY <2>2, <2>3, <2>4, KitRequestLocal
  <2>6. Ends(x, g, o)
    BY <2>2, <2>5, EndsLocal DEF LocalHolders
  <2> QED
    BY <1>2, <2>1, <2>3, <2>6 DEF WaitLocalRecoveryReserved
<1> QED
  BY <1>1, <1>2

LEMMA KitAskNext ==
  ASSUME NEW w, NEW g \in PG, NEW o \in OSD, NEW b, Kit(w, g, o, b, {}), IsPrimary(g, o),
         IsLayout(lay[g]), NEW kind, w.p.state[o] \in LocalHolders
  PROVE  Ends(AskNext(w, g, o, kind), g, o)
<1>1. PICK peers : peers = Remotes(g, kind)
  OBVIOUS
<1>2. Len(peers) \in 0 .. Cardinality(OSD) /\ Cardinality(OSD) \in Nat
  <2>1. peers = Peers(lay[g], kind)
    BY <1>1 DEF Peers, Remotes
  <2> QED
    BY <2>1, PeersIs
<1>3. w.p.it \in 0 .. Cardinality(OSD)
  BY KitIs DEF PGRecord
<1>4. CASE w.p.it < Len(peers)
  <2>1. PICK ev : ev = (IF kind = "recovery" THEN "RequestRecoveryPrio" ELSE "RequestBackfillPrio")
    OBVIOUS
  <2>2. ev \in Events
    BY <2>1 DEF Events
  <2>3. PICK v : v = Tell(w, {peers[w.p.it + 1]}, ev, o)
    OBVIOUS
  <2>4. Kit(v, g, o, b, {}) /\ v.p.state = w.p.state /\ v.p.it = w.p.it
    BY <2>2, <2>3, KitTell
  <2>5. PICK k : k = v.p.it + 1
    OBVIOUS
  <2>6. k \in 0 .. Cardinality(OSD)
    BY <1>2, <1>3, <1>4, <2>4, <2>5
  <2>7. PICK x : x = At(v, k)
    OBVIOUS
  <2>8. Kit(x, g, o, b, {}) /\ x.p.state = v.p.state
    BY ONLY o \in OSD, <2>4, <2>6, <2>7, KitAt
  <2>9. AskNext(w, g, o, kind) = x
    BY <1>1, <1>4, <2>1, <2>3, <2>5, <2>7 DEF AskNext, At, Works
  <2> QED
    BY <2>4, <2>8, <2>9, EndsLocal
<1>5. CASE ~(w.p.it < Len(peers))
  <2>1. PICK s : s = (IF kind = "recovery" THEN "Recovering" ELSE "Backfilling")
    OBVIOUS
  <2>2. s \in States /\ s \in LocalHolders
    BY <2>1 DEF States, LocalHolders
  <2>3. PICK v : v = To(w, o, s)
    OBVIOUS
  <2>4. Kit(v, g, o, b, {}) /\ v.p.state[o] = s
    BY <2>2, <2>3, KitTo
  <2>5. PICK x : x = Works(v)
    OBVIOUS
  <2>6. Kit(x, g, o, b, {}) /\ x.p.state = v.p.state
    <3>1. PICK c : c = {}
      OBVIOUS
    <3>2. Kit(v, g, o, b, c)
      BY <2>4, <3>1
    <3>3. Kit(x, g, o, b, c) /\ x.p.state = v.p.state
      BY ONLY o \in OSD, <2>5, <3>2, KitWorks
    <3> QED
      BY <3>1, <3>3
  <2>7. AskNext(w, g, o, kind) = x
    BY <1>1, <1>5, <2>1, <2>3, <2>5 DEF AskNext, At, Works
  <2> QED
    BY <2>2, <2>4, <2>6, <2>7, EndsLocal
<1> QED
  BY <1>4, <1>5

LEMMA KitWaitRemote ==
  ASSUME NEW w, NEW g \in PG, NEW o \in OSD, NEW b, Kit(w, g, o, b, {}), IsPrimary(g, o),
         IsLayout(lay[g]), NEW kind
  PROVE  Ends(WaitRemoteReserved(w, g, o, kind), g, o)
<1>1. PICK s : s = (IF kind = "recovery" THEN "WaitRemoteRecoveryReserved" ELSE "WaitRemoteBackfillReserved")
  OBVIOUS
<1>2. s \in States /\ s \in LocalHolders
  BY <1>1 DEF States, LocalHolders
<1>3. PICK v : v = To(w, o, s)
  OBVIOUS
<1>4. Kit(v, g, o, b, {}) /\ v.p.state[o] = s
  BY <1>2, <1>3, KitTo
<1>5. PICK x : x = At(v, 0)
  OBVIOUS
<1>6. 0 \in 0 .. Cardinality(OSD)
  BY PeersAreFew
<1>7. Kit(x, g, o, b, {}) /\ x.p.state = v.p.state
  <2>1. PICK k : k = 0
    OBVIOUS
  <2>2. k \in 0 .. Cardinality(OSD) /\ x = At(v, k)
    BY <1>5, <1>6, <2>1
  <2> QED
    BY ONLY o \in OSD, <1>4, <2>2, KitAt
<1>8. WaitRemoteReserved(w, g, o, kind) = AskNext(x, g, o, kind)
  BY <1>1, <1>3, <1>5 DEF WaitRemoteReserved, At
<1> QED
  BY <1>2, <1>4, <1>7, <1>8, KitAskNext

LEMMA KitRelease ==
  ASSUME NEW w, NEW g \in PG, NEW o \in OSD, NEW b, NEW c, Kit(w, g, o, b, c)
  PROVE  Kit(release_reservations(w, g, o), g, o, b, c)
BY KitTell DEF release_reservations, Events

LEMMA KitBackfillRelease ==
  ASSUME NEW w, NEW g \in PG, NEW o \in OSD, NEW b, NEW c, Kit(w, g, o, b, c)
  PROVE  Kit(backfill_release_reservations(w, g, o), g, o, {}, c)
<1>1. PICK v : v = cancel_local(w, g)
  OBVIOUS
<1>2. Kit(v, g, o, {}, c)
  BY <1>1, KitCancelLocal
<1>3. "RemoteReservationCanceled" \in Events
  BY DEF Events
<1>4. Kit(Tell(v, lay[g].targets, "RemoteReservationCanceled", o), g, o, {}, c)
  BY <1>2, <1>3, KitTell
<1> QED
  BY <1>1, <1>4 DEF backfill_release_reservations

LEMMA KitCancelBackfill ==
  ASSUME NEW w, NEW g \in PG, NEW o \in OSD, NEW b, NEW c, Kit(w, g, o, b, c)
  PROVE  Kit(cancel_backfill(w, g, o), g, o, {}, c)
<1>1. PICK v : v = backfill_release_reservations(w, g, o)
  OBVIOUS
<1>2. Kit(v, g, o, {}, c)
  BY <1>1, KitBackfillRelease
<1>3. Kit(Idle(v), g, o, {}, c)
  BY <1>2, KitIdle
<1> QED
  BY <1>1, <1>3 DEF cancel_backfill, Idle

LEMMA KitRetry ==
  ASSUME NEW w, NEW g \in PG, NEW o \in OSD, NEW b, NEW c, Kit(w, g, o, b, c)
  PROVE  Kit(retry(w, g, o), g, o, {}, c)
<1>1. PICK v : v = cancel_local(w, g)
  OBVIOUS
<1>2. Kit(v, g, o, {}, c)
  BY <1>1, KitCancelLocal
<1>3. "RemoteReservationCanceled" \in Events
  BY DEF Events
<1>4. PICK S : S = {Remotes(g, "backfill")[k] : k \in 1 .. w.p.it}
  OBVIOUS
<1>5. PICK u : u = Tell(v, S, "RemoteReservationCanceled", o)
  OBVIOUS
<1>6. Kit(u, g, o, {}, c)
  BY <1>2, <1>3, <1>5, KitTell
<1>7. Kit(schedule_event_after(u, o, "RequestBackfill", "retry"), g, o, {}, c)
  BY <1>6, KitSchedule
<1> QED
  BY <1>1, <1>4, <1>5, <1>7 DEF retry

LEMMA KitRecovered ==
  ASSUME NEW w, NEW g \in PG, NEW o \in OSD, Kit(w, g, o, {}, {})
  PROVE  Ends(Recovered(w, o), g, o)
<1>1. PICK v : v = Leave(w, o, "Clean")
  OBVIOUS
<1>2. Kit(v, g, o, {}, {})
  BY <1>1, KitLeave DEF States
<1>3. PICK P : P = ~Needs(w, "recovery")
  OBVIOUS
<1>4. Kit(Asserts(v, P), g, o, {}, {})
  BY <1>2, KitAsserts
<1>5. Asserts(v, ~Needs(w, "recovery")) = Asserts(v, P)
  BY <1>3
<1> QED
  BY <1>1, <1>4, <1>5, EndsIdle DEF Recovered

(* What an event does to the primary.                                       *)
LEMMA PrimaryCases ==
  ASSUME NEW w, NEW g, NEW o, NEW ev, NEW full, NEW s, s = w.p.state[o],
         NEW x, x = Primary_react(w, g, o, ev, full)
  PROVE  \/ s \in {"Activating", "NotRecovering", "Clean"} /\ x = WaitLocalRecoveryReserved(w, g, o, full)
         \/ s = "WaitLocalRecoveryReserved" /\ x = WaitRemoteReserved(w, g, o, "recovery")
         \/ s = "WaitRemoteRecoveryReserved" /\ x = AskNext(w, g, o, "recovery")
         \/ s = "Activating" /\ x = Recovered(w, o)
         \/ s = "Recovering" /\ x = Recovered(cancel_local(release_reservations(w, g, o), g), o)
         \/ s = "Recovering" /\ x = WaitLocalBackfillReserved(
                Asserts(Leave(cancel_local(release_reservations(w, g, o), g), o, s),
                        ~Needs(w, "recovery")), g, o)
         \/ s = "Recovering" /\ x = w
         \/ s = "Recovering" /\ x = schedule_event_after(
                Leave(release_reservations(cancel_local(w, g), g, o), o, "NotRecovering"),
                o, "DoRecovery", "none")
         \/ s \in {"Activating", "NotBackfilling"} /\ x = WaitLocalBackfillReserved(w, g, o)
         \/ s = "WaitLocalBackfillReserved" /\ x = WaitRemoteReserved(w, g, o, "backfill")
         \/ s = "WaitRemoteBackfillReserved" /\ x = AskNext(w, g, o, "backfill")
         \/ s = "WaitRemoteBackfillReserved" /\ x = Leave(retry(w, g, o), o, "NotBackfilling")
         \/ s = "Backfilling" /\ x = Recovered(backfill_release_reservations(w, g, o), o)
         \/ /\ s = "Backfilling"
            /\ \E d \in {"none", "retry"} : x = schedule_event_after(
                   Leave(cancel_backfill(w, g, o), o, "NotBackfilling"), o, "RequestBackfill", d)
         \/ s = "Backfilling" /\ x = WaitLocalBackfillReserved(
                Leave(cancel_backfill(w, g, o), o, s), g, o)
         \/ s = "Backfilling" /\ x = cancel_backfill(w, g, o)
         \/ x = Asserts(w, <<s, ev>> \in Discarded)
<1>1. CASE ev = "DoRecovery"
  BY <1>1 DEF Primary_react
<1>2. CASE ev = "LocalRecoveryReserved"
  BY <1>2 DEF Primary_react
<1>3. CASE ev = "RemoteRecoveryReserved"
  BY <1>3 DEF Primary_react
<1>4. CASE ev = "AllReplicasRecovered"
  BY <1>4 DEF Primary_react
<1>5. CASE ev = "RequestBackfill"
  BY <1>5 DEF Primary_react
<1>6. CASE ev = "DeferRecovery"
  BY <1>6 DEF Primary_react
<1>7. CASE ev = "LocalBackfillReserved"
  BY <1>7 DEF Primary_react
<1>8. CASE ev = "RemoteBackfillReserved"
  BY <1>8 DEF Primary_react
<1>9. CASE ev = "RemoteReservationRejectedTooFull"
  BY <1>9 DEF Primary_react
<1>10. CASE ev = "RemoteReservationRevoked"
  BY <1>10 DEF Primary_react
<1>11. CASE ev = "Backfilled"
  BY <1>11 DEF Primary_react
<1>12. CASE ev = "DeferBackfill"
  BY <1>12 DEF Primary_react
<1>13. CASE ev = "RemoteReservationRevokedTooFull"
  BY <1>13 DEF Primary_react
<1>14. CASE ev \notin {"DoRecovery", "LocalRecoveryReserved", "RemoteRecoveryReserved", "AllReplicasRecovered", "RequestBackfill", "DeferRecovery", "LocalBackfillReserved", "RemoteBackfillReserved", "RemoteReservationRejectedTooFull", "RemoteReservationRevoked", "Backfilled", "DeferBackfill", "RemoteReservationRevokedTooFull"}
  BY <1>14 DEF Primary_react
<1> QED
  BY <1>1, <1>2, <1>3, <1>4, <1>5, <1>6, <1>7, <1>8, <1>9, <1>10, <1>11, <1>12, <1>13, <1>14

(* What an event does to a peer.                                            *)
LEMMA ReplicaCases ==
  ASSUME NEW w, NEW g, NEW o, NEW ev, NEW full, NEW s, s = w.p.state[o],
         NEW x, x = Replica_react(w, g, o, ev, full)
  PROVE  \/ s = "RepNotRecovering" /\ x = request_remote(To(w, o, "RepWaitRecoveryReserved"), g, o,
                lay[g].recovery, "RemoteRecoveryReserved", "RemoteRecoveryPreempted")
         \/ s = "RepNotRecovering" /\ x = cancel_remote(Reply(w, o, "RemoteReservationRejectedTooFull"), g)
         \/ s = "RepNotRecovering" /\ x = request_remote(To(w, o, "RepWaitBackfillReserved"), g, o,
                lay[g].backfill, "RemoteBackfillReserved", "RemoteBackfillPreempted")
         \/ s = "RepWaitRecoveryReserved" /\ x = Reply(To(w, o, "RepRecovering"), o, "RemoteRecoveryReserved")
         \/ s = "RepWaitBackfillReserved" /\ x = Reply(To(w, o, "RepRecovering"), o, "RemoteBackfillReserved")
         \/ s \in RemoteHolders /\ x = cancel_remote(To(w, o, "RepNotRecovering"), g)
         \/ /\ s = "RepRecovering"
            /\ \E d \in {"DeferRecovery", "RemoteReservationRevoked", "RemoteReservationRevokedTooFull"} :
                   x = Reply(w, o, d)
         \/ x = Asserts(w, <<s, ev>> \in Discarded)
BY DEF Replica_react, RemoteHolders

LEMMA EndsAsserts ==
  ASSUME NEW w, NEW g \in PG, NEW o \in OSD, Ends(w, g, o), NEW P
  PROVE  Ends(Asserts(w, P), g, o)
<1>1. PICK b, c : /\ Kit(w, g, o, b, c)
                  /\ b # {} => IsPrimary(g, o) /\ w.p.state[o] \in LocalHolders
                  /\ c # {} => o \in lay[g].replicas /\ w.p.state[o] \in RemoteHolders
  BY DEF Ends
<1>2. PICK x : x = Asserts(w, P)
  OBVIOUS
<1>3. Kit(x, g, o, b, c) /\ x.p = w.p
  BY <1>1, <1>2, KitAsserts
<1>4. Ends(x, g, o)
  BY <1>1, <1>3 DEF Ends
<1> QED
  BY <1>2, <1>4

LEMMA PrimaryEnds ==
  ASSUME NEW w, NEW g \in PG, NEW o \in OSD, Ends(w, g, o), IsPrimary(g, o),
         IsLayout(lay[g]), NEW ev, NEW full
  PROVE  Ends(Primary_react(w, g, o, ev, full), g, o)
<1>1. PICK x : x = Primary_react(w, g, o, ev, full)
  OBVIOUS
<1>2. PICK s : s = w.p.state[o]
  OBVIOUS
<1>3. lay[g].recovery \in Prio /\ lay[g].backfill \in Prio /\ o \notin lay[g].replicas
  BY DEF IsLayout, IsPrimary, Primary
<1>4. PICK b : Kit(w, g, o, b, {}) /\ (b # {} => s \in LocalHolders)
  BY <1>2, <1>3 DEF Ends
<1>5. s \notin LocalHolders => Kit(w, g, o, {}, {})
  BY <1>4
<1>6. ASSUME s \in {"Activating", "NotRecovering", "Clean"}, x = WaitLocalRecoveryReserved(w, g, o, full)
      PROVE  Ends(x, g, o)
  <2>1. Kit(w, g, o, {}, {})
    BY <1>5, <1>6 DEF LocalHolders
  <2> QED
    BY <1>3, <1>6, <2>1, KitWaitLocalRecovery
<1>7. ASSUME NEW k, x = WaitRemoteReserved(w, g, o, k)
      PROVE  Ends(x, g, o)
  BY <1>4, <1>7, KitWaitRemote
<1>8. ASSUME s \in LocalHolders, NEW k, x = AskNext(w, g, o, k)
      PROVE  Ends(x, g, o)
  BY <1>2, <1>4, <1>8, KitAskNext
<1>9. ASSUME s = "Activating", x = Recovered(w, o)
      PROVE  Ends(x, g, o)
  <2>1. Kit(w, g, o, {}, {})
    BY <1>5, <1>9 DEF LocalHolders
  <2> QED
    BY <1>9, <2>1, KitRecovered
<1>10. PICK v : v = cancel_local(release_reservations(w, g, o), g)
  OBVIOUS
<1>11. Kit(v, g, o, {}, {})
  <2>1. PICK u : u = release_reservations(w, g, o)
    OBVIOUS
  <2>2. Kit(u, g, o, b, {})
    BY <1>4, <2>1, KitRelease
  <2> QED
    BY <1>10, <2>1, <2>2, KitCancelLocal
<1>12. ASSUME x = Recovered(v, o)
       PROVE  Ends(x, g, o)
  BY <1>11, <1>12, KitRecovered
<1>13. ASSUME s = "Recovering",
              x = WaitLocalBackfillReserved(Asserts(Leave(v, o, s), ~Needs(w, "recovery")), g, o)
       PROVE  Ends(x, g, o)
  <2>0. PICK P : P = ~Needs(w, "recovery")
    OBVIOUS
  <2>1. PICK u : u = Leave(v, o, s)
    OBVIOUS
  <2>2. Kit(u, g, o, {}, {})
    BY <1>11, <1>13, <2>1, KitLeave DEF States
  <2>3. PICK y : y = Asserts(u, P)
    OBVIOUS
  <2>4. Kit(y, g, o, {}, {})
    BY <2>2, <2>3, KitAsserts
  <2>5. x = WaitLocalBackfillReserved(y, g, o)
    BY <1>13, <2>0, <2>1, <2>3
  <2> QED
    BY <1>3, <2>4, <2>5, KitWaitLocal
<1>14. ASSUME x = schedule_event_after(
                Leave(release_reservations(cancel_local(w, g), g, o), o, "NotRecovering"),
                o, "DoRecovery", "none")
       PROVE  Ends(x, g, o)
  <2>1. PICK u : u = cancel_local(w, g)
    OBVIOUS
  <2>2. Kit(u, g, o, {}, {})
    BY <1>4, <2>1, KitCancelLocal
  <2>3. PICK y : y = release_reservations(u, g, o)
    OBVIOUS
  <2>4. Kit(y, g, o, {}, {})
    BY <2>2, <2>3, KitRelease
  <2>5. PICK z : z = Leave(y, o, "NotRecovering")
    OBVIOUS
  <2>6. Kit(z, g, o, {}, {})
    BY <2>4, <2>5, KitLeave DEF States
  <2>7. Kit(schedule_event_after(z, o, "DoRecovery", "none"), g, o, {}, {})
    BY <2>6, KitSchedule
  <2> QED
    BY <1>14, <2>1, <2>3, <2>5, <2>7, EndsIdle
<1>15. ASSUME x = WaitLocalBackfillReserved(w, g, o)
       PROVE  Ends(x, g, o)
  BY <1>3, <1>4, <1>15, KitWaitLocal
<1>16. ASSUME x = Leave(retry(w, g, o), o, "NotBackfilling")
       PROVE  Ends(x, g, o)
  <2>1. PICK u : u = retry(w, g, o)
    OBVIOUS
  <2>2. Kit(u, g, o, {}, {})
    BY <1>4, <2>1, KitRetry
  <2>3. Kit(Leave(u, o, "NotBackfilling"), g, o, {}, {})
    BY <2>2, KitLeave DEF States
  <2> QED
    BY <1>16, <2>1, <2>3, EndsIdle
<1>17. ASSUME x = Recovered(backfill_release_reservations(w, g, o), o)
       PROVE  Ends(x, g, o)
  <2>1. PICK u : u = backfill_release_reservations(w, g, o)
    OBVIOUS
  <2>2. Kit(u, g, o, {}, {})
    BY <1>4, <2>1, KitBackfillRelease
  <2> QED
    BY <1>17, <2>1, <2>2, KitRecovered
<1>18. PICK y : y = cancel_backfill(w, g, o)
  OBVIOUS
<1>19. Kit(y, g, o, {}, {})
  BY <1>4, <1>18, KitCancelBackfill
<1>20. ASSUME NEW d \in {"none", "retry"},
              x = schedule_event_after(Leave(y, o, "NotBackfilling"), o, "RequestBackfill", d)
       PROVE  Ends(x, g, o)
  <2>1. PICK u : u = Leave(y, o, "NotBackfilling")
    OBVIOUS
  <2>2. Kit(u, g, o, {}, {})
    BY <1>19, <2>1, KitLeave DEF States
  <2>3. Kit(schedule_event_after(u, o, "RequestBackfill", d), g, o, {}, {})
    BY <2>2, KitSchedule
  <2> QED
    BY <1>20, <2>1, <2>3, EndsIdle
<1>21. ASSUME s = "Backfilling", x = WaitLocalBackfillReserved(Leave(y, o, s), g, o)
       PROVE  Ends(x, g, o)
  <2>1. PICK u : u = Leave(y, o, s)
    OBVIOUS
  <2>2. Kit(u, g, o, {}, {})
    BY <1>19, <1>21, <2>1, KitLeave DEF States
  <2> QED
    BY <1>3, <1>21, <2>1, <2>2, KitWaitLocal
<1>22. ASSUME x = y
       PROVE  Ends(x, g, o)
  BY <1>19, <1>22, EndsIdle
<1>23. ASSUME x = Asserts(w, <<s, ev>> \in Discarded)
       PROVE  Ends(x, g, o)
  <2>1. PICK P : P = (<<s, ev>> \in Discarded)
    OBVIOUS
  <2>2. x = Asserts(w, P)
    BY <1>23, <2>1
  <2> QED
    BY <2>2, EndsAsserts
<1>24. \/ s \in {"Activating", "NotRecovering", "Clean"} /\ x = WaitLocalRecoveryReserved(w, g, o, full)
       \/ \E k : x = WaitRemoteReserved(w, g, o, k)
       \/ s \in LocalHolders /\ \E k : x = AskNext(w, g, o, k)
       \/ s = "Activating" /\ x = Recovered(w, o)
       \/ x = Recovered(v, o)
       \/ s = "Recovering" /\ x = WaitLocalBackfillReserved(Asserts(Leave(v, o, s), ~Needs(w, "recovery")), g, o)
       \/ x = w
       \/ x = schedule_event_after(
                Leave(release_reservations(cancel_local(w, g), g, o), o, "NotRecovering"),
                o, "DoRecovery", "none")
       \/ x = WaitLocalBackfillReserved(w, g, o)
       \/ x = Leave(retry(w, g, o), o, "NotBackfilling")
       \/ x = Recovered(backfill_release_reservations(w, g, o), o)
       \/ \E d \in {"none", "retry"} : x = schedule_event_after(
                   Leave(y, o, "NotBackfilling"), o, "RequestBackfill", d)
       \/ s = "Backfilling" /\ x = WaitLocalBackfillReserved(Leave(y, o, s), g, o)
       \/ x = y
       \/ x = Asserts(w, <<s, ev>> \in Discarded)
  BY <1>1, <1>2, <1>10, <1>18, PrimaryCases DEF LocalHolders
<1> QED
  BY <1>1, <1>6, <1>7, <1>8, <1>9, <1>12, <1>13, <1>14, <1>15, <1>16, <1>17, <1>20, <1>21, <1>22,
     <1>23, <1>24

LEMMA ReplicaEnds ==
  ASSUME NEW w, NEW g \in PG, NEW o \in OSD, Ends(w, g, o), ~IsPrimary(g, o),
         IsLayout(lay[g]), o \notin lay[g].replicas => w.p.state[o] = "Stray", NEW ev, NEW full
  PROVE  Ends(Replica_react(w, g, o, ev, full), g, o)
<1>1. PICK x : x = Replica_react(w, g, o, ev, full)
  OBVIOUS
<1>2. PICK s : s = w.p.state[o]
  OBVIOUS
<1>3. lay[g].recovery \in Prio /\ lay[g].backfill \in Prio
  BY DEF IsLayout
<1>4. PICK c : Kit(w, g, o, {}, c) /\ (c # {} => s \in RemoteHolders)
  BY <1>2 DEF Ends
<1>5. ASSUME s = "RepNotRecovering", NEW t \in RemoteHolders, NEW prio \in Prio,
             NEW d \in Events, NEW e \in Events, x = request_remote(To(w, o, t), g, o, prio, d, e)
      PROVE  Ends(x, g, o)
  <2>1. PICK v : v = To(w, o, t)
    OBVIOUS
  <2>2. Kit(v, g, o, {}, c) /\ v.p.state[o] = t
    BY <1>4, <2>1, KitTo DEF States, RemoteHolders
  <2>3. x = request_remote(v, g, o, prio, d, e)
    BY <1>5, <2>1
  <2>4. Kit(x, g, o, {}, {g}) /\ x.p = v.p
    BY <2>2, <2>3, KitRequestRemote
  <2>5. o \in lay[g].replicas
    BY <1>2, <1>5
  <2> QED
    BY <2>2, <2>4, <2>5, EndsRemote
<1>6. ASSUME NEW v, Kit(v, g, o, {}, c), x = cancel_remote(v, g)
      PROVE  Ends(x, g, o)
  <2>1. Kit(x, g, o, {}, {})
    BY <1>6, KitCancelRemote
  <2> QED
    BY <2>1, EndsIdle
<1>7. ASSUME NEW v, Kit(v, g, o, {}, c), v.p.state[o] \in RemoteHolders, NEW d \in Events, x = Reply(v, o, d),
             s \in RemoteHolders
      PROVE  Ends(x, g, o)
  <2>1. Kit(x, g, o, {}, c) /\ x.p.state = v.p.state
    BY <1>7, KitReply
  <2>2. o \in lay[g].replicas
    BY <1>2, <1>7 DEF RemoteHolders
  <2> QED
    BY <1>7, <2>1, <2>2, EndsRemote
<1>8. ASSUME x = Asserts(w, <<s, ev>> \in Discarded)
      PROVE  Ends(x, g, o)
  <2>1. PICK P : P = (<<s, ev>> \in Discarded)
    OBVIOUS
  <2>2. x = Asserts(w, P)
    BY <1>8, <2>1
  <2> QED
    BY <2>2, EndsAsserts
<1>9. ASSUME s = "RepNotRecovering"
      PROVE  /\ x = request_remote(To(w, o, "RepWaitRecoveryReserved"), g, o, lay[g].recovery,
                                   "RemoteRecoveryReserved", "RemoteRecoveryPreempted") => Ends(x, g, o)
             /\ x = request_remote(To(w, o, "RepWaitBackfillReserved"), g, o, lay[g].backfill,
                                   "RemoteBackfillReserved", "RemoteBackfillPreempted") => Ends(x, g, o)
  <2>1. /\ "RemoteRecoveryReserved" \in Events /\ "RemoteRecoveryPreempted" \in Events
        /\ "RemoteBackfillReserved" \in Events /\ "RemoteBackfillPreempted" \in Events
        /\ "RepWaitRecoveryReserved" \in RemoteHolders /\ "RepWaitBackfillReserved" \in RemoteHolders
    BY DEF Events, RemoteHolders
  <2> QED
    BY <1>3, <1>5, <1>9, <2>1
<1>10. CASE x = cancel_remote(Reply(w, o, "RemoteReservationRejectedTooFull"), g)
  <2>1. PICK v : v = Reply(w, o, "RemoteReservationRejectedTooFull")
    OBVIOUS
  <2>2. Kit(v, g, o, {}, c)
    BY <1>4, <2>1, KitReply DEF Events
  <2> QED
    BY <1>1, <1>6, <1>10, <2>1, <2>2
<1>11. CASE x = cancel_remote(To(w, o, "RepNotRecovering"), g)
  <2>1. PICK v : v = To(w, o, "RepNotRecovering")
    OBVIOUS
  <2>2. Kit(v, g, o, {}, c)
    BY <1>4, <2>1, KitTo DEF States
  <2> QED
    BY <1>1, <1>6, <1>11, <2>1, <2>2
<1>12. CASE /\ s \in RemoteHolders
            /\ \E d \in {"RemoteRecoveryReserved", "RemoteBackfillReserved"} :
                   x = Reply(To(w, o, "RepRecovering"), o, d)
  <2>1. PICK v : v = To(w, o, "RepRecovering")
    OBVIOUS
  <2>2. Kit(v, g, o, {}, c) /\ v.p.state[o] \in RemoteHolders
    BY <1>4, <2>1, KitTo DEF States, RemoteHolders
  <2>3. PICK d \in {"RemoteRecoveryReserved", "RemoteBackfillReserved"} : x = Reply(v, o, d)
    BY <1>12, <2>1
  <2>4. d \in Events
    BY <2>3 DEF Events
  <2> QED
    BY <1>1, <1>7, <1>12, <2>2, <2>3, <2>4
<1>13. CASE /\ s = "RepRecovering"
            /\ \E d \in {"DeferRecovery", "RemoteReservationRevoked", "RemoteReservationRevokedTooFull"} :
                   x = Reply(w, o, d)
  <2>1. PICK d \in {"DeferRecovery", "RemoteReservationRevoked", "RemoteReservationRevokedTooFull"} :
           x = Reply(w, o, d)
    BY <1>13
  <2>2. d \in Events /\ w.p.state[o] \in RemoteHolders
    BY <1>2, <1>13, <2>1 DEF Events, RemoteHolders
  <2> QED
    BY <1>1, <1>2, <1>4, <1>7, <2>1, <2>2
<1>14. \/ /\ s = "RepNotRecovering"
          /\ \/ x = request_remote(To(w, o, "RepWaitRecoveryReserved"), g, o, lay[g].recovery,
                                   "RemoteRecoveryReserved", "RemoteRecoveryPreempted")
             \/ x = request_remote(To(w, o, "RepWaitBackfillReserved"), g, o, lay[g].backfill,
                                   "RemoteBackfillReserved", "RemoteBackfillPreempted")
       \/ x = cancel_remote(Reply(w, o, "RemoteReservationRejectedTooFull"), g)
       \/ x = cancel_remote(To(w, o, "RepNotRecovering"), g)
       \/ /\ s \in RemoteHolders
          /\ \E d \in {"RemoteRecoveryReserved", "RemoteBackfillReserved"} :
                   x = Reply(To(w, o, "RepRecovering"), o, d)
       \/ /\ s = "RepRecovering"
          /\ \E d \in {"DeferRecovery", "RemoteReservationRevoked", "RemoteReservationRevokedTooFull"} :
                   x = Reply(w, o, d)
       \/ x = Asserts(w, <<s, ev>> \in Discarded)
  BY <1>1, <1>2, ReplicaCases DEF RemoteHolders
<1> QED
  BY <1>1, <1>8, <1>9, <1>10, <1>11, <1>12, <1>13, <1>14

(* The instance on an OSD outside of the group stays where it is.           *)
LEMMA StrayStays ==
  ASSUME NEW w, NEW g, NEW o \in OSD, Ends(w, g, o), w.p.state[o] = "Stray", NEW ev, NEW full
  PROVE  Replica_react(w, g, o, ev, full).p.state[o] = "Stray"
<1>1. PICK x : x = Replica_react(w, g, o, ev, full)
  OBVIOUS
<1>2. PICK P : P = (<<w.p.state[o], ev>> \in Discarded)
  OBVIOUS
<1>3. x = Asserts(w, <<w.p.state[o], ev>> \in Discarded)
  BY <1>1, ReplicaCases DEF RemoteHolders
<1>4. x = Asserts(w, P)
  BY <1>2, <1>3
<1>5. PICK b, c : Kit(w, g, o, b, c)
  BY DEF Ends
<1>6. x.p = w.p
  BY <1>4, <1>5, KitAsserts
<1> QED
  BY <1>1, <1>6

----------------------------------------------------------------------------
(* What holds however soon a backfill is tried again.                       *)
Outsider(ly, g, o) == o # ly[g].primary /\ o \notin ly[g].replicas

Slots(ly, ps, lo, re) ==
    \A o \in OSD : Tidy(lo[o], LocalHolding(ly, ps, o)) /\ Tidy(re[o], RemoteHolding(ly, ps, o))

Outside(ly, ps) == \A g \in PG, o \in OSD : Outsider(ly, g, o) => ps[g].state[o] = "Stray"

Light == TypeOK /\ Slots(lay, pgs, local, remote) /\ Outside(lay, pgs)

Put(f, k, v) == [f EXCEPT ![k] = v]

(* An event changes the group g and the reservers of o.                     *)
LEMMA LightEvent ==
  ASSUME Light, NEW g \in PG, NEW o \in OSD, NEW x, Ends(x, g, o),
         Outsider(lay, g, o) => x.p.state[o] = "Stray",
         NEW ps, ps = Put(pgs, g, x.p), NEW lo, lo = Put(local, o, x.l), NEW re, re = Put(remote, o, x.r)
  PROVE  /\ ps \in [PG -> PGRecord] /\ lo \in [OSD -> Reserver] /\ re \in [OSD -> Reserver]
         /\ Slots(lay, ps, lo, re) /\ Outside(lay, ps)
<1>1. /\ pgs \in [PG -> PGRecord] /\ local \in [OSD -> Reserver] /\ remote \in [OSD -> Reserver]
  BY DEF Light, TypeOK
<1>2. PICK b, c : /\ Kit(x, g, o, b, c)
                  /\ b # {} => IsPrimary(g, o) /\ x.p.state[o] \in LocalHolders
                  /\ c # {} => o \in lay[g].replicas /\ x.p.state[o] \in RemoteHolders
  BY DEF Ends
<1>3. /\ x.p \in PGRecord /\ x.l \in Reserver /\ x.r \in Reserver
      /\ b \subseteq {g} /\ c \subseteq {g}
      /\ \A a \in OSD : a # o => x.p.state[a] = pgs[g].state[a]
      /\ Tidy(x.l, Mine(LocalHolding(lay, pgs, o), g, b))
      /\ Tidy(x.r, Mine(RemoteHolding(lay, pgs, o), g, c))
  BY <1>2 DEF Kit, Kits
<1>4. ps \in [PG -> PGRecord] /\ lo \in [OSD -> Reserver] /\ re \in [OSD -> Reserver]
  BY <1>1, <1>3 DEF Put
<1>5. ps[g] = x.p /\ \A i \in PG : i # g => ps[i] = pgs[i]
  BY <1>1 DEF Put
<1>6. /\ lo[o] = x.l /\ re[o] = x.r
      /\ \A a \in OSD : a # o => lo[a] = local[a] /\ re[a] = remote[a]
  BY <1>1 DEF Put
<1>7. \A i \in Mine(LocalHolding(lay, pgs, o), g, b) : i \in LocalHolding(lay, ps, o)
  <2> SUFFICES ASSUME NEW i \in Mine(LocalHolding(lay, pgs, o), g, b)
               PROVE  i \in LocalHolding(lay, ps, o)
    OBVIOUS
  <2>1. i \in b => i = g /\ o = lay[g].primary /\ x.p.state[o] \in LocalHolders
    BY <1>2, <1>3 DEF IsPrimary, Primary
  <2>2. i \notin b => i # g /\ i \in LocalHolding(lay, pgs, o)
    BY DEF Mine
  <2> QED
    BY <1>5, <2>1, <2>2 DEF LocalHolding
<1>8. \A i \in Mine(RemoteHolding(lay, pgs, o), g, c) : i \in RemoteHolding(lay, ps, o)
  <2> SUFFICES ASSUME NEW i \in Mine(RemoteHolding(lay, pgs, o), g, c)
               PROVE  i \in RemoteHolding(lay, ps, o)
    OBVIOUS
  <2>1. i \in c => i = g /\ o \in lay[g].replicas /\ x.p.state[o] \in RemoteHolders
    BY <1>2, <1>3
  <2>2. i \notin c => i # g /\ i \in RemoteHolding(lay, pgs, o)
    BY DEF Mine
  <2> QED
    BY <1>5, <2>1, <2>2 DEF RemoteHolding
<1>9. Tidy(lo[o], LocalHolding(lay, ps, o))
  <2>1. PICK H, J : H = Mine(LocalHolding(lay, pgs, o), g, b) /\ J = LocalHolding(lay, ps, o)
    OBVIOUS
  <2>2. Tidy(x.l, H) /\ \A i \in H : i \in J
    BY <1>3, <1>7, <2>1
  <2>3. Tidy(x.l, J)
    BY <2>2, TidyMore
  <2> QED
    BY <1>6, <2>1, <2>3
<1>10. Tidy(re[o], RemoteHolding(lay, ps, o))
  <2>1. PICK H, J : H = Mine(RemoteHolding(lay, pgs, o), g, c) /\ J = RemoteHolding(lay, ps, o)
    OBVIOUS
  <2>2. Tidy(x.r, H) /\ \A i \in H : i \in J
    BY <1>3, <1>8, <2>1
  <2>3. Tidy(x.r, J)
    BY <2>2, TidyMore
  <2> QED
    BY <1>6, <2>1, <2>3
<1>11. ASSUME NEW a \in OSD, a # o
       PROVE  Tidy(lo[a], LocalHolding(lay, ps, a)) /\ Tidy(re[a], RemoteHolding(lay, ps, a))
  <2>1. \A i \in PG : ps[i].state[a] = pgs[i].state[a]
    BY <1>3, <1>5, <1>11
  <2>2. LocalHolding(lay, ps, a) = LocalHolding(lay, pgs, a) /\ RemoteHolding(lay, ps, a) = RemoteHolding(lay, pgs, a)
    BY <2>1 DEF LocalHolding, RemoteHolding
  <2> QED
    BY <1>6, <1>11, <2>2 DEF Light, Slots
<1>12. Slots(lay, ps, lo, re)
  BY <1>9, <1>10, <1>11 DEF Slots
<1>13. Outside(lay, ps)
  <2> SUFFICES ASSUME NEW i \in PG, NEW a \in OSD, Outsider(lay, i, a)
               PROVE  ps[i].state[a] = "Stray"
    BY DEF Outside
  <2>1. pgs[i].state[a] = "Stray"
    BY DEF Light, Outside
  <2> QED
    BY <1>3, <1>5, <2>1
<1> QED
  BY <1>4, <1>12, <1>13

(* The work itself leaves the reservers alone.                              *)
LEMMA WorkStep ==
  ASSUME Light, NEW g \in PG, NEW q \in PGRecord,
         \A o \in OSD : q.state[o] # pgs[g].state[o] =>
             ~Outsider(lay, g, o) /\ pgs[g].state[o] \in {"Peering", "Stray"},
         NEW ps, ps = [pgs EXCEPT ![g] = q]
  PROVE  ps \in [PG -> PGRecord] /\ Slots(lay, ps, local, remote) /\ Outside(lay, ps)
<1>1. pgs \in [PG -> PGRecord]
  BY DEF Light, TypeOK
<1>2. ps \in [PG -> PGRecord] /\ ps[g] = q /\ \A i \in PG : i # g => ps[i] = pgs[i]
  BY <1>1
<1>3. ASSUME NEW a \in OSD
      PROVE  Tidy(local[a], LocalHolding(lay, ps, a)) /\ Tidy(remote[a], RemoteHolding(lay, ps, a))
  <2>1. \A i \in LocalHolding(lay, pgs, a) : i \in LocalHolding(lay, ps, a)
    BY <1>2 DEF LocalHolding, LocalHolders
  <2>2. \A i \in RemoteHolding(lay, pgs, a) : i \in RemoteHolding(lay, ps, a)
    BY <1>2 DEF RemoteHolding, RemoteHolders
  <2>3. Tidy(local[a], LocalHolding(lay, pgs, a)) /\ Tidy(remote[a], RemoteHolding(lay, pgs, a))
    BY DEF Light, Slots
  <2> QED
    BY <2>1, <2>2, <2>3, TidyMore
<1>4. Slots(lay, ps, local, remote)
  BY <1>3 DEF Slots
<1>5. Outside(lay, ps)
  <2> SUFFICES ASSUME NEW i \in PG, NEW a \in OSD, Outsider(lay, i, a)
               PROVE  ps[i].state[a] = "Stray"
    BY DEF Outside
  <2>1. pgs[i].state[a] = "Stray"
    BY DEF Light, Outside
  <2> QED
    BY <1>2, <2>1
<1> QED
  BY <1>2, <1>4, <1>5

LEMMA Starts ==
  ASSUME NEW g \in PG, NEW o \in OSD, NEW q \in PGRecord, q.state = pgs[g].state,
         NEW l, Tidy(l, LocalHolding(lay, pgs, o)), NEW r, Tidy(r, RemoteHolding(lay, pgs, o)),
         NEW w, w = [p |-> q, l |-> l, r |-> r, bad |-> FALSE]
  PROVE  Ends(w, g, o)
<1>1. w.p = q /\ w.l = l /\ w.r = r /\ w \in Kits
  BY DEF Tidy, Sound, Kits
<1>2. PICK b : b = IF g \in LocalHolding(lay, pgs, o) THEN {g} ELSE {}
  OBVIOUS
<1>3. PICK c : c = IF g \in RemoteHolding(lay, pgs, o) THEN {g} ELSE {}
  OBVIOUS
<1>4. \A i \in LocalHolding(lay, pgs, o) : i \in Mine(LocalHolding(lay, pgs, o), g, b)
  BY <1>2 DEF Mine
<1>5. \A i \in RemoteHolding(lay, pgs, o) : i \in Mine(RemoteHolding(lay, pgs, o), g, c)
  BY <1>3 DEF Mine
<1>6. Tidy(w.l, Mine(LocalHolding(lay, pgs, o), g, b))
  BY <1>1, <1>4, TidyMore
<1>7. Tidy(w.r, Mine(RemoteHolding(lay, pgs, o), g, c))
  BY <1>1, <1>5, TidyMore
<1>8. Kit(w, g, o, b, c)
  BY <1>1, <1>2, <1>3, <1>6, <1>7 DEF Kit
<1>9. /\ b # {} => IsPrimary(g, o) /\ w.p.state[o] \in LocalHolders
      /\ c # {} => o \in lay[g].replicas /\ w.p.state[o] \in RemoteHolders
  BY <1>1, <1>2, <1>3 DEF LocalHolding, RemoteHolding, IsPrimary, Primary
<1> QED
  BY <1>8, <1>9 DEF Ends

LEMMA PeeringStep ==
  ASSUME Light, NEW g \in PG, NEW o \in OSD, NEW e, NEW q \in PGRecord, q.state = pgs[g].state,
         NEW l, Tidy(l, LocalHolding(lay, pgs, o)), NEW r, Tidy(r, RemoteHolding(lay, pgs, o)),
         NEW full \in BOOLEAN, do_peering_event(g, o, e, q, l, r, full), hasty' \in BOOLEAN
  PROVE  Light'
<1>1. PICK w : w = [p |-> q, l |-> l, r |-> r, bad |-> FALSE]
  OBVIOUS
<1>2. w.p = q /\ w.bad = FALSE
  BY <1>1
<1>3. Ends(w, g, o)
  BY <1>1, Starts
<1>4. IsLayout(lay[g])
  BY LayoutIs DEF Light, TypeOK
<1>5. PICK x : x = IF old_peering_evt(q, o, e) THEN w
                   ELSE IF IsPrimary(g, o) THEN Primary_react(w, g, o, e.ev, full)
                   ELSE Replica_react(w, g, o, e.ev, full)
  OBVIOUS
<1>6. /\ pgs' = Put(pgs, g, x.p) /\ local' = Put(local, o, x.l) /\ remote' = Put(remote, o, x.r)
      /\ full => fulls < MaxFull
      /\ fulls' = IF full THEN fulls + 1 ELSE fulls
      /\ crashed' = (crashed \/ x.bad)
      /\ lay' = lay
  BY <1>1, <1>5 DEF do_peering_event, Put
<1>7. Outsider(lay, g, o) => w.p.state[o] = "Stray"
  BY <1>2 DEF Light, Outside
<1>8. Ends(x, g, o) /\ (Outsider(lay, g, o) => x.p.state[o] = "Stray")
  <2>1. CASE old_peering_evt(q, o, e)
    BY <1>3, <1>5, <1>7, <2>1
  <2>2. CASE ~old_peering_evt(q, o, e) /\ IsPrimary(g, o)
    <3>1. x = Primary_react(w, g, o, e.ev, full)
      BY <1>5, <2>2
    <3>2. Ends(x, g, o)
      BY <1>3, <1>4, <2>2, <3>1, PrimaryEnds
    <3> QED
      BY <2>2, <3>2 DEF Outsider, IsPrimary, Primary
  <2>3. CASE ~old_peering_evt(q, o, e) /\ ~IsPrimary(g, o)
    <3>1. x = Replica_react(w, g, o, e.ev, full)
      BY <1>5, <2>3
    <3>2. o \notin lay[g].replicas => w.p.state[o] = "Stray"
      BY <1>7, <2>3 DEF Outsider, IsPrimary, Primary
    <3>3. Ends(x, g, o)
      BY <1>3, <1>4, <2>3, <3>1, <3>2, ReplicaEnds
    <3>4. Outsider(lay, g, o) => x.p.state[o] = "Stray"
      BY <1>3, <1>7, <3>1, StrayStays
    <3> QED
      BY <3>3, <3>4
  <2> QED
    BY <2>1, <2>2, <2>3
<1>9. x.bad \in BOOLEAN
  BY <1>8 DEF Ends, Kit, Kits
<1>10. PICK ps, lo, re : ps = pgs' /\ lo = local' /\ re = remote'
  OBVIOUS
<1>11. /\ ps \in [PG -> PGRecord] /\ lo \in [OSD -> Reserver] /\ re \in [OSD -> Reserver]
       /\ Slots(lay, ps, lo, re) /\ Outside(lay, ps)
  BY <1>6, <1>8, <1>10, LightEvent
<1>12. lay' \in Layouts /\ fulls' \in 0 .. MaxFull /\ crashed' \in BOOLEAN
  BY <1>6, <1>9, RecoveryReservationAssumption DEF Light, TypeOK
<1>13. TypeOK'
  BY <1>10, <1>11, <1>12 DEF TypeOK
<1>14. Slots(lay', pgs', local', remote') /\ Outside(lay', pgs')
  BY <1>6, <1>10, <1>11
<1> QED
  BY <1>13, <1>14 DEF Light

LEMMA LightChange ==
  ASSUME Light, NEW g \in PG, NEW q \in PGRecord, Change(g, q), fulls' \in 0 .. MaxFull,
         \A o \in OSD : q.state[o] # pgs[g].state[o] =>
             ~Outsider(lay, g, o) /\ pgs[g].state[o] \in {"Peering", "Stray"}
  PROVE  Light'
<1>1. /\ pgs' = [pgs EXCEPT ![g] = q] /\ lay' = lay /\ local' = local /\ remote' = remote
      /\ crashed' = crashed /\ hasty' = hasty
  BY DEF Change
<1>2. PICK ps : ps = pgs'
  OBVIOUS
<1>3. ps \in [PG -> PGRecord] /\ Slots(lay, ps, local, remote) /\ Outside(lay, ps)
  BY <1>1, <1>2, WorkStep
<1>4. TypeOK'
  BY <1>1, <1>2, <1>3 DEF Light, TypeOK
<1>5. Slots(lay', pgs', local', remote') /\ Outside(lay', pgs')
  BY <1>1, <1>2, <1>3
<1> QED
  BY <1>4, <1>5 DEF Light

----------------------------------------------------------------------------
(* One lemma per action.                                                    *)
LEMMA LightIs ==
  ASSUME Light, NEW g \in PG
  PROVE  /\ pgs[g] \in PGRecord /\ IsLayout(lay[g]) /\ Primary(g) \in OSD
         /\ fulls \in 0 .. MaxFull /\ MaxFull \in Nat /\ hasty \in BOOLEAN
         /\ \A o \in OSD : /\ Tidy(local[o], LocalHolding(lay, pgs, o))
                           /\ Tidy(remote[o], RemoteHolding(lay, pgs, o))
<1>1. pgs[g] \in PGRecord /\ fulls \in 0 .. MaxFull /\ hasty \in BOOLEAN /\ lay \in Layouts
  BY DEF Light, TypeOK
<1>2. IsLayout(lay[g])
  BY <1>1, LayoutIs
<1>3. Primary(g) \in OSD
  BY <1>2 DEF IsLayout, Primary
<1> QED
  BY <1>1, <1>2, <1>3, RecoveryReservationAssumption DEF Light, Slots

LEMMA LightFinishLocal ==
  ASSUME Light, NEW o \in OSD, FinishLocal(o)
  PROVE  Light'
<1>1. PICK c, l, r : c = Head(local[o].f) /\ l = [local[o] EXCEPT !.f = Tail(@)] /\ r = remote[o]
  OBVIOUS
<1>2. PICK s, H : s = local[o] /\ H = LocalHolding(lay, pgs, o)
  OBVIOUS
<1>3. Tidy(s, H) /\ s.f # <<>>
  BY <1>2 DEF Light, Slots, FinishLocal
<1>4. Head(s.f) \in Context /\ Tidy([s EXCEPT !.f = Tail(@)], H)
  BY <1>3, TidyFinish
<1>5. c \in Context /\ Tidy(l, LocalHolding(lay, pgs, o))
  BY <1>1, <1>2, <1>4
<1>6. c.pg \in PG
  BY <1>5, RecoveryReservationAssumption
<1>7. PICK g, q : g = c.pg /\ q = pgs[g]
  OBVIOUS
<1>8. g \in PG /\ q \in PGRecord /\ q.state = pgs[g].state /\ Tidy(r, RemoteHolding(lay, pgs, o)) /\ hasty \in BOOLEAN
  BY <1>1, <1>6, <1>7, LightIs
<1>9. do_peering_event(g, o, c, q, l, r, FALSE) /\ hasty' = hasty
  BY <1>1, <1>7 DEF FinishLocal
<1> QED
  BY <1>5, <1>8, <1>9, PeeringStep

LEMMA LightFinishRemote ==
  ASSUME Light, NEW o \in OSD, FinishRemote(o)
  PROVE  Light'
<1>1. PICK c, l, r : c = Head(remote[o].f) /\ r = [remote[o] EXCEPT !.f = Tail(@)] /\ l = local[o]
  OBVIOUS
<1>2. PICK s, H : s = remote[o] /\ H = RemoteHolding(lay, pgs, o)
  OBVIOUS
<1>3. Tidy(s, H) /\ s.f # <<>>
  BY <1>2 DEF Light, Slots, FinishRemote
<1>4. Head(s.f) \in Context /\ Tidy([s EXCEPT !.f = Tail(@)], H)
  BY <1>3, TidyFinish
<1>5. c \in Context /\ Tidy(r, RemoteHolding(lay, pgs, o))
  BY <1>1, <1>2, <1>4
<1>6. c.pg \in PG
  BY <1>5, RecoveryReservationAssumption
<1>7. PICK g, q : g = c.pg /\ q = pgs[g]
  OBVIOUS
<1>8. g \in PG /\ q \in PGRecord /\ q.state = pgs[g].state /\ Tidy(l, LocalHolding(lay, pgs, o)) /\ hasty \in BOOLEAN
  BY <1>1, <1>6, <1>7, LightIs
<1>9. do_peering_event(g, o, c, q, l, r, FALSE) /\ hasty' = hasty
  BY <1>1, <1>7 DEF FinishRemote
<1> QED
  BY <1>5, <1>8, <1>9, PeeringStep

LEMMA LightToReplica ==
  ASSUME Light, NEW g \in PG, NEW o \in OSD, NEW full \in BOOLEAN, ToReplica(g, o, full)
  PROVE  Light'
<1>1. PICK e, q, l, r : /\ e = Head(pgs[g].toReplica[o]) /\ l = local[o] /\ r = remote[o]
                        /\ q = [pgs[g] EXCEPT !.toReplica[o] = Tail(@)]
  OBVIOUS
<1>2. do_peering_event(g, o, e, q, l, r, full) /\ hasty' = hasty /\ pgs[g].toReplica[o] # <<>>
  BY <1>1 DEF ToReplica
<1>3. pgs[g] \in PGRecord /\ hasty \in BOOLEAN
  BY LightIs
<1>4. Tail(pgs[g].toReplica[o]) \in Seq(Event)
  BY <1>2, <1>3, TailElems DEF PGRecord
<1>5. q \in PGRecord /\ q.state = pgs[g].state
  BY <1>1, <1>3, <1>4 DEF PGRecord
<1>6. Tidy(l, LocalHolding(lay, pgs, o)) /\ Tidy(r, RemoteHolding(lay, pgs, o))
  BY <1>1, LightIs
<1> QED
  BY <1>2, <1>3, <1>5, <1>6, PeeringStep

LEMMA LightToPrimary ==
  ASSUME Light, NEW g \in PG, NEW o \in OSD, ToPrimary(g, o)
  PROVE  Light'
<1>1. PICK e, q, p, l, r : /\ e = Head(pgs[g].toPrimary[o]) /\ p = Primary(g) /\ l = local[p] /\ r = remote[p]
                           /\ q = [pgs[g] EXCEPT !.toPrimary[o] = Tail(@)]
  OBVIOUS
<1>2. do_peering_event(g, p, e, q, l, r, FALSE) /\ hasty' = hasty /\ pgs[g].toPrimary[o] # <<>>
  BY <1>1 DEF ToPrimary
<1>3. pgs[g] \in PGRecord /\ hasty \in BOOLEAN /\ p \in OSD
  BY <1>1, LightIs
<1>4. Tail(pgs[g].toPrimary[o]) \in Seq(Event)
  BY <1>2, <1>3, TailElems DEF PGRecord
<1>5. q \in PGRecord /\ q.state = pgs[g].state
  BY <1>1, <1>3, <1>4 DEF PGRecord
<1>6. Tidy(l, LocalHolding(lay, pgs, p)) /\ Tidy(r, RemoteHolding(lay, pgs, p))
  BY <1>1, <1>3, LightIs
<1> QED
  BY <1>2, <1>3, <1>5, <1>6, PeeringStep

LEMMA LightOwn ==
  ASSUME Light, NEW g \in PG, NEW o \in OSD, NEW full \in BOOLEAN, Own(g, o, full)
  PROVE  Light'
<1>1. PICK e, q, l, r : /\ e = Head(pgs[g].own[o]) /\ l = local[o] /\ r = remote[o]
                        /\ q = [pgs[g] EXCEPT !.own[o] = Tail(@)]
  OBVIOUS
<1>2. do_peering_event(g, o, e, q, l, r, full) /\ hasty' = hasty /\ pgs[g].own[o] # <<>>
  BY <1>1 DEF Own
<1>3. pgs[g] \in PGRecord /\ hasty \in BOOLEAN
  BY LightIs
<1>4. Tail(pgs[g].own[o]) \in Seq(Event)
  BY <1>2, <1>3, TailElems DEF PGRecord
<1>5. q \in PGRecord /\ q.state = pgs[g].state
  BY <1>1, <1>3, <1>4 DEF PGRecord
<1>6. Tidy(l, LocalHolding(lay, pgs, o)) /\ Tidy(r, RemoteHolding(lay, pgs, o))
  BY <1>1, LightIs
<1> QED
  BY <1>2, <1>3, <1>5, <1>6, PeeringStep

LEMMA LightTimer ==
  ASSUME Light, NEW g \in PG, NEW t, NEW full \in BOOLEAN, Timer(g, t, full)
  PROVE  Light'
<1>1. PICK q, p, l, r : /\ p = Primary(g) /\ l = local[p] /\ r = remote[p]
                        /\ q = [pgs[g] EXCEPT !.timers = @ \ {t}]
  OBVIOUS
<1>2. do_peering_event(g, p, t, q, l, r, full) /\ hasty' = (hasty \/ TooSoon(g, t))
  BY <1>1 DEF Timer
<1>3. pgs[g] \in PGRecord /\ p \in OSD
  BY <1>1, LightIs
<1>4. q \in PGRecord /\ q.state = pgs[g].state
  BY <1>1, <1>3 DEF PGRecord
<1>5. Tidy(l, LocalHolding(lay, pgs, p)) /\ Tidy(r, RemoteHolding(lay, pgs, p))
  BY <1>1, <1>3, LightIs
<1>6. hasty' \in BOOLEAN
  BY <1>2
<1> QED
  BY <1>2, <1>3, <1>4, <1>5, <1>6, PeeringStep

LEMMA LightReset ==
  ASSUME Light, NEW g \in PG, NEW o \in OSD, Reset(g, o)
  PROVE  Light'
<1>1. PICK q, l, r : q = [pgs[g] EXCEPT !.epoch[o] = pgs[g].interval] /\ l = local[o] /\ r = remote[o]
  OBVIOUS
<1>2. PICK w : w = [p |-> q, l |-> l, r |-> r, bad |-> FALSE]
  OBVIOUS
<1>3. PICK x : x = IF IsPrimary(g, o) THEN Idle(cancel_local(Leave(w, o, "Peering"), g))
                   ELSE cancel_remote(To(w, o, "Stray"), g)
  OBVIOUS
<1>4. /\ pgs' = Put(pgs, g, x.p) /\ local' = Put(local, o, x.l) /\ remote' = Put(remote, o, x.r)
      /\ lay' = lay /\ fulls' = fulls /\ crashed' = crashed /\ hasty' = hasty /\ NeedsReset(g, o)
  BY <1>1, <1>2, <1>3 DEF Reset, Put, Idle
<1>5. pgs[g] \in PGRecord /\ IsLayout(lay[g])
  BY LightIs
<1>6. q \in PGRecord /\ q.state = pgs[g].state
  BY <1>1, <1>5 DEF PGRecord
<1>7. Tidy(l, LocalHolding(lay, pgs, o)) /\ Tidy(r, RemoteHolding(lay, pgs, o))
  BY <1>1, LightIs
<1>8. Ends(w, g, o)
  BY <1>2, <1>6, <1>7, Starts
<1>9. ASSUME IsPrimary(g, o) PROVE Kit(x, g, o, {}, {})
  <2>1. o \notin lay[g].replicas
    BY <1>5, <1>9 DEF IsLayout, IsPrimary, Primary
  <2>2. PICK b : Kit(w, g, o, b, {})
    BY <1>8, <2>1 DEF Ends
  <2>3. PICK v : v = Leave(w, o, "Peering")
    OBVIOUS
  <2>4. Kit(v, g, o, b, {})
    BY <2>2, <2>3, KitLeave DEF States
  <2>5. PICK u : u = cancel_local(v, g)
    OBVIOUS
  <2>6. Kit(u, g, o, {}, {})
    BY <2>4, <2>5, KitCancelLocal
  <2>7. x = Idle(u)
    BY <1>3, <1>9, <2>3, <2>5
  <2>8. Kit(x, g, o, {}, {})
    BY <2>6, <2>7, KitIdle
  <2> QED
    BY <2>8
<1>10. ASSUME ~IsPrimary(g, o) PROVE Kit(x, g, o, {}, {})
  <2>1. PICK c : Kit(w, g, o, {}, c)
    BY <1>8, <1>10 DEF Ends
  <2>2. PICK v : v = To(w, o, "Stray")
    OBVIOUS
  <2>3. Kit(v, g, o, {}, c)
    BY <2>1, <2>2, KitTo DEF States
  <2>4. x = cancel_remote(v, g)
    BY <1>3, <1>10, <2>2
  <2>5. Kit(x, g, o, {}, {})
    BY <2>3, <2>4, KitCancelRemote
  <2> QED
    BY <2>5
<1>11. Ends(x, g, o)
  BY <1>9, <1>10, EndsIdle
<1>12. ~Outsider(lay, g, o)
  BY <1>4 DEF NeedsReset, Outsider, Primary
<1>13. PICK ps, lo, re : ps = pgs' /\ lo = local' /\ re = remote'
  OBVIOUS
<1>14. /\ ps \in [PG -> PGRecord] /\ lo \in [OSD -> Reserver] /\ re \in [OSD -> Reserver]
       /\ Slots(lay, ps, lo, re) /\ Outside(lay, ps)
  BY <1>4, <1>11, <1>12, <1>13, LightEvent
<1>15. TypeOK'
  BY <1>4, <1>13, <1>14 DEF Light, TypeOK
<1>16. Slots(lay', pgs', local', remote') /\ Outside(lay', pgs')
  BY <1>4, <1>13, <1>14
<1> QED
  BY <1>15, <1>16 DEF Light

LEMMA LightWork ==
  ASSUME Light, NEW g \in PG, NEW q \in PGRecord, q.state = pgs[g].state, Change(g, q),
         fulls' \in 0 .. MaxFull
  PROVE  Light'
BY LightChange

LEMMA LightSteps ==
  ASSUME Light, NEW g \in PG, NEW o \in OSD, NEW full \in BOOLEAN, NEW S \in SUBSET lay[g].targets,
         \/ LastObject(g) \/ start_recovery_ops(g) \/ Activate(g) \/ NewInterval(g)
         \/ send_scan(g, S) \/ do_scan(g, o, full) \/ scan_digest(g, o)
  PROVE  Light'
<1>1. PICK q, p : q = pgs[g] /\ p = Primary(g)
  OBVIOUS
<1>2. /\ q \in PGRecord /\ p \in OSD /\ IsLayout(lay[g]) /\ fulls \in 0 .. MaxFull /\ MaxFull \in Nat
  BY <1>1, LightIs
<1>3. /\ q.own \in [OSD -> Seq(Event)] /\ q.epoch \in [OSD -> Interval] /\ q.interval \in Interval
      /\ q.scan \in [OSD -> 0 .. MaxInterval] /\ q.digest \in [OSD -> 0 .. MaxInterval]
      /\ q.waiting_on_backfill \in SUBSET OSD /\ q.scans \in 0 .. MaxScans /\ q.state \in [OSD -> States]
  BY <1>2 DEF PGRecord
<1>4. MaxInterval \in Nat \ {0} /\ MaxScans \in Nat
  BY RecoveryReservationAssumption
<1>5. \A a \in OSD, ev \in Events : Append(q.own[a], [ev |-> ev, epoch |-> q.epoch[a]]) \in Seq(Event)
  <2> SUFFICES ASSUME NEW a \in OSD, NEW ev \in Events
               PROVE  Append(q.own[a], [ev |-> ev, epoch |-> q.epoch[a]]) \in Seq(Event)
    OBVIOUS
  <2>1. [ev |-> ev, epoch |-> q.epoch[a]] \in Event /\ q.own[a] \in Seq(Event)
    BY <1>3 DEF Event
  <2> QED
    BY <2>1, AppendIs
<1>6. CASE LastObject(g)
  <2>1. PICK x : x = [q EXCEPT !.todo = @ \ {Kind(q.state[p])}]
    OBVIOUS
  <2>2. x \in PGRecord /\ x.state = q.state
    BY <1>2, <2>1 DEF PGRecord
  <2>3. Change(g, x) /\ fulls' = fulls
    BY <1>1, <1>6, <2>1 DEF LastObject
  <2> QED
    BY <1>1, <1>2, <2>2, <2>3, LightWork
<1>7. CASE start_recovery_ops(g)
  <2>1. PICK ev : ev = IF Kind(q.state[p]) = "backfill" THEN "Backfilled"
                       ELSE IF "backfill" \in q.todo THEN "RequestBackfill" ELSE "AllReplicasRecovered"
    OBVIOUS
  <2>2. ev \in Events
    BY <2>1 DEF Events
  <2>3. PICK K : K = Append(q.own[p], [ev |-> ev, epoch |-> q.epoch[p]])
    OBVIOUS
  <2>4. K \in Seq(Event)
    BY <1>2, <1>5, <2>2, <2>3
  <2>5. PICK x : x = [q EXCEPT !.working = FALSE, !.own[p] = K]
    OBVIOUS
  <2>6. x \in PGRecord /\ x.state = q.state
    BY <1>2, <2>4, <2>5 DEF PGRecord
  <2>7. Change(g, x) /\ fulls' = fulls
    BY <1>1, <1>7, <2>1, <2>3, <2>5 DEF start_recovery_ops
  <2> QED
    BY <1>1, <1>2, <2>6, <2>7, LightWork
<1>8. CASE Activate(g)
  <2>1. PICK ev : ev = IF "recovery" \in q.todo THEN "DoRecovery"
                       ELSE IF "backfill" \in q.todo THEN "RequestBackfill" ELSE "AllReplicasRecovered"
    OBVIOUS
  <2>2. ev \in Events
    BY <2>1 DEF Events
  <2>3. PICK K : K = Append(q.own[p], [ev |-> ev, epoch |-> q.epoch[p]])
    OBVIOUS
  <2>4. K \in Seq(Event)
    BY <1>2, <1>5, <2>2, <2>3
  <2>5. PICK st : st = [x \in OSD |-> IF x = p THEN "Activating"
                                      ELSE IF x \in lay[g].replicas THEN "RepNotRecovering" ELSE q.state[x]]
    OBVIOUS
  <2>6. st \in [OSD -> States]
    BY <1>3, <2>5 DEF States
  <2>7. PICK x : x = [q EXCEPT !.state = st, !.own[p] = K]
    OBVIOUS
  <2>8. x \in PGRecord /\ x.state = st
    BY <1>2, <2>4, <2>6, <2>7 DEF PGRecord
  <2>9. /\ Change(g, x) /\ fulls' = fulls /\ q.state[p] = "Peering"
        /\ \A a \in lay[g].replicas : q.state[a] = "Stray"
    BY <1>1, <1>8, <2>1, <2>3, <2>5, <2>7 DEF Activate
  <2>10. \A a \in OSD : x.state[a] # pgs[g].state[a] =>
             ~Outsider(lay, g, a) /\ pgs[g].state[a] \in {"Peering", "Stray"}
    BY <1>1, <2>5, <2>8, <2>9 DEF Outsider, Primary
  <2> QED
    BY <1>2, <2>8, <2>9, <2>10, LightChange
<1>9. CASE NewInterval(g)
  <2>1. PICK x : x = [q EXCEPT !.interval = @ + 1]
    OBVIOUS
  <2>2. Change(g, x) /\ fulls' = fulls /\ q.interval < MaxInterval
    BY <1>1, <1>9, <2>1 DEF NewInterval
  <2>3. q.interval + 1 \in Interval
    BY <1>3, <1>4, <2>2 DEF Interval
  <2>4. x \in PGRecord /\ x.state = q.state
    BY <1>2, <2>1, <2>3 DEF PGRecord
  <2> QED
    BY <1>1, <1>2, <2>2, <2>4, LightWork
<1>10. CASE send_scan(g, S)
  <2>1. PICK sc, n : sc = [a \in OSD |-> IF a \in S THEN q.epoch[p] ELSE q.scan[a]] /\ n = q.scans + 1
    OBVIOUS
  <2>2. PICK x : x = [q EXCEPT !.scan = sc, !.waiting_on_backfill = S, !.scans = n]
    OBVIOUS
  <2>3. Change(g, x) /\ fulls' = fulls /\ q.scans < MaxScans
    BY <1>1, <1>10, <2>1, <2>2 DEF send_scan
  <2>4. sc \in [OSD -> 0 .. MaxInterval] /\ n \in 0 .. MaxScans /\ S \in SUBSET OSD
    <3>1. S \in SUBSET OSD
      BY <1>2 DEF IsLayout
    <3>2. n \in 0 .. MaxScans
      BY <1>3, <1>4, <2>1, <2>3
    <3>3. q.epoch[p] \in 0 .. MaxInterval
      BY <1>2, <1>3, <1>4 DEF Interval
    <3> QED
      BY <1>3, <2>1, <3>1, <3>2, <3>3
  <2>5. x \in PGRecord /\ x.state = q.state
    BY <1>2, <2>2, <2>4 DEF PGRecord
  <2> QED
    BY <1>1, <1>2, <2>3, <2>5, LightWork
<1>11. CASE do_scan(g, o, full)
  <2>1. PICK d : d = IF full \/ q.scan[o] < q.epoch[o] THEN 0 ELSE q.epoch[o]
    OBVIOUS
  <2>2. PICK K : K = IF full THEN Append(q.own[o], [ev |-> "BackfillTooFull", epoch |-> q.epoch[o]]) ELSE q.own[o]
    OBVIOUS
  <2>3. PICK x : x = [q EXCEPT !.scan[o] = 0, !.digest[o] = d, !.own[o] = K]
    OBVIOUS
  <2>4. Change(g, x) /\ fulls' = (IF full THEN fulls + 1 ELSE fulls) /\ (full => fulls < MaxFull)
    BY <1>1, <1>11, <2>1, <2>2, <2>3 DEF do_scan
  <2>5. d \in 0 .. MaxInterval /\ 0 \in 0 .. MaxInterval
    BY <1>3, <1>4, <2>1 DEF Interval
  <2>6. K \in Seq(Event)
    <3>1. "BackfillTooFull" \in Events
      BY DEF Events
    <3> QED
      BY <1>3, <1>5, <2>2, <3>1
  <2>7. x \in PGRecord /\ x.state = q.state
    BY <1>2, <2>3, <2>5, <2>6 DEF PGRecord
  <2>8. fulls' \in 0 .. MaxFull
    BY <1>2, <2>4
  <2> QED
    BY <1>1, <2>4, <2>7, <2>8, LightWork
<1>12. CASE scan_digest(g, o)
  <2>1. PICK W : W = IF q.digest[o] = q.epoch[p] THEN q.waiting_on_backfill \ {o} ELSE q.waiting_on_backfill
    OBVIOUS
  <2>2. PICK x : x = [q EXCEPT !.digest[o] = 0, !.waiting_on_backfill = W]
    OBVIOUS
  <2>3. Change(g, x) /\ fulls' = fulls
    BY <1>1, <1>12, <2>1, <2>2 DEF scan_digest
  <2>4. 0 \in 0 .. MaxInterval /\ W \in SUBSET OSD
    BY <1>3, <1>4, <2>1
  <2>5. x \in PGRecord /\ x.state = q.state
    BY <1>2, <2>2, <2>4 DEF PGRecord
  <2> QED
    BY <1>1, <1>2, <2>3, <2>5, LightWork
<1> QED
  BY <1>6, <1>7, <1>8, <1>9, <1>10, <1>11, <1>12

LEMMA LightNext ==
  ASSUME Light, [Next]_vars
  PROVE  Light'
<1>0. \A g \in PG : Primary(g) \in OSD
  BY LightIs
<1>1. ASSUME NEW o \in OSD, Finish(o) PROVE Light'
  BY <1>1, LightFinishLocal, LightFinishRemote DEF Finish
<1>2. ASSUME NEW g \in PG, NEW o \in OSD, Deliver(g, o) PROVE Light'
  <2>1. {} \in SUBSET lay[g].targets
    OBVIOUS
  <2> QED
    BY <1>2, <2>1, LightToPrimary, LightToReplica, LightOwn, LightSteps DEF Deliver
<1>3. ASSUME NEW g \in PG, NEW o \in OSD, Reset(g, o) PROVE Light'
  BY <1>3, LightReset
<1>4. ASSUME NEW g \in PG, Due(g) PROVE Light'
  BY <1>4, LightTimer DEF Due
<1>5. ASSUME NEW g \in PG, Work(g) \/ NewInterval(g) \/ \E S \in (SUBSET lay[g].targets) \ {{}} : send_scan(g, S)
      PROVE  Light'
  <2>1. {} \in SUBSET lay[g].targets /\ TRUE \in BOOLEAN
    OBVIOUS
  <2>2. PICK o : o = Primary(g)
    OBVIOUS
  <2>3. o \in OSD
    BY <1>0, <2>2
  <2> QED
    BY <1>5, <2>1, <2>3, LightSteps DEF Work
<1>6. CASE Next
  BY <1>1, <1>2, <1>3, <1>4, <1>5, <1>6 DEF Next, Progress
<1>7. CASE UNCHANGED vars
  BY <1>7 DEF vars, Light, TypeOK
<1> QED
  BY <1>6, <1>7

LEMMA LightInit == Init => Light
<1> SUFFICES ASSUME Init PROVE Light
  OBVIOUS
<1>1. State /\ ~crashed /\ hasty = FALSE /\ crashed = FALSE
  BY InitState DEF Init
<1>2. TypeOK
  BY <1>1 DEF State, AllOK, TypeOK
<1>3. \A o \in OSD : /\ Fits(local[o], LocalSet(lay, pgs, o), LocalHolding(lay, pgs, o))
                     /\ Fits(remote[o], RemoteSet(lay, pgs, o), RemoteHolding(lay, pgs, o))
  BY <1>1 DEF State, AllOK, LocalsOK, RemotesOK
<1>4. Slots(lay, pgs, local, remote)
  BY <1>3 DEF Slots, Tidy, Fits
<1>5. Outside(lay, pgs)
  BY DEF Outside, Outsider, Init, NewPG
<1> QED
  BY <1>2, <1>4, <1>5 DEF Light

LEMMA LightAlways == Spec => []Light
<1>1. Light /\ [Next]_vars => Light'
  BY LightNext
<1> QED
  BY LightInit, <1>1, PTL DEF Spec

----------------------------------------------------------------------------
(* The theorems.                                                            *)

(* Every variable keeps its type, the reservers of every OSD among them,    *)
(* however soon a backfill is tried again.                                  *)
THEOREM TypeCorrect == Spec => []TypeOK
<1>1. Light => TypeOK
  BY DEF Light
<1> QED
  BY <1>1, LightAlways, PTL

(* No slot is lost: whatever races with a release, a timer that comes due   *)
(* too soon among it, AsyncReserver never keeps a reservation for an        *)
(* instance that is not in a state whose exit cancels it.                   *)
THEOREM NoSlotLeaks == Spec => []NoLeak
<1>1. Light => NoLeak
  <2> SUFFICES ASSUME Light, NEW g \in PG, NEW o \in OSD
               PROVE  /\ HasReservation(local[o], g) =>
                            IsPrimary(g, o) /\ pgs[g].state[o] \in LocalHolders
                      /\ HasReservation(remote[o], g) =>
                            o \in lay[g].replicas /\ pgs[g].state[o] \in RemoteHolders
    BY DEF NoLeak, LocalHolders, RemoteHolders
  <2>1. g \in Item
    BY DEF PG
  <2>2. HasReservation(local[o], g) => g \in LocalHolding(lay, pgs, o)
    BY <2>1 DEF Light, Slots, Tidy
  <2>3. HasReservation(remote[o], g) => g \in RemoteHolding(lay, pgs, o)
    BY <2>1 DEF Light, Slots, Tidy
  <2> QED
    BY <2>2, <2>3 DEF LocalHolding, RemoteHolding, IsPrimary, Primary
<1> QED
  BY <1>1, LightAlways, PTL

(* The invariant in the terms of TypeOK.                                    *)
LEMMA StateIsInv == State /\ TypeOK <=> Inv
<1>1. State /\ TypeOK => Inv
  BY DEF State, AllOK, Inv
<1>2. Inv => State /\ TypeOK
  BY DEF State, AllOK, Inv, TypeOK
<1> QED
  BY <1>1, <1>2

(* TypeOK, GroupsOK, LocalsOK and RemotesOK hold as long as no backfill is  *)
(* tried again while an answer to the last attempt is still to come: what a *)
(* primary takes each of its peers for, what is on its way between them,    *)
(* and what the reservers of both OSDs hold fit each other, whatever the    *)
(* order of grants, preemptions, releases, rejections and new intervals.    *)
THEOREM InvAlways == Spec => [](hasty \/ Inv)
<1>1. Spec => [](hasty \/ State) /\ []TypeOK
  BY StateInductive, TypeCorrect, PTL
<1>2. State /\ TypeOK => Inv
  BY StateIsInv
<1> QED
  BY <1>1, <1>2, PTL

(* A primary that has objects left to recover or to copy is at work only    *)
(* while every peer it counts on holds a slot for it in this interval,      *)
(* unless a backfill was tried again while an answer to the last attempt    *)
(* was still to come: that is the only way in which a grant of an earlier   *)
(* attempt is ever taken for one of the present attempt.                    *)
THEOREM GrantsAreTrue == Spec => []GrantsAreReal
<1>1. hasty \/ Inv => GrantsAreReal
  <2> SUFFICES ASSUME Inv, ~hasty, NEW g \in PG, NEW k, k = Kind(pgs[g].state[Primary(g)]), AtWork(g),
                      k \in pgs[g].todo, NEW o \in Elems(Remotes(g, k))
               PROVE  \/ pgs[g].epoch[o] > pgs[g].epoch[Primary(g)]
                      \/ pgs[g].state[o] = "RepRecovering"
    BY DEF GrantsAreReal
  <2>1. PICK l, q, p : l = lay[g] /\ q = pgs[g] /\ p = l.primary
    OBVIOUS
  <2>2. /\ q \in PGRecord /\ GroupOK(q, l) /\ IsLayout(l) /\ p = Primary(g)
        /\ q.state[p] \in {"Recovering", "Backfilling"} /\ k = Kind(q.state[p])
    BY <2>1, StateIsInv, AllIs DEF State, Primary, AtWork
  <2>3. Elems(Remotes(g, k)) = Elems(Peers(l, k))
    BY <2>1 DEF Remotes, Peers
  <2>4. o \in Counted(l, k) /\ o \in l.replicas
    BY <2>2, <2>3, PeersIs DEF Elems
  <2>5. View(q, l, o) = "granted"
    <3>1. q.state[p] = q.state[l.primary]
      BY <2>1
    <3>2. CASE q.state[p] = "Recovering"
      BY <3>1, <3>2, ViewIs
    <3>3. CASE q.state[p] = "Backfilling"
      <4>1. k = "backfill" /\ o \in l.targets /\ "backfill" \in q.todo
        BY <2>1, <2>2, <2>4, <3>3 DEF Kind, Counted
      <4> QED
        BY <3>1, <3>3, <4>1, ViewIs
    <3> QED
      BY <2>2, <3>2, <3>3
  <2>6. PICK ep, eo, so, M, N : /\ ep = q.epoch[p] /\ eo = q.epoch[o] /\ so = q.state[o]
                                /\ M = q.toReplica[o] /\ N = q.toPrimary[o]
    OBVIOUS
  <2>7. PairOK("granted", ep, eo, so, M, N)
    BY <2>1, <2>2, <2>4, <2>5, <2>6 DEF GroupOK, PeerOK
  <2>8. ep \in Nat /\ eo \in Nat
    BY <2>1, <2>2, <2>4, <2>6, PairTypes
  <2>9. eo >= ep /\ (eo = ep => so = "RepRecovering")
    BY <2>7 DEF PairOK, EpochOK, HeldOK, Granted
  <2> QED
    BY <2>1, <2>2, <2>6, <2>8, <2>9
<1> QED
  BY <1>1, InvAlways, PTL

(* Two things abort an OSD: the BackfillTooFull that a target queued for    *)
(* itself during a scan and takes when it is no longer in RepRecovering,    *)
(* and what follows when a backfill is tried again while an answer to the   *)
(* last attempt is still to come.                                           *)
OnlyKnownAborts == [][crashed' = crashed \/ TooFullLate \/ hasty']_vars

(* Every other step leaves every OSD running: neither an unexpected event   *)
(* nor a second request of a slot nor an assertion stops one.               *)
THEOREM OnlyTooFull == Spec => OnlyKnownAborts
<1>1. (hasty \/ State) /\ [Next]_vars => [crashed' = crashed \/ TooFullLate \/ hasty']_vars
  <2> SUFFICES ASSUME hasty \/ State, Next, ~hasty' PROVE crashed' = crashed \/ TooFullLate
    BY DEF vars
  <2>1. State
    BY HastyStays
  <2> QED
    BY <2>1, NextStep DEF Kept
<1>2. Spec => [](hasty \/ State) /\ [][Next]_vars
  BY StateInductive, PTL DEF Spec
<1> QED
  BY <1>1, <1>2, PTL DEF OnlyKnownAborts

(* No target is asked for a scan, as where a group only recovers.           *)
NoScans == \A l \in Layouts : \A g \in PG : "scan" \notin l[g].may

(* Where backfill does not scan, no OSD aborts, neither by an event that    *)
(* its state machine has no reaction to nor by a second request of a slot   *)
(* nor by an assertion at the end of recovery, before a backfill is tried   *)
(* again while an answer to the last attempt is still to come.              *)
THEOREM NoAbort ==
  ASSUME NoScans
  PROVE  Spec => []NoCrash
<1>1. State => ~TooFullLate
  <2> SUFFICES ASSUME State, NEW g \in PG, NEW o \in lay[g].replicas
               PROVE  pgs[g].own[o] = <<>>
    BY DEF TooFullLate
  <2>1. PICK l, q : l = lay[g] /\ q = pgs[g]
    OBVIOUS
  <2>2. GroupOK(q, l) /\ IsLayout(l) /\ "scan" \notin l.may
    BY <2>1, AllIs DEF State, AllOK, NoScans
  <2>3. o \in OSD /\ o # l.primary
    BY <2>1, <2>2 DEF IsLayout
  <2> QED
    BY <2>1, <2>2, <2>3 DEF GroupOK, ScansOK
<1>2. Init => NoCrash
  BY InitState DEF NoCrash
<1>3. (hasty \/ State) /\ NoCrash /\ [Next]_vars => NoCrash'
  <2> SUFFICES ASSUME hasty \/ State, NoCrash, [Next]_vars, ~hasty' PROVE ~crashed'
    BY DEF NoCrash
  <2>1. State /\ ~crashed
    BY HastyStays DEF NoCrash
  <2>2. CASE Next
    <3>1. ~TooFullLate => crashed' = crashed
      BY <2>1, <2>2, NextStep DEF Kept
    <3> QED
      BY <1>1, <2>1, <3>1
  <2>3. CASE UNCHANGED vars
    BY <2>1, <2>3 DEF vars
  <2> QED
    BY <2>2, <2>3
<1>4. Spec => [](hasty \/ State)
  BY StateInductive
<1> QED
  BY <1>2, <1>3, <1>4, PTL DEF Spec
=============================================================================
