-------------------- MODULE RecoveryReactions_proofs --------------------
(* The invariant of recovery and backfill reservations, and what the        *)
(* reactions of primaries and peers to their events keep of it, for any     *)
(* number of OSDs, placement groups, slots, intervals and priorities and    *)
(* any placement.                                                           *)
EXTENDS RecoveryReservation, Reservations_proofs

----------------------------------------------------------------------------
(* The inductive invariant, part one: a reserver.                           *)

GrantEvents == {"LocalRecoveryReserved", "LocalBackfillReserved",
                "RemoteRecoveryReserved", "RemoteBackfillReserved"}

(* The reserver r is consistent, only groups of H have a reservation, and   *)
(* the callbacks of reservations and of the Finisher are all among A; a     *)
(* grant is with its reservation or with the Finisher, there once.          *)
Fits(r, A, H) ==
    /\ Sound(r)
    /\ \A i \in Item : HasReservation(r, i) =>
          i \in H /\ r.res[i].preempt \in A /\ r.res[i].preempt.ev \notin GrantEvents
    /\ \A i \in Queued(r) : /\ r.res[i].grant \in A
                            /\ r.res[i].grant.ev \in GrantEvents
                            /\ r.res[i].grant.pg = i
                            /\ r.res[i].grant \notin Elems(r.f)
    /\ \A c \in Elems(r.f) : c \in A
    /\ \A j, k \in 1 .. Len(r.f) : r.f[j] = r.f[k] /\ r.f[j].ev \in GrantEvents => j = k

(* The callbacks that r holds.                                              *)
Holds(r, c) ==
    \/ c \in Elems(r.f)
    \/ \E i \in Item : HasReservation(r, i) /\ c = r.res[i].preempt
    \/ \E i \in Queued(r) : c = r.res[i].grant

----------------------------------------------------------------------------
(* Part two: a primary and one of its peers.  ep and eo are their           *)
(* intervals, so the state of the peer, M and N what is on its way to and   *)
(* from it, v what the primary takes it for:                                *)
(*    peering                      the primary is not active                *)
(*    free                         it has no slot and will get no grant     *)
(*    asksRecovery, asksBackfill   it was asked and its answer is awaited   *)
(*    granted                      it has granted a slot                    *)
(*    done                         the backfill is complete: either         *)
(*    drain                        it was released, maybe before it         *)
(*                                 answered                                 *)
Requests == {"RequestRecoveryPrio", "RequestBackfillPrio"}
Releases == {"RecoveryDone", "RemoteReservationCanceled"}
Answers == {"RemoteRecoveryReserved", "RemoteBackfillReserved",
            "RemoteReservationRejectedTooFull"}
Notices == {"DeferRecovery", "RemoteReservationRevoked", "RemoteReservationRevokedTooFull"}
RemoteGrants == {"RemoteRecoveryReserved", "RemoteBackfillReserved"}
RemotePreemptions == {"RemoteRecoveryPreempted", "RemoteBackfillPreempted"}
Waits == {"RepWaitRecoveryReserved", "RepWaitBackfillReserved"}

Views == {"peering", "free", "asksRecovery", "asksBackfill", "granted", "done", "drain"}

Requested(ev) == IF ev = "RequestRecoveryPrio" THEN "asksRecovery" ELSE "asksBackfill"

Answered(ev) == IF ev = "RemoteRecoveryReserved" THEN "asksRecovery" ELSE "asksBackfill"

(* No message in s is of interval e and among S; none is of interval e.     *)
None(s, e, S) == \A k \in 1 .. Len(s) : s[k].epoch = e => s[k].ev \notin S

Clear(s, e) == \A k \in 1 .. Len(s) : s[k].epoch # e

(* When the message at k arrives, the peer holds nothing and waits for      *)
(* nothing.                                                                 *)
Ready(M, k, eo, so) ==
    IF k > 1 /\ M[k - 1].epoch = eo THEN M[k - 1].ev \in Releases ELSE so = "RepNotRecovering"

Released(M, eo, so) == Ready(M, Len(M) + 1, eo, so)

Granted(M, eo, so) == so = "RepRecovering" /\ Clear(M, eo)

EpochOK(v, ep, eo, so) ==
    /\ so \in ReplicaStates \cup {"Stray"}
    /\ v # "peering" => eo >= ep
    /\ so # "Stray" => eo <= ep
    /\ eo = ep => (so = "Stray" <=> v = "peering")

MessageOK(ep, eo, so, M, k) ==
    /\ M[k].ev \in Requests \cup Releases
    /\ M[k].epoch <= eo /\ M[k].epoch <= ep
    /\ \A j \in 1 .. k : M[j].epoch <= M[k].epoch
    /\ M[k].epoch = eo => so # "Stray"

RequestOK(v, ep, eo, so, M, N, k) ==
    M[k].epoch = eo /\ M[k].ev \in Requests =>
        /\ Ready(M, k, eo, so)
        /\ \A j \in 1 .. Len(M) : M[j].epoch = eo /\ M[j].ev \in Requests => j = k
        /\ M[k].ev = "RequestRecoveryPrio" => k = Len(M)
        /\ eo = ep => \/ v = "drain" /\ M[k].ev = "RequestBackfillPrio"
                      \/ /\ v = Requested(M[k].ev)
                         /\ k = Len(M)
                         /\ None(N, eo, Answers)

(* RecoveryDone finds no peer that waits.                                   *)
DoneOK(eo, so, M, k) ==
    M[k].epoch = eo /\ M[k].ev = "RecoveryDone" =>
        IF k > 1 /\ M[k - 1].epoch = eo THEN M[k - 1].ev \notin Requests ELSE so \notin Waits

MessagesOK(v, ep, eo, so, M, N) ==
    \A k \in 1 .. Len(M) : /\ MessageOK(ep, eo, so, M, k)
                           /\ RequestOK(v, ep, eo, so, M, N, k)
                           /\ DoneOK(eo, so, M, k)

AnswerOK(v, ep, eo, so, M, N, k) ==
    N[k].epoch = ep /\ N[k].ev \in Answers =>
        \/ v = "drain" /\ N[k].ev # "RemoteRecoveryReserved"
        \/ /\ v = Answered(N[k].ev)
           /\ N[k].ev # "RemoteReservationRejectedTooFull" /\ eo = ep => Granted(M, eo, so)
           /\ \A j \in 1 .. Len(N) : N[j].epoch = ep /\ N[j].ev \in Answers => j = k

AnswersOK(v, ep, eo, so, M, N) ==
    \A k \in 1 .. Len(N) :
        /\ N[k].ev \in Answers \cup Notices
        /\ N[k].epoch <= eo /\ N[k].epoch <= ep
        /\ N[k].epoch = eo => so # "Stray"
        /\ N[k].epoch = ep => v # "peering"
        /\ AnswerOK(v, ep, eo, so, M, N, k)

HeldOK(v, ep, eo, so, M) ==
    eo = ep => /\ v \in {"free", "drain"} => Released(M, eo, so)
               /\ v = "granted" => Granted(M, eo, so)
               /\ v = "done" => Granted(M, eo, so) \/ Released(M, eo, so)

PairOK(v, ep, eo, so, M, N) ==
    /\ EpochOK(v, ep, eo, so)
    /\ MessagesOK(v, ep, eo, so, M, N)
    /\ AnswersOK(v, ep, eo, so, M, N)
    /\ HeldOK(v, ep, eo, so, M)

(* A grant ev of this interval that the peer's reserver may hold.           *)
DueOK(v, ep, eo, so, M, N, ev) ==
    /\ None(M, eo, Requests)
    /\ ev = "RemoteRecoveryReserved" => so = "RepWaitRecoveryReserved" /\ Clear(M, eo)
    /\ ev = "RemoteBackfillReserved" => so \in {"RepWaitBackfillReserved", "RepNotRecovering"}
    /\ eo = ep => \/ v = "drain" /\ ev = "RemoteBackfillReserved"
                  \/ /\ v = Answered(ev)
                     /\ so # "RepNotRecovering"
                     /\ Clear(M, eo)
                     /\ None(N, eo, Answers)

CallbackOK(v, ep, eo, so, M, N, c) ==
    /\ c.ev \in RemoteGrants \cup RemotePreemptions
    /\ c.epoch <= eo
    /\ c.epoch = eo => /\ so # "Stray"
                       /\ c.ev \in RemoteGrants => DueOK(v, ep, eo, so, M, N, c.ev)

----------------------------------------------------------------------------
(* Part three: a placement group q with the placement l.                    *)
BackfillStates == {"WaitLocalBackfillReserved", "WaitRemoteBackfillReserved",
                   "Backfilling", "NotBackfilling"}

LocalHolders == {"WaitLocalRecoveryReserved", "WaitRemoteRecoveryReserved", "Recovering",
                 "WaitLocalBackfillReserved", "WaitRemoteBackfillReserved", "Backfilling"}

RemoteHolders == {"RepWaitRecoveryReserved", "RepWaitBackfillReserved", "RepRecovering"}

Peers(l, kind) == Ordered(IF kind = "recovery" THEN l.replicas ELSE l.targets)

AskView(ps, it, o, v) ==
    IF o = ps[it] THEN v ELSE IF \E k \in 1 .. it - 1 : o = ps[k] THEN "granted" ELSE "free"

RetriesLate(q, l) ==
    \A t \in q.timers :
        t.ev = "RequestBackfill" /\ t.epoch = q.epoch[l.primary] => t.delay = "retry"

View(q, l, o) ==
    LET s == q.state[l.primary] IN
    CASE s = "Peering" -> "peering"
      [] s = "WaitRemoteRecoveryReserved" ->
            AskView(Peers(l, "recovery"), q.it, o, "asksRecovery")
      [] s = "WaitRemoteBackfillReserved" ->
            AskView(Peers(l, "backfill"), q.it, o, "asksBackfill")
      [] s = "Recovering" -> "granted"
      [] s = "Backfilling" -> IF o \notin l.targets THEN "free"
                              ELSE IF "backfill" \in q.todo THEN "granted" ELSE "done"
      [] s = "NotBackfilling" -> IF RetriesLate(q, l) THEN "drain" ELSE "free"
      [] OTHER -> "free"

PeerOK(q, l, o) ==
    PairOK(View(q, l, o), q.epoch[l.primary], q.epoch[o], q.state[o],
           q.toReplica[o], q.toPrimary[o])

OthersOK(q, l) ==
    \A o \in OSD \ l.replicas :
        /\ q.toReplica[o] = <<>> /\ q.toPrimary[o] = <<>>
        /\ o # l.primary => q.own[o] = <<>>
        /\ q.scan[o] = 0

(* What the primary has queued for itself.                                  *)
OwnOK(s, e, st, working, todo) ==
    \A k \in 1 .. Len(s) :
        /\ s[k].ev \in {"DoRecovery", "RequestBackfill", "AllReplicasRecovered", "Backfilled"}
        /\ s[k].epoch <= e
        /\ s[k].epoch = e => st # "Peering"
        /\ s[k].epoch = e /\ s[k].ev # "Backfilled" =>
              /\ st = "Activating" \/ (st = "Recovering" /\ ~working)
              /\ s[k].ev = "DoRecovery" => st = "Activating"
              /\ s[k].ev # "DoRecovery" => "recovery" \notin todo
              /\ \A j \in 1 .. Len(s) : s[j].epoch = e /\ s[j].ev # "Backfilled" => j = k

TimersOK(T, e, st) ==
    \A t \in T :
        /\ t.epoch <= e
        /\ t.epoch = e => st \notin {"Peering", "Activating"}
        /\ t.epoch = e /\ t.ev = "RequestBackfill" =>
              /\ st = "NotBackfilling"
              /\ \A u \in T : u.epoch = e /\ u.ev = "RequestBackfill" => u = t

WorkOK(st, it, working, todo, l) ==
    /\ st \in ActiveStates \cup {"Peering"}
    /\ st \in BackfillStates => "recovery" \notin todo
    /\ st = "Recovering" /\ ~working => "recovery" \notin todo
    /\ st = "WaitRemoteRecoveryReserved" => it \in 1 .. Cardinality(l.replicas)
    /\ st = "WaitRemoteBackfillReserved" => it \in 1 .. Cardinality(l.targets)

(* All that a peer queues for itself is that it is too full, and without    *)
(* scans it never finds that.                                               *)
ScansOK(q, l) ==
    /\ "scan" \notin l.may =>
          \A o \in OSD : q.scan[o] = 0 /\ (o # l.primary => q.own[o] = <<>>)
    /\ \A o \in OSD \ {l.primary} : \A k \in 1 .. Len(q.own[o]) :
          q.own[o][k].ev = "BackfillTooFull"

GroupOK(q, l) ==
    LET p == l.primary IN
    /\ \A o \in OSD : q.epoch[o] <= q.interval
    /\ \A o \in l.replicas : PeerOK(q, l, o)
    /\ OthersOK(q, l)
    /\ OwnOK(q.own[p], q.epoch[p], q.state[p], q.working, q.todo)
    /\ TimersOK(q.timers, q.epoch[p], q.state[p])
    /\ WorkOK(q.state[p], q.it, q.working, q.todo, l)
    /\ ScansOK(q, l)

----------------------------------------------------------------------------
(* Part four: the reservers fit the groups.                                 *)
LocalOK(q, l, o, c) ==
    /\ o = l.primary
    /\ c.ev \in {"LocalRecoveryReserved", "LocalBackfillReserved", "DeferRecovery",
                 "DeferBackfill"}
    /\ c.epoch <= q.epoch[o]
    /\ c.epoch = q.epoch[o] =>
          /\ q.state[o] # "Peering"
          /\ c.ev = "LocalRecoveryReserved" => q.state[o] = "WaitLocalRecoveryReserved"
          /\ c.ev = "LocalBackfillReserved" => q.state[o] = "WaitLocalBackfillReserved"

RemoteOK(q, l, o, c) ==
    /\ o \in l.replicas
    /\ CallbackOK(View(q, l, o), q.epoch[l.primary], q.epoch[o], q.state[o],
                  q.toReplica[o], q.toPrimary[o], c)

LocalSet(ly, ps, o) == {c \in Context : LocalOK(ps[c.pg], ly[c.pg], o, c)}

RemoteSet(ly, ps, o) == {c \in Context : RemoteOK(ps[c.pg], ly[c.pg], o, c)}

LocalHolding(ly, ps, o) ==
    {g \in PG : o = ly[g].primary /\ ps[g].state[o] \in LocalHolders}

RemoteHolding(ly, ps, o) ==
    {g \in PG : o \in ly[g].replicas /\ ps[g].state[o] \in RemoteHolders}

GroupsOK(ly, ps) == ps \in [PG -> PGRecord] /\ \A g \in PG : GroupOK(ps[g], ly[g])

LocalsOK(ly, ps, lo) ==
    \A o \in OSD : Fits(lo[o], LocalSet(ly, ps, o), LocalHolding(ly, ps, o))

RemotesOK(ly, ps, re) ==
    \A o \in OSD : Fits(re[o], RemoteSet(ly, ps, o), RemoteHolding(ly, ps, o))

Inv ==
    /\ TypeOK
    /\ GroupsOK(lay, pgs)
    /\ LocalsOK(lay, pgs, local)
    /\ RemotesOK(lay, pgs, remote)

----------------------------------------------------------------------------
(* What the reserver does keeps it fitting.                                 *)

LEMMA ContextIs ==
  ASSUME NEW c \in Context
  PROVE  c.pg \in PG /\ c.ev \in Events /\ c.epoch \in Interval
BY RecoveryReservationAssumption

LEMMA FitsTypes ==
  ASSUME NEW r, NEW A, NEW H, Fits(r, A, H)
  PROVE  /\ Sound(r) /\ r \in Reserver
         /\ r.f \in Seq(Context) /\ r.res \in [Item -> Reservation]
         /\ Queued(r) \subseteq Item /\ r.in_progress \subseteq Item
         /\ \A i \in Queued(r) : i \notin r.in_progress
BY SoundTypes DEF Fits, Sound, Queued, QueuesIndexed

(* A callback is handed to the Finisher.                                    *)
LEMMA FinisherTakes ==
  ASSUME NEW f \in Seq(Context), NEW c \in Context,
         \A j, k \in 1 .. Len(f) : f[j] = f[k] /\ f[j].ev \in GrantEvents => j = k,
         c.ev \in GrantEvents => c \notin Elems(f)
  PROVE  /\ Elems(Append(f, c)) = Elems(f) \cup {c}
         /\ \A j, k \in 1 .. Len(Append(f, c)) :
               Append(f, c)[j] = Append(f, c)[k] /\ Append(f, c)[j].ev \in GrantEvents => j = k
<1> DEFINE t == Append(f, c)
<1>1. /\ Len(f) \in Nat /\ Len(t) = Len(f) + 1
      /\ \A k \in 1 .. Len(f) : t[k] = f[k]
      /\ t[Len(f) + 1] = c
  BY AppendProperties, LenProperties
<1>2. Elems(t) = Elems(f) \cup {c}
  BY AppendElems
<1> HIDE DEF t
<1>3. \A k \in 1 .. Len(f) : f[k] \in Elems(f)
  BY DEF Elems
<1>4. ASSUME NEW j \in 1 .. Len(t), NEW k \in 1 .. Len(t), t[j] = t[k], t[j].ev \in GrantEvents
      PROVE  j = k
  BY <1>1, <1>3, <1>4
<1> QED
  BY <1>2, <1>4 DEF t

LEMMA FitsPreempt ==
  ASSUME NEW s, NEW A, NEW H, Fits(s, A, H), s.preempt_by_prio # {}
  PROVE  Fits(preempt_one(s), A, H)
<1> DEFINE t == preempt_one(s)
<1>1. Sound(s) /\ Sound(t) /\ t.queues = s.queues
  BY PreemptOne DEF Fits
<1>2. PICK v \in s.in_progress :
         /\ s.res[v].preempt # Null
         /\ t.in_progress = s.in_progress \ {v}
         /\ t.res = [s.res EXCEPT ![v] = Nil]
         /\ t.f = Append(s.f, s.res[v].preempt)
  BY <1>1, PreemptOne
<1> HIDE DEF t
<1>3. Queued(t) = Queued(s)
  BY <1>1 DEF Queued
<1>4. v \in Item /\ v \notin Queued(s) /\ HasReservation(s, v)
  BY <1>1, FitsTypes DEF HasReservation
<1>5. \A i \in Item : i # v => t.res[i] = s.res[i]
  BY <1>2, FitsTypes
<1>6. \A i \in Item : HasReservation(t, i) => i # v /\ HasReservation(s, i)
  BY <1>2, <1>3, <1>4 DEF HasReservation
<1> DEFINE c == s.res[v].preempt
<1>7. c \in A /\ c.ev \notin GrantEvents /\ c \in Context
  BY <1>1, <1>2, <1>4, SoundTypes DEF Fits
<1>8. s.f \in Seq(Context)
  BY <1>1, SoundTypes
<1>9. \A j, k \in 1 .. Len(s.f) : s.f[j] = s.f[k] /\ s.f[j].ev \in GrantEvents => j = k
  BY DEF Fits
<1>10. t.f = Append(s.f, c)
  BY <1>2
<1> HIDE DEF c
<1>11. /\ Elems(t.f) = Elems(s.f) \cup {c}
       /\ \A j, k \in 1 .. Len(t.f) : t.f[j] = t.f[k] /\ t.f[j].ev \in GrantEvents => j = k
  BY <1>7, <1>8, <1>9, <1>10, FinisherTakes
<1>12. \A i \in Item : HasReservation(t, i) =>
          i \in H /\ t.res[i].preempt \in A /\ t.res[i].preempt.ev \notin GrantEvents
  BY <1>5, <1>6 DEF Fits
<1>13. \A i \in Queued(t) : /\ t.res[i].grant \in A
                            /\ t.res[i].grant.ev \in GrantEvents
                            /\ t.res[i].grant.pg = i
                            /\ t.res[i].grant \notin Elems(t.f)
  <2> SUFFICES ASSUME NEW i \in Queued(t)
               PROVE  /\ t.res[i].grant \in A
                      /\ t.res[i].grant.ev \in GrantEvents
                      /\ t.res[i].grant.pg = i
                      /\ t.res[i].grant \notin Elems(t.f)
    OBVIOUS
  <2>1. i \in Queued(s) /\ i \in Item /\ i # v
    BY <1>3, <1>4 DEF Queued
  <2> QED
    BY <1>5, <1>7, <1>11, <2>1 DEF Fits
<1>14. \A x \in Elems(t.f) : x \in A
  BY <1>7, <1>11 DEF Fits
<1> QED
  BY <1>1, <1>11, <1>12, <1>13, <1>14 DEF Fits, t

LEMMA FitsGrant ==
  ASSUME NEW s, NEW A, NEW H, Fits(s, A, H), Waiting(s) # {}
  PROVE  Fits(grant(s), A, H)
<1> DEFINE t == grant(s)
<1>1. Sound(s) /\ Sound(t)
  BY Grant DEF Fits
<1>2. PICK v \in Queued(s) :
         /\ Queued(t) = Queued(s) \ {v}
         /\ t.in_progress = s.in_progress \cup {v}
         /\ t.res = [s.res EXCEPT ![v].grant = Null]
         /\ t.f = Append(s.f, s.res[v].grant)
  BY <1>1, Grant
<1> HIDE DEF t
<1>3. v \in Item /\ HasReservation(s, v)
  BY DEF HasReservation, Queued
<1>4. /\ \A i \in Item : i # v => t.res[i] = s.res[i]
      /\ t.res[v].preempt = s.res[v].preempt
  BY <1>2, <1>3, FitsTypes DEF Reservation
<1>5. \A i \in Item : HasReservation(t, i) => HasReservation(s, i)
  BY <1>2, <1>3 DEF HasReservation
<1> DEFINE c == s.res[v].grant
<1>6. c \in A /\ c.ev \in GrantEvents /\ c.pg = v /\ c \notin Elems(s.f)
  BY DEF Fits
<1>7. c # Null
  BY <1>1, <1>3 DEF Sound, HoldsCallbacks
<1>8. s.f \in Seq(Context) /\ c \in Context
  BY <1>1, <1>3, <1>7, SoundTypes
<1>9. \A j, k \in 1 .. Len(s.f) : s.f[j] = s.f[k] /\ s.f[j].ev \in GrantEvents => j = k
  BY DEF Fits
<1>10. t.f = Append(s.f, c)
  BY <1>2
<1> HIDE DEF c
<1>11. /\ Elems(t.f) = Elems(s.f) \cup {c}
       /\ \A j, k \in 1 .. Len(t.f) : t.f[j] = t.f[k] /\ t.f[j].ev \in GrantEvents => j = k
  BY <1>6, <1>8, <1>9, <1>10, FinisherTakes
<1>12. \A i \in Item : HasReservation(t, i) =>
          i \in H /\ t.res[i].preempt \in A /\ t.res[i].preempt.ev \notin GrantEvents
  BY <1>4, <1>5 DEF Fits
<1>13. \A i \in Queued(t) : /\ t.res[i].grant \in A
                            /\ t.res[i].grant.ev \in GrantEvents
                            /\ t.res[i].grant.pg = i
                            /\ t.res[i].grant \notin Elems(t.f)
  <2> SUFFICES ASSUME NEW i \in Queued(t)
               PROVE  /\ t.res[i].grant \in A
                      /\ t.res[i].grant.ev \in GrantEvents
                      /\ t.res[i].grant.pg = i
                      /\ t.res[i].grant \notin Elems(t.f)
    OBVIOUS
  <2>1. i \in Queued(s) /\ i \in Item /\ i # v
    BY <1>2 DEF Queued
  <2> QED
    BY <1>4, <1>6, <1>11, <2>1 DEF Fits
<1>14. \A x \in Elems(t.f) : x \in A
  BY <1>6, <1>11 DEF Fits
<1> QED
  BY <1>1, <1>11, <1>12, <1>13, <1>14 DEF Fits, t

(* An iteration of each of the loops of do_queues.                          *)
LEMMA FitsShed ==
  ASSUME NEW s, NEW A, NEW H, Fits(s, A, H)
  PROVE  Fits(shed(s), A, H)
BY FitsPreempt DEF shed, MustShed

LEMMA FitsServe ==
  ASSUME NEW s, NEW A, NEW H, Fits(s, A, H)
  PROVE  Fits(serve(s), A, H)
<1> DEFINE t == IF Outranked(s) THEN preempt_one(s) ELSE s
<1>1. Fits(t, A, H)
  BY FitsPreempt DEF Outranked
<1>2. MayServe(s) => Waiting(t) # {}
  <2>1. Outranked(s) => preempt_one(s).queues = s.queues
    BY PreemptOne DEF Outranked, Fits
  <2> QED
    BY <2>1 DEF MayServe, Waiting
<1> HIDE DEF t
<1>3. MayServe(s) => Fits(grant(t), A, H)
  BY <1>1, <1>2, FitsGrant
<1>4. serve(s) = IF ~MayServe(s) THEN s ELSE IF Full(t) THEN t ELSE grant(t)
  BY DEF serve, t
<1> QED
  BY <1>1, <1>3, <1>4

LEMMA RoundsIs == Rounds \in Nat
BY ReservationsAssumption, FS_CardinalityType DEF Rounds

(* A loop of n iterations is what its definition says: the iterates exist.  *)
Shedding(r, f, n) == f = [k \in 0 .. n |-> IF k = 0 THEN r ELSE shed(f[k - 1])]

Serving(r, f, n) == f = [k \in 0 .. n |-> IF k = 0 THEN r ELSE serve(f[k - 1])]

LEMMA SheddingExists ==
  ASSUME NEW r, NEW n \in Nat
  PROVE  \E f : Shedding(r, f, n)
<1> DEFINE T == {m \in Nat : ~ \E f : Shedding(r, f, m)}
<1>1. SUFFICES ASSUME T # {} PROVE FALSE
  OBVIOUS
<1>2. PICK m \in T : \A x \in T : m <= x
  BY <1>1, NatMin
<1>3. CASE m = 0
  <2> DEFINE f == [k \in 0 .. 0 |-> r]
  <2>1. f = [k \in 0 .. 0 |-> IF k = 0 THEN r ELSE shed(f[k - 1])]
    OBVIOUS
  <2> QED
    BY <1>3, <2>1 DEF Shedding
<1>4. CASE m # 0
  <2>1. m - 1 \in Nat /\ m - 1 \notin T
    BY <1>2, <1>4
  <2>2. PICK f : Shedding(r, f, m - 1)
    BY <2>1
  <2> DEFINE h == [k \in 0 .. m |-> IF k < m THEN f[k] ELSE shed(f[m - 1])]
  <2>3. \A k \in 0 .. m - 1 : f[k] = IF k = 0 THEN r ELSE shed(f[k - 1])
    BY <2>1, <2>2 DEF Shedding
  <2>4. \A k \in 0 .. m : h[k] = IF k = 0 THEN r ELSE shed(h[k - 1])
    <3> SUFFICES ASSUME NEW k \in 0 .. m PROVE h[k] = IF k = 0 THEN r ELSE shed(h[k - 1])
      OBVIOUS
    <3>1. CASE k = 0
      BY <1>4, <2>1, <2>3, <3>1
    <3>2. CASE k # 0
      <4>1. k - 1 \in 0 .. m - 1 /\ h[k - 1] = f[k - 1]
        BY <2>1, <3>2
      <4>2. CASE k < m
        BY <2>1, <2>3, <3>2, <4>1, <4>2
      <4>3. CASE k = m
        BY <2>1, <3>2, <4>1, <4>3
      <4> QED
        BY <2>1, <4>2, <4>3
    <3> QED
      BY <3>1, <3>2
  <2>5. h = [k \in 0 .. m |-> h[k]]
    OBVIOUS
  <2> HIDE DEF h
  <2>6. h = [k \in 0 .. m |-> IF k = 0 THEN r ELSE shed(h[k - 1])]
    BY <2>4, <2>5
  <2> QED
    BY <2>6 DEF Shedding
<1> QED
  BY <1>3, <1>4

LEMMA FitsDoShed ==
  ASSUME NEW r, NEW A, NEW H, Fits(r, A, H)
  PROVE  Fits(do_shed(r), A, H)
<1> DEFINE f == CHOOSE s : Shedding(r, s, Rounds)
<1>1. Shedding(r, f, Rounds)
  BY RoundsIs, SheddingExists
<1>2. do_shed(r) = f[Rounds]
  BY DEF do_shed, Shedding
<1> HIDE DEF f
<1>3. \A k \in 0 .. Rounds : f[k] = IF k = 0 THEN r ELSE shed(f[k - 1])
  BY <1>1, RoundsIs DEF Shedding
<1> DEFINE T == {k \in 0 .. Rounds : ~Fits(f[k], A, H)}
<1>4. SUFFICES ASSUME T # {} PROVE FALSE
  BY <1>2, RoundsIs
<1> HIDE DEF T
<1>5. PICK m \in T : \A x \in T : m <= x
  <2>1. T \in SUBSET Nat
    BY RoundsIs DEF T
  <2> QED
    BY <1>4, <2>1, NatMin
<1>6. m # 0 /\ m - 1 \in 0 .. Rounds /\ m - 1 \notin T
  BY <1>3, <1>5, RoundsIs DEF T
<1>7. Fits(shed(f[m - 1]), A, H)
  BY <1>6, FitsShed DEF T
<1> QED
  BY <1>3, <1>5, <1>6, <1>7 DEF T

LEMMA ServingExists ==
  ASSUME NEW r, NEW n \in Nat
  PROVE  \E f : Serving(r, f, n)
<1> DEFINE T == {m \in Nat : ~ \E f : Serving(r, f, m)}
<1>1. SUFFICES ASSUME T # {} PROVE FALSE
  OBVIOUS
<1>2. PICK m \in T : \A x \in T : m <= x
  BY <1>1, NatMin
<1>3. CASE m = 0
  <2> DEFINE f == [k \in 0 .. 0 |-> r]
  <2>1. f = [k \in 0 .. 0 |-> IF k = 0 THEN r ELSE serve(f[k - 1])]
    OBVIOUS
  <2> QED
    BY <1>3, <2>1 DEF Serving
<1>4. CASE m # 0
  <2>1. m - 1 \in Nat /\ m - 1 \notin T
    BY <1>2, <1>4
  <2>2. PICK f : Serving(r, f, m - 1)
    BY <2>1
  <2> DEFINE h == [k \in 0 .. m |-> IF k < m THEN f[k] ELSE serve(f[m - 1])]
  <2>3. \A k \in 0 .. m - 1 : f[k] = IF k = 0 THEN r ELSE serve(f[k - 1])
    BY <2>1, <2>2 DEF Serving
  <2>4. \A k \in 0 .. m : h[k] = IF k = 0 THEN r ELSE serve(h[k - 1])
    <3> SUFFICES ASSUME NEW k \in 0 .. m PROVE h[k] = IF k = 0 THEN r ELSE serve(h[k - 1])
      OBVIOUS
    <3>1. CASE k = 0
      BY <1>4, <2>1, <2>3, <3>1
    <3>2. CASE k # 0
      <4>1. k - 1 \in 0 .. m - 1 /\ h[k - 1] = f[k - 1]
        BY <2>1, <3>2
      <4>2. CASE k < m
        BY <2>1, <2>3, <3>2, <4>1, <4>2
      <4>3. CASE k = m
        BY <2>1, <3>2, <4>1, <4>3
      <4> QED
        BY <2>1, <4>2, <4>3
    <3> QED
      BY <3>1, <3>2
  <2>5. h = [k \in 0 .. m |-> h[k]]
    OBVIOUS
  <2> HIDE DEF h
  <2>6. h = [k \in 0 .. m |-> IF k = 0 THEN r ELSE serve(h[k - 1])]
    BY <2>4, <2>5
  <2> QED
    BY <2>6 DEF Serving
<1> QED
  BY <1>3, <1>4

LEMMA FitsDoServe ==
  ASSUME NEW r, NEW A, NEW H, Fits(r, A, H)
  PROVE  Fits(do_serve(r), A, H)
<1> DEFINE f == CHOOSE s : Serving(r, s, Rounds)
<1>1. Serving(r, f, Rounds)
  BY RoundsIs, ServingExists
<1>2. do_serve(r) = f[Rounds]
  BY DEF do_serve, Serving
<1> HIDE DEF f
<1>3. \A k \in 0 .. Rounds : f[k] = IF k = 0 THEN r ELSE serve(f[k - 1])
  BY <1>1, RoundsIs DEF Serving
<1> DEFINE T == {k \in 0 .. Rounds : ~Fits(f[k], A, H)}
<1>4. SUFFICES ASSUME T # {} PROVE FALSE
  BY <1>2, RoundsIs
<1> HIDE DEF T
<1>5. PICK m \in T : \A x \in T : m <= x
  <2>1. T \in SUBSET Nat
    BY RoundsIs DEF T
  <2> QED
    BY <1>4, <2>1, NatMin
<1>6. m # 0 /\ m - 1 \in 0 .. Rounds /\ m - 1 \notin T
  BY <1>3, <1>5, RoundsIs DEF T
<1>7. Fits(serve(f[m - 1]), A, H)
  BY <1>6, FitsServe DEF T
<1> QED
  BY <1>3, <1>5, <1>6, <1>7 DEF T

LEMMA FitsDoQueues ==
  ASSUME NEW r, NEW A, NEW H, Fits(r, A, H)
  PROVE  Fits(do_queues(r), A, H)
BY FitsDoShed, FitsDoServe DEF do_queues

(* A group asks for a slot, or gives up its slot or its place in a queue.   *)
LEMMA FitsRequest ==
  ASSUME NEW s, NEW A, NEW H, Fits(s, A, H), NEW i \in Item, i \in H, ~HasReservation(s, i),
         NEW c \in Context, NEW p \in Prio, NEW d \in Context,
         c \in A, c.ev \in GrantEvents, c.pg = i, c \notin Elems(s.f),
         d \in A, d.ev \notin GrantEvents
  PROVE  Fits(do_queues(request_reservation(s, i, c, p, d)), A, H)
<1> DEFINE t == request_reservation(s, i, c, p, d)
<1>1. Sound(s)
  BY DEF Fits
<1>2. /\ Sound(t)
      /\ Queued(t) = Queued(s) \cup {i}
      /\ t.in_progress = s.in_progress
      /\ t.res = [s.res EXCEPT ![i] = [prio |-> p, grant |-> c, preempt |-> d]]
      /\ t.f = s.f
  BY <1>1, RequestReservation
<1> HIDE DEF t
<1>3. /\ \A j \in Item : j # i => t.res[j] = s.res[j]
      /\ t.res[i].grant = c /\ t.res[i].preempt = d
  BY <1>2, FitsTypes
<1>4. \A j \in Item : HasReservation(t, j) => j = i \/ HasReservation(s, j)
  BY <1>2 DEF HasReservation
<1>5. \A j \in Queued(t) : j = i \/ (j \in Queued(s) /\ j \in Item /\ j # i)
  BY <1>2 DEF Queued
<1>6. \A j \in Item : HasReservation(t, j) =>
          j \in H /\ t.res[j].preempt \in A /\ t.res[j].preempt.ev \notin GrantEvents
  BY <1>3, <1>4 DEF Fits
<1>7. \A j \in Queued(t) : /\ t.res[j].grant \in A
                           /\ t.res[j].grant.ev \in GrantEvents
                           /\ t.res[j].grant.pg = j
                           /\ t.res[j].grant \notin Elems(t.f)
  BY <1>2, <1>3, <1>5 DEF Fits
<1>8. Fits(t, A, H)
  BY <1>2, <1>6, <1>7 DEF Fits
<1> QED
  BY <1>8, FitsDoQueues DEF t

LEMMA FitsCancel ==
  ASSUME NEW s, NEW A, NEW H, Fits(s, A, H), NEW i \in Item
  PROVE  Fits(do_queues(cancel_reservation(s, i)), A, H \ {i})
<1> DEFINE t == cancel_reservation(s, i)
<1>1. Sound(s)
  BY DEF Fits
<1>2. /\ Sound(t)
      /\ Queued(t) = Queued(s) \ {i}
      /\ t.in_progress = s.in_progress \ {i}
      /\ t.res = [s.res EXCEPT ![i] = Nil]
      /\ t.f = s.f
  BY <1>1, CancelReservation
<1> HIDE DEF t
<1>3. \A j \in Item : j # i => t.res[j] = s.res[j]
  BY <1>2, FitsTypes
<1>4. \A j \in Item : HasReservation(t, j) => j # i /\ HasReservation(s, j)
  BY <1>2 DEF HasReservation
<1>5. \A j \in Queued(t) : j \in Queued(s) /\ j \in Item /\ j # i
  BY <1>2 DEF Queued
<1>6. \A j \in Item : HasReservation(t, j) =>
          j \in H \ {i} /\ t.res[j].preempt \in A /\ t.res[j].preempt.ev \notin GrantEvents
  BY <1>3, <1>4 DEF Fits
<1>7. \A j \in Queued(t) : /\ t.res[j].grant \in A
                           /\ t.res[j].grant.ev \in GrantEvents
                           /\ t.res[j].grant.pg = j
                           /\ t.res[j].grant \notin Elems(t.f)
  BY <1>2, <1>3, <1>5 DEF Fits
<1>8. Fits(t, A, H \ {i})
  BY <1>2, <1>6, <1>7 DEF Fits
<1> QED
  BY <1>8, FitsDoQueues DEF t

(* The Finisher completes its first callback: a grant is not due again.     *)
LEMMA FitsFinish ==
  ASSUME NEW s, NEW A, NEW H, Fits(s, A, H), s.f # <<>>
  PROVE  /\ Head(s.f) \in A /\ Head(s.f) \in Context
         /\ Head(s.f).ev \in GrantEvents =>
               Fits([s EXCEPT !.f = Tail(@)], A \ {Head(s.f)}, H)
         /\ Fits([s EXCEPT !.f = Tail(@)], A, H)
<1> DEFINE t == [s EXCEPT !.f = Tail(@)]
           c == Head(s.f)
<1>1. Sound(s) /\ s \in Reserver /\ s.f \in Seq(Context)
  BY FitsTypes
<1>2. /\ Tail(s.f) \in Seq(Context) /\ c \in Context /\ c \in Elems(s.f)
      /\ Elems(s.f) = Elems(Tail(s.f)) \cup {c}
  BY <1>1, TailElems
<1>3. /\ t \in Reserver /\ t.f = Tail(s.f) /\ t.queues = s.queues /\ t.res = s.res
      /\ t.in_progress = s.in_progress /\ t.preempt_by_prio = s.preempt_by_prio
  BY <1>1, <1>2 DEF Reserver
<1>4. /\ Len(s.f) \in Nat \ {0} /\ Len(Tail(s.f)) = Len(s.f) - 1 /\ c = s.f[1]
      /\ \A k \in 1 .. Len(Tail(s.f)) : Tail(s.f)[k] = s.f[k + 1]
  BY <1>1, HeadTailProperties, LenProperties, EmptySeq
<1> HIDE DEF t, c
<1>5. Queued(t) = Queued(s) /\ \A i : HasReservation(t, i) <=> HasReservation(s, i)
  BY <1>3 DEF Queued, HasReservation
<1>6. Sound(t)
  BY <1>1, <1>3, <1>5
     DEF Sound, QueuesDistinct, QueuesIndexed, PreemptIndexed, HoldsCallbacks
<1> DEFINE n == Len(Tail(s.f))
<1>7. \A j, k \in 1 .. n : s.f[j + 1] = s.f[k + 1] /\ s.f[j + 1].ev \in GrantEvents => j = k
  <2>1. \A j \in 1 .. n : j + 1 \in 1 .. Len(s.f)
    BY <1>4
  <2>2. \A j, k \in 1 .. n : j + 1 = k + 1 => j = k
    BY <1>4
  <2> QED
    BY <2>1, <2>2 DEF Fits
<1>8. \A j, k \in 1 .. Len(t.f) : t.f[j] = t.f[k] /\ t.f[j].ev \in GrantEvents => j = k
  <2>1. Len(t.f) = n /\ \A k \in 1 .. n : t.f[k] = s.f[k + 1]
    BY <1>3, <1>4
  <2> HIDE DEF n
  <2> QED
    BY <1>7, <2>1
<1>9. c.ev \in GrantEvents => c \notin Elems(t.f)
  <2>1. \A j \in 1 .. n : j + 1 \in 1 .. Len(s.f) /\ j + 1 # 1
    BY <1>4
  <2>2. c.ev \in GrantEvents => \A j \in 1 .. n : s.f[j + 1] # c
    BY <1>4, <2>1 DEF Fits
  <2> QED
    BY <1>3, <1>4, <2>2 DEF Elems
<1>10. Fits(t, A, H)
  BY <1>2, <1>3, <1>5, <1>6, <1>8 DEF Fits
<1>11. ASSUME c.ev \in GrantEvents PROVE Fits(t, A \ {c}, H)
  BY <1>2, <1>3, <1>5, <1>6, <1>8, <1>9, <1>11 DEF Fits
<1> QED
  BY <1>2, <1>10, <1>11 DEF Fits, t, c

(* The groups change and the reserver does not.                             *)
LEMMA FitsMove ==
  ASSUME NEW r, NEW A, NEW H, NEW B, NEW J, Fits(r, A, H),
         \A c \in A : Holds(r, c) => c \in B,
         \A i \in H : HasReservation(r, i) => i \in J
  PROVE  Fits(r, B, J)
<1>1. \A i \in Item : HasReservation(r, i) =>
          i \in J /\ r.res[i].preempt \in B /\ r.res[i].preempt.ev \notin GrantEvents
  BY DEF Fits, Holds
<1>2. \A i \in Queued(r) : /\ r.res[i].grant \in B
                           /\ r.res[i].grant.ev \in GrantEvents
                           /\ r.res[i].grant.pg = i
                           /\ r.res[i].grant \notin Elems(r.f)
  BY DEF Fits, Holds
<1>3. \A c \in Elems(r.f) : c \in B
  BY DEF Fits, Holds
<1> QED
  BY <1>1, <1>2, <1>3 DEF Fits

----------------------------------------------------------------------------
(* What the primary and the peer do keeps the pair in order.                *)

LEMMA EventIs ==
  ASSUME NEW e \in Event
  PROVE  e.ev \in Events /\ e.epoch \in Nat
BY RecoveryReservationAssumption DEF Event, Interval

LEMMA MessageIs ==
  ASSUME NEW s \in Seq(Event), NEW k \in 1 .. Len(s)
  PROVE  s[k] \in Event /\ s[k].epoch \in Nat
<1>1. s[k] \in Event
  BY ElementOfSeq
<1> QED
  BY <1>1, EventIs

LEMMA AppendIs ==
  ASSUME NEW s \in Seq(Event), NEW e \in Event
  PROVE  /\ Append(s, e) \in Seq(Event)
         /\ Len(s) \in Nat /\ Len(Append(s, e)) = Len(s) + 1
         /\ \A k \in 1 .. Len(s) : Append(s, e)[k] = s[k]
         /\ Append(s, e)[Len(s) + 1] = e
         /\ \A k \in 1 .. Len(s) + 1 : k \in 1 .. Len(s) \/ k = Len(s) + 1
<1>1. Len(s) \in Nat
  BY LenProperties
<1> QED
  BY <1>1, AppendProperties

LEMMA TailIs ==
  ASSUME NEW s \in Seq(Event), s # <<>>
  PROVE  /\ Tail(s) \in Seq(Event)
         /\ Len(s) \in Nat \ {0} /\ Len(Tail(s)) = Len(s) - 1
         /\ Head(s) = s[1] /\ Head(s) \in Event
         /\ \A k \in 1 .. Len(Tail(s)) : Tail(s)[k] = s[k + 1] /\ k + 1 \in 1 .. Len(s)
<1>1. Len(s) \in Nat \ {0}
  BY LenProperties, EmptySeq
<1> QED
  BY <1>1, HeadTailProperties

(* A message from the peer is taken off its queue.                          *)
LEMMA PairPop ==
  ASSUME NEW v, NEW ep \in Nat, NEW eo \in Nat, NEW so, NEW M \in Seq(Event),
         NEW N \in Seq(Event), N # <<>>, PairOK(v, ep, eo, so, M, N)
  PROVE  /\ PairOK(v, ep, eo, so, M, Tail(N))
         /\ \A c : CallbackOK(v, ep, eo, so, M, N, c) =>
                   CallbackOK(v, ep, eo, so, M, Tail(N), c)
         /\ Head(N).ev \in Answers \cup Notices
         /\ Head(N).epoch <= ep
         /\ Head(N).epoch = ep => v # "peering"
         /\ Head(N).epoch = ep /\ Head(N).ev \in Answers /\ v # "drain" =>
               /\ v = Answered(Head(N).ev)
               /\ Head(N).ev # "RemoteReservationRejectedTooFull" /\ eo = ep => Granted(M, eo, so)
               /\ None(Tail(N), ep, Answers)
         /\ Head(N).epoch = ep /\ v = "drain" => Head(N).ev # "RemoteRecoveryReserved"
<1> DEFINE T == Tail(N)
<1>1. /\ T \in Seq(Event) /\ Len(N) \in Nat \ {0} /\ Len(T) = Len(N) - 1 /\ Head(N) = N[1]
      /\ \A k \in 1 .. Len(T) : T[k] = N[k + 1] /\ k + 1 \in 1 .. Len(N)
  BY TailIs
<1> HIDE DEF T
<1>2. \A e, S : None(N, e, S) => None(T, e, S)
  BY <1>1 DEF None
<1>3. MessagesOK(v, ep, eo, so, M, T)
  BY <1>2 DEF PairOK, MessagesOK, RequestOK
<1>4. AnswersOK(v, ep, eo, so, M, T)
  <2> SUFFICES ASSUME NEW k \in 1 .. Len(T)
               PROVE  /\ T[k].ev \in Answers \cup Notices
                      /\ T[k].epoch <= eo /\ T[k].epoch <= ep
                      /\ T[k].epoch = eo => so # "Stray"
                      /\ T[k].epoch = ep => v # "peering"
                      /\ AnswerOK(v, ep, eo, so, M, T, k)
    BY DEF AnswersOK
  <2>1. T[k] = N[k + 1] /\ k + 1 \in 1 .. Len(N)
    BY <1>1
  <2>2. AnswerOK(v, ep, eo, so, M, N, k + 1)
    BY <2>1 DEF PairOK, AnswersOK
  <2>3. ASSUME \A j \in 1 .. Len(N) : N[j].epoch = ep /\ N[j].ev \in Answers => j = k + 1
        PROVE  \A j \in 1 .. Len(T) : T[j].epoch = ep /\ T[j].ev \in Answers => j = k
    <3>1. \A j \in 1 .. Len(T) : j + 1 = k + 1 => j = k
      BY <1>1
    <3> QED
      BY <1>1, <2>3, <3>1
  <2>4. AnswerOK(v, ep, eo, so, M, T, k)
    BY <2>1, <2>2, <2>3 DEF AnswerOK
  <2> QED
    BY <2>1, <2>4 DEF PairOK, AnswersOK
<1>5. PairOK(v, ep, eo, so, M, T)
  BY <1>3, <1>4 DEF PairOK
<1>6. \A c : CallbackOK(v, ep, eo, so, M, N, c) => CallbackOK(v, ep, eo, so, M, T, c)
  BY <1>2 DEF CallbackOK, DueOK
<1>7. 1 \in 1 .. Len(N)
  BY <1>1
<1>8. /\ N[1].ev \in Answers \cup Notices
      /\ N[1].epoch <= ep
      /\ N[1].epoch = ep => v # "peering"
      /\ AnswerOK(v, ep, eo, so, M, N, 1)
  BY <1>7 DEF PairOK, AnswersOK
<1>9. (\A j \in 1 .. Len(N) : N[j].epoch = ep /\ N[j].ev \in Answers => j = 1)
         => None(T, ep, Answers)
  <2>1. \A k \in 1 .. Len(T) : k + 1 # 1
    BY <1>1
  <2> QED
    BY <1>1, <2>1 DEF None
<1>10. ASSUME N[1].epoch = ep, v = "drain" PROVE N[1].ev # "RemoteRecoveryReserved"
  BY <1>8, <1>10 DEF AnswerOK, Answers, Answered
<1>11. ASSUME N[1].epoch = ep, N[1].ev \in Answers, v # "drain"
       PROVE  /\ v = Answered(N[1].ev)
              /\ N[1].ev # "RemoteReservationRejectedTooFull" /\ eo = ep => Granted(M, eo, so)
              /\ None(T, ep, Answers)
  BY <1>8, <1>9, <1>11 DEF AnswerOK
<1> QED
  BY <1>1, <1>5, <1>6, <1>8, <1>10, <1>11 DEF T

(* The primary changes what it takes the peer for, with no answer on its    *)
(* way and no request.                                                      *)
LEMMA PairTurn ==
  ASSUME NEW v, NEW u, NEW ep \in Nat, NEW eo \in Nat, NEW so, NEW M \in Seq(Event),
         NEW N \in Seq(Event), PairOK(v, ep, eo, so, M, N),
         v # "peering", u # "peering", None(N, ep, Answers),
         eo = ep => None(M, eo, Requests), HeldOK(u, ep, eo, so, M)
  PROVE  PairOK(u, ep, eo, so, M, N)
<1>1. EpochOK(u, ep, eo, so)
  BY DEF PairOK, EpochOK
<1>2. MessagesOK(u, ep, eo, so, M, N)
  BY DEF PairOK, MessagesOK, RequestOK, None
<1>3. AnswersOK(u, ep, eo, so, M, N)
  BY DEF PairOK, AnswersOK, AnswerOK, None
<1> QED
  BY <1>1, <1>2, <1>3 DEF PairOK

(* When no answer is awaited there is none, and no request.                 *)
LEMMA PairQuiet ==
  ASSUME NEW v, NEW ep \in Nat, NEW eo \in Nat, NEW so, NEW M \in Seq(Event),
         NEW N \in Seq(Event), PairOK(v, ep, eo, so, M, N),
         v \in {"free", "granted", "done"}
  PROVE  /\ None(N, ep, Answers)
         /\ eo = ep => None(M, eo, Requests)
         /\ \A c : CallbackOK(v, ep, eo, so, M, N, c) =>
                   (eo = ep /\ c.epoch = eo => c.ev \notin RemoteGrants)
<1>1. None(N, ep, Answers)
  BY DEF PairOK, AnswersOK, AnswerOK, None, Answered
<1>2. eo = ep => None(M, eo, Requests)
  BY DEF PairOK, MessagesOK, RequestOK, None, Requested
<1>3. \A c : CallbackOK(v, ep, eo, so, M, N, c) =>
             (eo = ep /\ c.epoch = eo => c.ev \notin RemoteGrants)
  BY DEF CallbackOK, DueOK, Answered
<1> QED
  BY <1>1, <1>2, <1>3

(* Callbacks without grants of this interval do not depend on the primary.  *)
LEMMA CallbackTurn ==
  ASSUME NEW v, NEW u, NEW ep \in Nat, NEW eo \in Nat, NEW so, NEW M \in Seq(Event),
         NEW N \in Seq(Event), NEW c, CallbackOK(v, ep, eo, so, M, N, c),
         eo = ep /\ c.epoch = eo => c.ev \notin RemoteGrants
  PROVE  CallbackOK(u, ep, eo, so, M, N, c)
BY DEF CallbackOK, DueOK

(* The primary asks a free peer.                                            *)
LEMMA PairAsk ==
  ASSUME NEW ep \in Nat, NEW eo \in Nat, NEW so, NEW M \in Seq(Event),
         NEW N \in Seq(Event), PairOK("free", ep, eo, so, M, N),
         NEW m \in Event, m.ev \in Requests, m.epoch = ep
  PROVE  /\ PairOK(Requested(m.ev), ep, eo, so, Append(M, m), N)
         /\ \A c : CallbackOK("free", ep, eo, so, M, N, c) =>
                   CallbackOK(Requested(m.ev), ep, eo, so, Append(M, m), N, c)
<1> DEFINE T == Append(M, m)
           u == Requested(m.ev)
<1>1. /\ T \in Seq(Event) /\ Len(M) \in Nat /\ Len(T) = Len(M) + 1
      /\ \A k \in 1 .. Len(M) : T[k] = M[k]
      /\ T[Len(M) + 1] = m
      /\ \A k \in 1 .. Len(T) : k \in 1 .. Len(M) \/ k = Len(M) + 1
  BY AppendIs
<1>2. /\ None(N, ep, Answers)
      /\ eo = ep => None(M, eo, Requests)
      /\ \A c : CallbackOK("free", ep, eo, so, M, N, c) =>
                (eo = ep /\ c.epoch = eo => c.ev \notin RemoteGrants)
  BY PairQuiet
<1>3. u \in {"asksRecovery", "asksBackfill"}
  BY DEF Requested
<1>4. ep <= eo /\ (eo = ep => so # "Stray") /\ (eo # ep => so = "Stray")
  BY DEF PairOK, EpochOK
<1>5. m.ev \notin Releases
  BY DEF Requests, Releases
<1>6. eo = ep => Ready(M, Len(M) + 1, eo, so)
  BY DEF PairOK, HeldOK, Released
<1>7. \A k \in 1 .. Len(M) : MessageOK(ep, eo, so, M, k) /\ DoneOK(eo, so, M, k)
                             /\ M[k].epoch \in Nat
  BY MessageIs DEF PairOK, MessagesOK
<1> HIDE DEF T
<1>8. ASSUME NEW k \in 1 .. Len(T)
      PROVE  MessageOK(ep, eo, so, T, k)
  <2>1. CASE k \in 1 .. Len(M)
    <3>1. \A j \in 1 .. k : j \in 1 .. Len(M) /\ T[j] = M[j]
      BY <1>1, <2>1
    <3> QED
      BY <1>1, <1>7, <2>1, <3>1 DEF MessageOK
  <2>2. CASE k = Len(M) + 1
    <3>1. \A j \in 1 .. k : T[j].epoch <= ep
      BY <1>1, <1>7, <2>2 DEF MessageOK
    <3> QED
      BY <1>1, <1>4, <2>2, <3>1 DEF MessageOK
  <2> QED
    BY <1>1, <2>1, <2>2
<1>9. ASSUME NEW k \in 1 .. Len(T)
      PROVE  RequestOK(u, ep, eo, so, T, N, k)
  <2> SUFFICES ASSUME T[k].epoch = eo, T[k].ev \in Requests
               PROVE  /\ Ready(T, k, eo, so)
                      /\ \A j \in 1 .. Len(T) : T[j].epoch = eo /\ T[j].ev \in Requests => j = k
                      /\ T[k].ev = "RequestRecoveryPrio" => k = Len(T)
                      /\ eo = ep => /\ u = Requested(T[k].ev)
                                    /\ k = Len(T)
                                    /\ None(N, eo, Answers)
    BY DEF RequestOK
  <2>1. eo = ep
    BY <1>1, <1>4, <1>7 DEF MessageOK
  <2>2. k = Len(M) + 1
    BY <1>1, <1>2, <2>1 DEF None
  <2>3. Ready(T, k, eo, so)
    <3>1. Len(M) >= 1 => T[Len(M)] = M[Len(M)]
      BY <1>1
    <3> QED
      BY <1>1, <1>6, <2>1, <2>2, <3>1 DEF Ready
  <2>4. \A j \in 1 .. Len(T) : T[j].epoch = eo /\ T[j].ev \in Requests => j = k
    BY <1>1, <1>2, <2>1, <2>2 DEF None
  <2> QED
    BY <1>1, <1>2, <2>1, <2>2, <2>3, <2>4
<1>10. ASSUME NEW k \in 1 .. Len(T)
       PROVE  DoneOK(eo, so, T, k)
  <2>1. CASE k \in 1 .. Len(M)
    <3>1. k > 1 => T[k - 1] = M[k - 1]
      BY <1>1, <2>1
    <3> QED
      BY <1>1, <1>7, <2>1, <3>1 DEF DoneOK
  <2>2. CASE k = Len(M) + 1
    BY <1>1, <1>5, <2>2 DEF DoneOK, Releases
  <2> QED
    BY <1>1, <2>1, <2>2
<1>11. MessagesOK(u, ep, eo, so, T, N)
  BY <1>8, <1>9, <1>10 DEF MessagesOK
<1>12. AnswersOK(u, ep, eo, so, T, N)
  BY <1>2, <1>3 DEF PairOK, AnswersOK, AnswerOK, None
<1>13. EpochOK(u, ep, eo, so) /\ HeldOK(u, ep, eo, so, T)
  BY <1>3 DEF PairOK, EpochOK, HeldOK
<1>14. ASSUME NEW c, CallbackOK("free", ep, eo, so, M, N, c)
       PROVE  CallbackOK(u, ep, eo, so, T, N, c)
  BY <1>2, <1>4, <1>14 DEF CallbackOK
<1> QED
  BY <1>11, <1>12, <1>13, <1>14 DEF PairOK, T

(* The primary releases the peer: one that has granted, or one whose answer *)
(* is still on its way.                                                     *)
LEMMA PairRelease ==
  ASSUME NEW v, NEW u, NEW ep \in Nat, NEW eo \in Nat, NEW so, NEW M \in Seq(Event),
         NEW N \in Seq(Event), PairOK(v, ep, eo, so, M, N),
         NEW m \in Event, m.ev \in Releases, m.epoch = ep,
         v \in {"granted", "done", "asksBackfill"}, u \in {"free", "drain", "done"},
         v = "asksBackfill" => u = "drain", m.ev = "RecoveryDone" => v = "granted"
  PROVE  /\ PairOK(u, ep, eo, so, Append(M, m), N)
         /\ \A c : CallbackOK(v, ep, eo, so, M, N, c) =>
                   CallbackOK(u, ep, eo, so, Append(M, m), N, c)
<1> DEFINE T == Append(M, m)
<1>1. /\ T \in Seq(Event) /\ Len(M) \in Nat /\ Len(T) = Len(M) + 1
      /\ \A k \in 1 .. Len(M) : T[k] = M[k]
      /\ T[Len(M) + 1] = m
      /\ \A k \in 1 .. Len(T) : k \in 1 .. Len(M) \/ k = Len(M) + 1
  BY AppendIs
<1>2. ep <= eo /\ (eo = ep => so # "Stray") /\ (eo # ep => so = "Stray")
  BY DEF PairOK, EpochOK
<1>3. m.ev \notin Requests
  BY DEF Requests, Releases
<1>4. \A k \in 1 .. Len(M) : /\ MessageOK(ep, eo, so, M, k)
                             /\ RequestOK(v, ep, eo, so, M, N, k)
                             /\ DoneOK(eo, so, M, k)
                             /\ M[k].epoch \in Nat
  BY MessageIs DEF PairOK, MessagesOK
<1> HIDE DEF T
<1>5. ASSUME NEW k \in 1 .. Len(T)
      PROVE  MessageOK(ep, eo, so, T, k)
  <2>1. CASE k \in 1 .. Len(M)
    <3>1. \A j \in 1 .. k : j \in 1 .. Len(M) /\ T[j] = M[j]
      BY <1>1, <2>1
    <3> QED
      BY <1>1, <1>4, <2>1, <3>1 DEF MessageOK
  <2>2. CASE k = Len(M) + 1
    <3>1. \A j \in 1 .. k : T[j].epoch <= ep
      BY <1>1, <1>4, <2>2 DEF MessageOK
    <3> QED
      BY <1>1, <1>2, <2>2, <3>1 DEF MessageOK
  <2> QED
    BY <1>1, <2>1, <2>2
<1>6. ASSUME NEW k \in 1 .. Len(T)
      PROVE  RequestOK(u, ep, eo, so, T, N, k)
  <2> SUFFICES ASSUME T[k].epoch = eo, T[k].ev \in Requests
               PROVE  /\ Ready(T, k, eo, so)
                      /\ \A j \in 1 .. Len(T) : T[j].epoch = eo /\ T[j].ev \in Requests => j = k
                      /\ T[k].ev = "RequestRecoveryPrio" => k = Len(T)
                      /\ eo = ep => u = "drain" /\ T[k].ev = "RequestBackfillPrio"
    BY DEF RequestOK
  <2>1. k \in 1 .. Len(M) /\ T[k] = M[k]
    BY <1>1, <1>3
  <2>2. eo = ep
    BY <1>2, <1>4, <2>1 DEF MessageOK
  <2>3. v = "asksBackfill" /\ M[k].ev = "RequestBackfillPrio"
    BY <1>4, <2>1, <2>2 DEF RequestOK, Requested, Requests
  <2>4. Ready(T, k, eo, so)
    <3>1. k > 1 => T[k - 1] = M[k - 1]
      BY <1>1, <2>1
    <3> QED
      BY <1>4, <2>1, <3>1 DEF RequestOK, Ready
  <2>5. \A j \in 1 .. Len(T) : T[j].epoch = eo /\ T[j].ev \in Requests => j = k
    BY <1>1, <1>3, <1>4, <2>1 DEF RequestOK
  <2> QED
    BY <2>1, <2>3, <2>4, <2>5
<1>7. ASSUME NEW k \in 1 .. Len(T)
      PROVE  DoneOK(eo, so, T, k)
  <2>1. CASE k \in 1 .. Len(M)
    <3>1. k > 1 => T[k - 1] = M[k - 1]
      BY <1>1, <2>1
    <3> QED
      BY <1>1, <1>4, <2>1, <3>1 DEF DoneOK
  <2>2. CASE k = Len(M) + 1
    <3> SUFFICES ASSUME T[k].epoch = eo, T[k].ev = "RecoveryDone"
                 PROVE  /\ ~(k > 1 /\ T[k - 1].epoch = eo)
                        /\ so \notin Waits
      BY DEF DoneOK
    <3>1. Granted(M, eo, so)
      BY <1>1, <2>2 DEF PairOK, HeldOK
    <3>2. k > 1 => k - 1 \in 1 .. Len(M) /\ T[k - 1] = M[k - 1]
      BY <1>1, <2>2
    <3> QED
      BY <3>1, <3>2 DEF Granted, Clear, Waits
  <2> QED
    BY <1>1, <2>1, <2>2
<1>8. MessagesOK(u, ep, eo, so, T, N)
  BY <1>5, <1>6, <1>7 DEF MessagesOK
<1>9. AnswersOK(u, ep, eo, so, T, N)
  <2>1. \A k \in 1 .. Len(N) : AnswerOK(v, ep, eo, so, M, N, k) => AnswerOK(u, ep, eo, so, T, N, k)
    BY DEF AnswerOK, Answered
  <2> QED
    BY <2>1 DEF PairOK, AnswersOK
<1>10. EpochOK(u, ep, eo, so)
  BY DEF PairOK, EpochOK
<1>11. HeldOK(u, ep, eo, so, T)
  <2>1. eo = ep => Released(T, eo, so)
    BY <1>1 DEF Released, Ready
  <2> QED
    BY <2>1 DEF HeldOK
<1>12. ASSUME NEW c, CallbackOK(v, ep, eo, so, M, N, c)
       PROVE  CallbackOK(u, ep, eo, so, T, N, c)
  <2>1. CASE c.epoch = eo /\ c.ev \in RemoteGrants
    <3>1. eo = ep /\ DueOK(v, ep, eo, so, M, N, c.ev)
      BY <1>2, <1>12, <2>1 DEF CallbackOK
    <3>2. c.ev = "RemoteBackfillReserved" /\ v = "asksBackfill"
      BY <2>1, <3>1 DEF DueOK, Answered, RemoteGrants
    <3>3. None(T, eo, Requests)
      BY <1>1, <1>3, <3>1 DEF DueOK, None
    <3>4. DueOK(u, ep, eo, so, T, N, c.ev)
      BY <3>1, <3>2, <3>3 DEF DueOK
    <3> QED
      BY <1>12, <3>4 DEF CallbackOK
  <2>2. CASE ~(c.epoch = eo /\ c.ev \in RemoteGrants)
    BY <1>12, <2>2 DEF CallbackOK
  <2> QED
    BY <2>1, <2>2
<1> QED
  BY <1>8, <1>9, <1>10, <1>11, <1>12 DEF PairOK, T

(* The primary enters a new interval.                                       *)
LEMMA PairLeave ==
  ASSUME NEW v, NEW ep \in Nat, NEW eo \in Nat, NEW so, NEW M \in Seq(Event),
         NEW N \in Seq(Event), PairOK(v, ep, eo, so, M, N), NEW e2 \in Nat, ep < e2, eo <= e2
  PROVE  /\ PairOK("peering", e2, eo, so, M, N)
         /\ \A c : CallbackOK(v, ep, eo, so, M, N, c) =>
                   CallbackOK("peering", e2, eo, so, M, N, c)
<1>1. \A k \in 1 .. Len(M) : MessageOK(ep, eo, so, M, k) /\ RequestOK(v, ep, eo, so, M, N, k)
                             /\ DoneOK(eo, so, M, k) /\ M[k].epoch \in Nat
  BY MessageIs DEF PairOK, MessagesOK
<1>2. \A k \in 1 .. Len(N) : N[k].epoch \in Nat /\ N[k].epoch <= ep
  BY MessageIs DEF PairOK, AnswersOK
<1>3. EpochOK("peering", e2, eo, so) /\ (eo = e2 => so = "Stray")
  BY DEF PairOK, EpochOK
<1>4. MessagesOK("peering", e2, eo, so, M, N)
  <2> SUFFICES ASSUME NEW k \in 1 .. Len(M)
               PROVE  /\ MessageOK(e2, eo, so, M, k)
                      /\ RequestOK("peering", e2, eo, so, M, N, k)
                      /\ DoneOK(eo, so, M, k)
    BY DEF MessagesOK
  <2>1. MessageOK(e2, eo, so, M, k)
    BY <1>1 DEF MessageOK
  <2>2. RequestOK("peering", e2, eo, so, M, N, k)
    BY <1>1 DEF RequestOK, MessageOK
  <2> QED
    BY <1>1, <2>1, <2>2
<1>5. AnswersOK("peering", e2, eo, so, M, N)
  BY <1>2 DEF PairOK, AnswersOK, AnswerOK
<1>6. HeldOK("peering", e2, eo, so, M)
  BY DEF HeldOK
<1>7. \A c : CallbackOK(v, ep, eo, so, M, N, c) => CallbackOK("peering", e2, eo, so, M, N, c)
  BY <1>3 DEF CallbackOK, DueOK
<1> QED
  BY <1>3, <1>4, <1>5, <1>6, <1>7 DEF PairOK

(* The primary and the peer are activated.                                  *)
LEMMA PairActivate ==
  ASSUME NEW ep \in Nat, NEW M \in Seq(Event),
         NEW N \in Seq(Event), PairOK("peering", ep, ep, "Stray", M, N)
  PROVE  /\ PairOK("free", ep, ep, "RepNotRecovering", M, N)
         /\ \A c : CallbackOK("peering", ep, ep, "Stray", M, N, c) =>
                   CallbackOK("free", ep, ep, "RepNotRecovering", M, N, c)
<1>1. \A k \in 1 .. Len(M) : MessageOK(ep, ep, "Stray", M, k) /\ M[k].epoch # ep
  BY DEF PairOK, MessagesOK, MessageOK
<1>2. \A k \in 1 .. Len(N) : N[k].epoch # ep
  BY DEF PairOK, AnswersOK
<1>3. EpochOK("free", ep, ep, "RepNotRecovering")
  BY DEF EpochOK, ReplicaStates
<1>4. MessagesOK("free", ep, ep, "RepNotRecovering", M, N)
  BY <1>1 DEF MessagesOK, MessageOK, RequestOK, DoneOK
<1>5. AnswersOK("free", ep, ep, "RepNotRecovering", M, N)
  BY <1>2 DEF PairOK, AnswersOK, AnswerOK
<1>6. HeldOK("free", ep, ep, "RepNotRecovering", M)
  <2>1. Len(M) \in Nat
    BY LenProperties
  <2>2. Len(M) + 1 > 1 => M[Len(M) + 1 - 1].epoch # ep
    BY <1>1, <2>1
  <2> QED
    BY <2>2 DEF HeldOK, Released, Ready
<1>7. \A c : CallbackOK("peering", ep, ep, "Stray", M, N, c) =>
             CallbackOK("free", ep, ep, "RepNotRecovering", M, N, c)
  BY DEF CallbackOK
<1> QED
  BY <1>3, <1>4, <1>5, <1>6, <1>7 DEF PairOK

(* The peer takes a message off its queue: what the rest of the queue is    *)
(* for a peer in state st.                                                  *)
LEMMA TailReady ==
  ASSUME NEW M \in Seq(Event), M # <<>>, NEW eo \in Nat, NEW so, NEW st,
         M[1].epoch = eo => (M[1].ev \in Releases => st = "RepNotRecovering"),
         M[1].epoch # eo => st = so,
         \A j \in 1 .. Len(M) : M[1].epoch = eo => M[j].epoch = eo,
         NEW k \in Nat, k >= 1, k <= Len(M), Ready(M, k + 1, eo, so)
  PROVE  Ready(Tail(M), k, eo, st)
<1>1. /\ Len(M) \in Nat \ {0} /\ Len(Tail(M)) = Len(M) - 1
      /\ \A j \in 1 .. Len(Tail(M)) : Tail(M)[j] = M[j + 1]
  BY TailIs
<1>2. CASE k = 1
  BY <1>2 DEF Ready
<1>3. CASE k > 1
  <2>1. k - 1 \in 1 .. Len(Tail(M)) /\ Tail(M)[k - 1] = M[k - 1 + 1] /\ k - 1 + 1 = k + 1 - 1
    BY <1>1, <1>3
  <2>2. Tail(M)[k - 1] = M[k + 1 - 1] /\ k + 1 > 1
    BY <2>1
  <2>3. CASE M[1].epoch = eo
    <3>1. M[k + 1 - 1].epoch = eo
      BY <1>1, <2>1, <2>3
    <3> QED
      BY <1>3, <2>2, <3>1 DEF Ready
  <2>4. CASE M[1].epoch # eo
    BY <1>1, <1>3, <2>2, <2>4 DEF Ready
  <2> QED
    BY <2>3, <2>4
<1> QED
  BY <1>2, <1>3

(* The rest of the queue, for a peer that is in state st after the head.    *)
LEMMA TailMessages ==
  ASSUME NEW v, NEW ep \in Nat, NEW eo \in Nat, NEW so, NEW st, NEW M \in Seq(Event),
         NEW N \in Seq(Event), M # <<>>, MessagesOK(v, ep, eo, so, M, N),
         so # "Stray" => st # "Stray",
         M[1].epoch # eo => st = so,
         M[1].epoch = eo /\ M[1].ev \in Releases => st = "RepNotRecovering",
         NEW N2 \in Seq(Event), (M[1].epoch = eo /\ M[1].ev \in Requests) \/ N2 = N
  PROVE  /\ MessagesOK(v, ep, eo, st, Tail(M), N2)
         /\ M[1].epoch = eo => \A j \in 1 .. Len(M) : M[j].epoch = eo
         /\ M[1].epoch = eo /\ M[1].ev \in Requests =>
               None(Tail(M), eo, Requests) /\ so = "RepNotRecovering"
<1> DEFINE T == Tail(M)
<1>1. /\ T \in Seq(Event) /\ Len(M) \in Nat \ {0} /\ Len(T) = Len(M) - 1
      /\ \A k \in 1 .. Len(T) : T[k] = M[k + 1] /\ k + 1 \in 1 .. Len(M)
  BY TailIs
<1>2. \A k \in 1 .. Len(M) : /\ MessageOK(ep, eo, so, M, k)
                             /\ RequestOK(v, ep, eo, so, M, N, k)
                             /\ DoneOK(eo, so, M, k)
                             /\ M[k].epoch \in Nat
  BY MessageIs DEF MessagesOK
<1>3. M[1].epoch = eo => \A j \in 1 .. Len(M) : M[j].epoch = eo
  <2>1. \A j \in 1 .. Len(M) : 1 \in 1 .. j /\ M[1].epoch <= M[j].epoch /\ M[j].epoch <= eo
    BY <1>1, <1>2 DEF MessageOK
  <2> QED
    BY <1>1, <1>2, <2>1
<1>4. ASSUME M[1].epoch = eo, M[1].ev \in Requests
      PROVE  None(T, eo, Requests) /\ so = "RepNotRecovering"
  <2>1. 1 \in 1 .. Len(M)
    BY <1>1
  <2>2. Ready(M, 1, eo, so) /\ \A j \in 1 .. Len(M) : M[j].epoch = eo /\ M[j].ev \in Requests => j = 1
    BY <1>2, <1>4, <2>1 DEF RequestOK
  <2>3. \A k \in 1 .. Len(T) : k + 1 # 1
    BY <1>1
  <2> QED
    BY <1>1, <2>2, <2>3 DEF None, Ready
<1> HIDE DEF T
<1>5. ASSUME NEW k \in 1 .. Len(T)
      PROVE  MessageOK(ep, eo, st, T, k)
  <2>1. T[k] = M[k + 1] /\ k + 1 \in 1 .. Len(M) /\ MessageOK(ep, eo, so, M, k + 1)
    BY <1>1, <1>2
  <2>2. \A j \in 1 .. k : T[j] = M[j + 1] /\ j + 1 \in 1 .. k + 1
    BY <1>1
  <2> QED
    BY <2>1, <2>2 DEF MessageOK
<1>6. ASSUME NEW k \in 1 .. Len(T)
      PROVE  RequestOK(v, ep, eo, st, T, N2, k)
  <2> SUFFICES ASSUME T[k].epoch = eo, T[k].ev \in Requests
               PROVE  /\ Ready(T, k, eo, st)
                      /\ \A j \in 1 .. Len(T) : T[j].epoch = eo /\ T[j].ev \in Requests => j = k
                      /\ T[k].ev = "RequestRecoveryPrio" => k = Len(T)
                      /\ eo = ep => \/ v = "drain" /\ T[k].ev = "RequestBackfillPrio"
                                    \/ /\ v = Requested(T[k].ev)
                                       /\ k = Len(T)
                                       /\ None(N2, eo, Answers)
    BY DEF RequestOK
  <2>1. T[k] = M[k + 1] /\ k + 1 \in 1 .. Len(M) /\ RequestOK(v, ep, eo, so, M, N, k + 1)
    BY <1>1, <1>2
  <2>2. ~(M[1].epoch = eo /\ M[1].ev \in Requests)
    BY <1>4 DEF None
  <2>3. N2 = N
    BY <2>2
  <2>4. Ready(T, k, eo, st)
    <3>1. Ready(M, k + 1, eo, so)
      BY <2>1 DEF RequestOK
    <3>2. k \in Nat /\ k >= 1 /\ k <= Len(M)
      BY <1>1
    <3> QED
      BY <1>3, <3>1, <3>2, TailReady DEF T
  <2>5. \A j \in 1 .. Len(T) : T[j].epoch = eo /\ T[j].ev \in Requests => j = k
    <3>1. \A j \in 1 .. Len(M) : M[j].epoch = eo /\ M[j].ev \in Requests => j = k + 1
      BY <2>1 DEF RequestOK
    <3>2. \A j \in 1 .. Len(T) : j + 1 = k + 1 => j = k
      BY <1>1
    <3> QED
      BY <1>1, <3>1, <3>2
  <2>6. k + 1 = Len(M) <=> k = Len(T)
    BY <1>1
  <2> QED
    BY <2>1, <2>3, <2>4, <2>5, <2>6 DEF RequestOK
<1>7. ASSUME NEW k \in 1 .. Len(T)
      PROVE  DoneOK(eo, st, T, k)
  <2>1. T[k] = M[k + 1] /\ k + 1 \in 1 .. Len(M) /\ DoneOK(eo, so, M, k + 1) /\ k + 1 > 1
        /\ k + 1 - 1 = k
    BY <1>1, <1>2
  <2> SUFFICES ASSUME T[k].epoch = eo, T[k].ev = "RecoveryDone"
               PROVE  IF k > 1 /\ T[k - 1].epoch = eo THEN T[k - 1].ev \notin Requests
                      ELSE st \notin Waits
    BY DEF DoneOK
  <2>2. IF M[k].epoch = eo THEN M[k].ev \notin Requests ELSE so \notin Waits
    BY <2>1 DEF DoneOK
  <2>3. CASE k = 1
    <3>1. CASE M[1].epoch = eo
      <4>1. M[1].ev \in Releases
        BY <1>1, <1>2, <2>2, <2>3, <3>1 DEF MessageOK
      <4> QED
        BY <2>3, <3>1, <4>1 DEF Waits
    <3>2. CASE M[1].epoch # eo
      BY <2>2, <2>3, <3>2
    <3> QED
      BY <3>1, <3>2
  <2>4. CASE k > 1
    <3>1. T[k - 1] = M[k]
      <4>1. k - 1 \in 1 .. Len(T) /\ k - 1 + 1 = k
        BY <2>4
      <4> QED
        BY <1>1, <4>1
    <3>2. M[k].epoch # eo => st = so
      <4>1. k \in 1 .. Len(M)
        BY <1>1
      <4> QED
        BY <1>3, <4>1
    <3> QED
      BY <2>2, <2>4, <3>1, <3>2
  <2> QED
    BY <2>3, <2>4
<1> QED
  BY <1>3, <1>4, <1>5, <1>6, <1>7 DEF MessagesOK, T

(* A released peer stays released.                                          *)
LEMMA TailReleased ==
  ASSUME NEW eo \in Nat, NEW so, NEW st, NEW M \in Seq(Event), M # <<>>,
         M[1].epoch # eo => st = so,
         M[1].epoch = eo /\ M[1].ev \in Releases => st = "RepNotRecovering",
         M[1].epoch = eo => \A j \in 1 .. Len(M) : M[j].epoch = eo,
         Released(M, eo, so)
  PROVE  Released(Tail(M), eo, st)
<1>1. Len(M) \in Nat \ {0} /\ Len(Tail(M)) + 1 = Len(M)
  BY TailIs
<1>2. Ready(M, Len(M) + 1, eo, so)
  BY DEF Released
<1>3. Ready(Tail(M), Len(M), eo, st)
  BY <1>1, <1>2, TailReady
<1> QED
  BY <1>1, <1>3 DEF Released

LEMMA TailClear ==
  ASSUME NEW M \in Seq(Event), M # <<>>
  PROVE  /\ \A e : Clear(M, e) => Clear(Tail(M), e)
         /\ \A e, S : None(M, e, S) => None(Tail(M), e, S)
         /\ \A e : Clear(M, e) => M[1].epoch # e
         /\ \A e, S : None(M, e, S) => M[1].epoch # e \/ M[1].ev \notin S
<1>1. /\ Len(M) \in Nat \ {0}
      /\ \A k \in 1 .. Len(Tail(M)) : Tail(M)[k] = M[k + 1] /\ k + 1 \in 1 .. Len(M)
  BY TailIs
<1>2. 1 \in 1 .. Len(M)
  BY <1>1
<1> QED
  BY <1>1, <1>2 DEF Clear, None

(* A message of an earlier interval is dropped.                             *)
LEMMA PairDrop ==
  ASSUME NEW v, NEW ep \in Nat, NEW eo \in Nat, NEW so, NEW M \in Seq(Event),
         NEW N \in Seq(Event), PairOK(v, ep, eo, so, M, N), M # <<>>, M[1].epoch # eo
  PROVE  /\ PairOK(v, ep, eo, so, Tail(M), N)
         /\ \A c : CallbackOK(v, ep, eo, so, M, N, c) =>
                   CallbackOK(v, ep, eo, so, Tail(M), N, c)
<1>1. MessagesOK(v, ep, eo, so, Tail(M), N)
  BY TailMessages DEF PairOK
<1>2. /\ \A e : Clear(M, e) => Clear(Tail(M), e)
      /\ \A e, S : None(M, e, S) => None(Tail(M), e, S)
  BY TailClear
<1>3. AnswersOK(v, ep, eo, so, Tail(M), N)
  BY <1>2 DEF PairOK, AnswersOK, AnswerOK, Granted
<1>4. HeldOK(v, ep, eo, so, Tail(M))
  <2>1. Released(M, eo, so) => Released(Tail(M), eo, so)
    BY TailReleased
  <2> QED
    BY <1>2, <2>1 DEF PairOK, HeldOK, Granted
<1>5. \A c : CallbackOK(v, ep, eo, so, M, N, c) => CallbackOK(v, ep, eo, so, Tail(M), N, c)
  BY <1>2 DEF CallbackOK, DueOK
<1> QED
  BY <1>1, <1>3, <1>4, <1>5 DEF PairOK

(* What a peer may do with a request: wait for a slot, or turn it down.     *)
Takers == Waits \cup {"RepNotRecovering"}

(* The peer handles a request: it waits for a slot, and a grant is due, or  *)
(* it is too full.                                                          *)
LEMMA PairRequested ==
  ASSUME NEW v, NEW ep \in Nat, NEW eo \in Nat, NEW so, NEW M \in Seq(Event),
         NEW N \in Seq(Event), PairOK(v, ep, eo, so, M, N), M # <<>>,
         M[1].epoch = eo, M[1].ev \in Requests, NEW st \in Takers,
         st \in Waits => (st = "RepWaitRecoveryReserved" <=> M[1].ev = "RequestRecoveryPrio")
  PROVE  /\ so = "RepNotRecovering"
         /\ PairOK(v, ep, eo, st, Tail(M), N)
         /\ None(Tail(M), eo, Requests)
         /\ M[1].ev = "RequestRecoveryPrio" => 1 = Len(M)
         /\ eo = ep => \/ v = "drain" /\ M[1].ev = "RequestBackfillPrio"
                       \/ /\ v = Requested(M[1].ev)
                          /\ 1 = Len(M)
                          /\ None(N, eo, Answers)
<1> DEFINE T == Tail(M)
<1>1. /\ T \in Seq(Event) /\ Len(M) \in Nat \ {0} /\ Len(T) = Len(M) - 1
      /\ \A k \in 1 .. Len(T) : T[k] = M[k + 1] /\ k + 1 \in 1 .. Len(M)
  BY TailIs
<1>2. st # "Stray" /\ M[1].ev \notin Releases
  BY DEF Takers, Waits, Requests, Releases
<1>3. /\ MessagesOK(v, ep, eo, st, T, N)
      /\ None(T, eo, Requests) /\ so = "RepNotRecovering"
      /\ \A j \in 1 .. Len(M) : M[j].epoch = eo
  <2>1. MessagesOK(v, ep, eo, so, M, N)
    BY DEF PairOK
  <2>2. /\ so # "Stray" => st # "Stray"
        /\ M[1].epoch # eo => st = so
        /\ M[1].epoch = eo /\ M[1].ev \in Releases => st = "RepNotRecovering"
    BY <1>2
  <2>3. N \in Seq(Event) /\ ((M[1].epoch = eo /\ M[1].ev \in Requests) \/ N = N)
    OBVIOUS
  <2>4. MessagesOK(v, ep, eo, st, Tail(M), N)
    BY <2>1, <2>2, <2>3, TailMessages
  <2>5. \A j \in 1 .. Len(M) : M[j].epoch = eo
    BY <2>1, <2>2, <2>3, <2>4, TailMessages
  <2>6. None(Tail(M), eo, Requests) /\ so = "RepNotRecovering"
    BY <2>1, <2>2, <2>3, <2>4, TailMessages
  <2> QED
    BY <2>4, <2>5, <2>6
<1>4. /\ M[1].ev = "RequestRecoveryPrio" => 1 = Len(M)
      /\ eo = ep => \/ v = "drain" /\ M[1].ev = "RequestBackfillPrio"
                    \/ /\ v = Requested(M[1].ev)
                       /\ 1 = Len(M)
                       /\ None(N, eo, Answers)
  <2>1. 1 \in 1 .. Len(M)
    BY <1>1
  <2> QED
    BY <2>1 DEF PairOK, MessagesOK, RequestOK
<1>5. Len(M) = 1 => Clear(T, eo)
  BY <1>1 DEF Clear
<1> HIDE DEF T
<1>6. EpochOK(v, ep, eo, st)
  BY <1>3 DEF PairOK, EpochOK, Takers, Waits, ReplicaStates
<1>7. AnswersOK(v, ep, eo, st, T, N)
  <2> SUFFICES ASSUME NEW k \in 1 .. Len(N)
               PROVE  AnswerOK(v, ep, eo, st, T, N, k)
    BY <1>2, <1>3 DEF PairOK, AnswersOK
  <2>1. AnswerOK(v, ep, eo, so, M, N, k)
    BY DEF PairOK, AnswersOK
  <2>2. ~Granted(M, eo, so)
    BY <1>3 DEF Granted
  <2> QED
    BY <1>4, <2>1, <2>2 DEF AnswerOK, None
<1>8. HeldOK(v, ep, eo, st, T)
  <2> SUFFICES ASSUME eo = ep, v \in {"free", "drain", "granted", "done"}
               PROVE  v = "drain" /\ Released(T, eo, st)
    BY DEF HeldOK
  <2>1. v = "drain"
    BY <1>4 DEF Requested
  <2>2. Released(M, eo, so)
    BY <2>1 DEF PairOK, HeldOK
  <2>3. Released(T, eo, st)
    BY <1>2, <1>3, <2>2, TailReleased DEF T
  <2> QED
    BY <2>1, <2>3
<1> QED
  BY <1>3, <1>4, <1>6, <1>7, <1>8 DEF PairOK, T

RequestKeeps(v, ep, eo, so, M, N, st, T) ==
    /\ so = "RepNotRecovering"
    /\ PairOK(v, ep, eo, st, T, N)
    /\ None(T, eo, Requests)
    /\ eo = ep => \/ v = "drain" /\ M[1].ev = "RequestBackfillPrio"
                  \/ v = Requested(M[1].ev) /\ None(N, eo, Answers)
    /\ \A c : /\ st \in Waits /\ c.ev \in RemoteGrants /\ c.epoch = eo
              /\ c.ev = "RemoteRecoveryReserved" <=> M[1].ev = "RequestRecoveryPrio"
              => CallbackOK(v, ep, eo, st, T, N, c)
    /\ \A d : CallbackOK(v, ep, eo, so, M, N, d) =>
              /\ CallbackOK(v, ep, eo, st, T, N, d)
              /\ d.epoch = eo => d.ev \notin RemoteGrants

LEMMA PairRequest ==
  ASSUME NEW v, NEW ep \in Nat, NEW eo \in Nat, NEW so, NEW M \in Seq(Event),
         NEW N \in Seq(Event), PairOK(v, ep, eo, so, M, N), M # <<>>,
         M[1].epoch = eo, M[1].ev \in Requests, NEW st \in Takers,
         st \in Waits => (st = "RepWaitRecoveryReserved" <=> M[1].ev = "RequestRecoveryPrio")
  PROVE  RequestKeeps(v, ep, eo, so, M, N, st, Tail(M))
<1> DEFINE T == Tail(M)
<1>1. /\ T \in Seq(Event) /\ Len(M) \in Nat \ {0} /\ Len(T) = Len(M) - 1
      /\ \A k \in 1 .. Len(T) : T[k] = M[k + 1] /\ k + 1 \in 1 .. Len(M)
  BY TailIs
<1>2. st # "Stray" /\ M[1].ev \notin Releases
  BY DEF Takers, Waits, Requests, Releases
<1>5. Len(M) = 1 => Clear(T, eo)
  BY <1>1 DEF Clear
<1>0. PairOK(v, ep, eo, st, Tail(M), N)
  <2>1. st \in Waits => (st = "RepWaitRecoveryReserved" <=> M[1].ev = "RequestRecoveryPrio")
    OBVIOUS
  <2> QED
    BY <2>1, PairRequested
<1>3. so = "RepNotRecovering" /\ PairOK(v, ep, eo, st, T, N) /\ None(T, eo, Requests)
  BY <1>0, PairRequested
<1>4. /\ M[1].ev = "RequestRecoveryPrio" => 1 = Len(M)
      /\ eo = ep => \/ v = "drain" /\ M[1].ev = "RequestBackfillPrio"
                    \/ /\ v = Requested(M[1].ev)
                       /\ 1 = Len(M)
                       /\ None(N, eo, Answers)
  BY <1>0, PairRequested
<1> HIDE DEF T
<1>9. ASSUME NEW c, st \in Waits, c.ev \in RemoteGrants, c.epoch = eo,
             c.ev = "RemoteRecoveryReserved" <=> M[1].ev = "RequestRecoveryPrio"
      PROVE  CallbackOK(v, ep, eo, st, T, N, c)
  <2>1. DueOK(v, ep, eo, st, T, N, c.ev)
    <3>1. CASE c.ev = "RemoteRecoveryReserved"
      <4>1. st = "RepWaitRecoveryReserved" /\ Clear(T, eo) /\ Len(M) = 1
            /\ M[1].ev = "RequestRecoveryPrio"
        BY <1>4, <1>5, <1>9, <3>1
      <4> QED
        BY <1>3, <1>4, <3>1, <4>1 DEF DueOK, Requested, Answered
    <3>2. CASE c.ev = "RemoteBackfillReserved"
      <4>1. st = "RepWaitBackfillReserved" /\ M[1].ev = "RequestBackfillPrio"
        BY <1>9, <3>2 DEF Waits, Requests
      <4> QED
        BY <1>3, <1>4, <1>5, <3>2, <4>1 DEF DueOK, Requested, Answered
    <3> QED
      BY <1>9, <3>1, <3>2 DEF RemoteGrants
  <2> QED
    BY <1>2, <1>9, <2>1 DEF CallbackOK
<1>10. ASSUME NEW d, CallbackOK(v, ep, eo, so, M, N, d)
       PROVE  /\ CallbackOK(v, ep, eo, st, T, N, d)
              /\ d.epoch = eo => d.ev \notin RemoteGrants
  <2>1. \A e, S : None(M, e, S) => M[1].epoch # e \/ M[1].ev \notin S
    BY TailClear
  <2>2. ~None(M, eo, Requests)
    BY <2>1
  <2> QED
    BY <1>2, <1>10, <2>2 DEF CallbackOK, DueOK
<1>11. RequestKeeps(v, ep, eo, so, M, N, st, T)
  BY <1>3, <1>4, <1>9, <1>10 DEF RequestKeeps
<1> QED
  BY <1>11 DEF T

(* The peer sends an answer or a notice of this interval.                   *)
LEMMA PairReply ==
  ASSUME NEW v, NEW ep \in Nat, NEW eo \in Nat, NEW so, NEW M \in Seq(Event),
         NEW N \in Seq(Event), PairOK(v, ep, eo, so, M, N), so # "Stray",
         NEW r \in Event, r.epoch = eo, r.ev \in Answers \cup Notices,
         r.ev \in Answers =>
            /\ None(M, eo, Requests)
            /\ eo = ep => \/ v = "drain" /\ r.ev # "RemoteRecoveryReserved"
                          \/ /\ v = Answered(r.ev) /\ None(N, eo, Answers)
                             /\ r.ev # "RemoteReservationRejectedTooFull" => Granted(M, eo, so)
  PROVE  /\ PairOK(v, ep, eo, so, M, Append(N, r))
         /\ \A d : CallbackOK(v, ep, eo, so, M, N, d)
                   /\ (r.ev \in Answers /\ d.epoch = eo => d.ev \notin RemoteGrants)
                   => CallbackOK(v, ep, eo, so, M, Append(N, r), d)
<1> DEFINE T == Append(N, r)
<1>1. /\ T \in Seq(Event) /\ Len(N) \in Nat /\ Len(T) = Len(N) + 1
      /\ \A k \in 1 .. Len(N) : T[k] = N[k]
      /\ T[Len(N) + 1] = r
      /\ \A k \in 1 .. Len(T) : k \in 1 .. Len(N) \/ k = Len(N) + 1
  BY AppendIs
<1> HIDE DEF T
<1>2. /\ eo <= ep /\ (eo = ep => v # "peering") /\ (eo # ep => v = "peering")
  BY DEF PairOK, EpochOK
<1>3. r.ev \notin Answers => \A e : None(N, e, Answers) => None(T, e, Answers)
  BY <1>1 DEF None
<1>4. MessagesOK(v, ep, eo, so, M, T)
  BY <1>3 DEF PairOK, MessagesOK, RequestOK, None
<1>5. AnswersOK(v, ep, eo, so, M, T)
  <2> SUFFICES ASSUME NEW k \in 1 .. Len(T)
               PROVE  /\ T[k].ev \in Answers \cup Notices
                      /\ T[k].epoch <= eo /\ T[k].epoch <= ep
                      /\ T[k].epoch = eo => so # "Stray"
                      /\ T[k].epoch = ep => v # "peering"
                      /\ AnswerOK(v, ep, eo, so, M, T, k)
    BY DEF AnswersOK
  <2>1. CASE k \in 1 .. Len(N)
    <3>1. /\ T[k] = N[k]
          /\ N[k].ev \in Answers \cup Notices
          /\ N[k].epoch <= eo /\ N[k].epoch <= ep
          /\ N[k].epoch = eo => so # "Stray"
          /\ N[k].epoch = ep => v # "peering"
          /\ AnswerOK(v, ep, eo, so, M, N, k)
      BY <1>1, <2>1 DEF PairOK, AnswersOK
    <3>2. ASSUME N[k].epoch = ep, N[k].ev \in Answers, v # "drain"
          PROVE  r.ev \notin Answers
      <4>1. eo = ep
        BY <1>2, <3>1, <3>2
      <4> QED
        BY <2>1, <3>2, <4>1 DEF None
    <3>3. ASSUME \A j \in 1 .. Len(N) : N[j].epoch = ep /\ N[j].ev \in Answers => j = k,
                 r.ev \notin Answers
          PROVE  \A j \in 1 .. Len(T) : T[j].epoch = ep /\ T[j].ev \in Answers => j = k
      BY <1>1, <3>3
    <3>4. AnswerOK(v, ep, eo, so, M, T, k)
      BY <3>1, <3>2, <3>3 DEF AnswerOK, Answered
    <3> QED
      BY <3>1, <3>4
  <2>2. CASE k = Len(N) + 1
    <3>1. T[k] = r
      BY <1>1, <2>2
    <3>2. ASSUME r.ev \in Answers, eo = ep, None(N, eo, Answers)
          PROVE  \A j \in 1 .. Len(T) : T[j].epoch = ep /\ T[j].ev \in Answers => j = k
      BY <1>1, <2>2, <3>2 DEF None
    <3>3. AnswerOK(v, ep, eo, so, M, T, k)
      BY <3>1, <3>2 DEF AnswerOK
    <3> QED
      BY <1>2, <3>1, <3>3
  <2> QED
    BY <1>1, <2>1, <2>2
<1>6. ASSUME NEW d, CallbackOK(v, ep, eo, so, M, N, d),
             r.ev \in Answers /\ d.epoch = eo => d.ev \notin RemoteGrants
      PROVE  CallbackOK(v, ep, eo, so, M, T, d)
  BY <1>3, <1>6 DEF CallbackOK, DueOK
<1> QED
  BY <1>4, <1>5, <1>6 DEF PairOK, T

(* The peer is too full.                                                    *)
LEMMA PairReject ==
  ASSUME NEW v, NEW ep \in Nat, NEW eo \in Nat, NEW so, NEW M \in Seq(Event),
         NEW N \in Seq(Event), PairOK(v, ep, eo, so, M, N), M # <<>>,
         M[1].epoch = eo, M[1].ev = "RequestBackfillPrio",
         NEW r \in Event, r.epoch = eo, r.ev = "RemoteReservationRejectedTooFull"
  PROVE  /\ so = "RepNotRecovering"
         /\ PairOK(v, ep, eo, so, Tail(M), Append(N, r))
         /\ \A d : CallbackOK(v, ep, eo, so, M, N, d) =>
                   CallbackOK(v, ep, eo, so, Tail(M), Append(N, r), d)
<1> DEFINE st == "RepNotRecovering"
<1>1. /\ M[1].ev \in Requests /\ st \notin Waits /\ st \in Takers
      /\ st \in Waits => (st = "RepWaitRecoveryReserved" <=> M[1].ev = "RequestRecoveryPrio")
      /\ r.ev \in Answers /\ Requested(M[1].ev) = "asksBackfill" /\ Answered(r.ev) = "asksBackfill"
  BY DEF Requests, Waits, Takers, Answers, Requested, Answered
<1> HIDE DEF st
<1>2. /\ so = "RepNotRecovering"
      /\ PairOK(v, ep, eo, st, Tail(M), N)
      /\ None(Tail(M), eo, Requests)
      /\ eo = ep => \/ v = "drain" /\ M[1].ev = "RequestBackfillPrio"
                    \/ v = Requested(M[1].ev) /\ None(N, eo, Answers)
      /\ \A d : CallbackOK(v, ep, eo, so, M, N, d) =>
                /\ CallbackOK(v, ep, eo, st, Tail(M), N, d)
                /\ d.epoch = eo => d.ev \notin RemoteGrants
  <2>1. PairOK(v, ep, eo, st, Tail(M), N)
    BY <1>1, PairRequested
  <2>2. RequestKeeps(v, ep, eo, so, M, N, st, Tail(M))
    BY <1>1, <2>1, PairRequest
  <2> QED
    BY <2>2 DEF RequestKeeps
<1>3. st = so /\ so # "Stray" /\ Tail(M) \in Seq(Event)
  BY <1>2, TailIs DEF st
<1>4. /\ PairOK(v, ep, eo, so, Tail(M), Append(N, r))
      /\ \A d : CallbackOK(v, ep, eo, so, Tail(M), N, d)
                /\ (r.ev \in Answers /\ d.epoch = eo => d.ev \notin RemoteGrants)
                => CallbackOK(v, ep, eo, so, Tail(M), Append(N, r), d)
  BY <1>1, <1>2, <1>3, PairReply
<1> QED
  BY <1>2, <1>3, <1>4

(* The peer handles a release.                                              *)
LEMMA PairReleased ==
  ASSUME NEW v, NEW ep \in Nat, NEW eo \in Nat, NEW so, NEW M \in Seq(Event),
         NEW N \in Seq(Event), PairOK(v, ep, eo, so, M, N), M # <<>>,
         M[1].epoch = eo, M[1].ev \in Releases
  PROVE  /\ so \in ReplicaStates
         /\ M[1].ev = "RecoveryDone" => so \notin Waits
         /\ PairOK(v, ep, eo, "RepNotRecovering", Tail(M), N)
         /\ \A d : CallbackOK(v, ep, eo, so, M, N, d) =>
                   CallbackOK(v, ep, eo, "RepNotRecovering", Tail(M), N, d)
<1> DEFINE T == Tail(M)
           st == "RepNotRecovering"
<1>0. st # "Stray" /\ st = "RepNotRecovering" /\ st \in ReplicaStates
  BY DEF ReplicaStates
<1>1. /\ T \in Seq(Event) /\ Len(M) \in Nat \ {0} /\ 1 \in 1 .. Len(M)
  BY TailIs
<1> HIDE DEF T, st
<1>2. /\ MessagesOK(v, ep, eo, st, T, N)
      /\ \A j \in 1 .. Len(M) : M[j].epoch = eo
  BY <1>0, TailMessages DEF PairOK, T
<1>3. /\ so # "Stray" /\ (M[1].ev = "RecoveryDone" => so \notin Waits)
  BY <1>1 DEF PairOK, MessagesOK, MessageOK, DoneOK
<1>4. so \in ReplicaStates
  BY <1>3 DEF PairOK, EpochOK
<1>5. ~Clear(M, eo)
  BY <1>1 DEF Clear
<1>6. EpochOK(v, ep, eo, st)
  BY <1>0, <1>3 DEF PairOK, EpochOK
<1>7. AnswersOK(v, ep, eo, st, T, N)
  <2> SUFFICES ASSUME NEW k \in 1 .. Len(N)
               PROVE  AnswerOK(v, ep, eo, st, T, N, k)
    BY <1>0, <1>3 DEF PairOK, AnswersOK
  <2>1. AnswerOK(v, ep, eo, so, M, N, k)
    BY DEF PairOK, AnswersOK
  <2> QED
    BY <1>5, <2>1 DEF AnswerOK, Granted
<1>8. HeldOK(v, ep, eo, st, T)
  <2>1. Released(M, eo, so) => Released(T, eo, st)
    BY <1>0, <1>2, TailReleased DEF T
  <2> QED
    BY <1>5, <2>1 DEF PairOK, HeldOK, Granted
<1>9. ASSUME NEW d, CallbackOK(v, ep, eo, so, M, N, d)
      PROVE  CallbackOK(v, ep, eo, st, T, N, d)
  <2>1. CASE d.epoch = eo /\ d.ev \in RemoteGrants
    <3>1. DueOK(v, ep, eo, so, M, N, d.ev)
      BY <1>9, <2>1 DEF CallbackOK
    <3>2. d.ev = "RemoteBackfillReserved"
      BY <1>5, <2>1, <3>1 DEF DueOK, RemoteGrants
    <3>3. None(T, eo, Requests)
      BY <3>1, TailClear DEF DueOK, T
    <3>4. DueOK(v, ep, eo, st, T, N, d.ev)
      BY <1>0, <1>5, <3>1, <3>2, <3>3 DEF DueOK
    <3> QED
      BY <1>0, <1>9, <3>4 DEF CallbackOK
  <2>2. CASE ~(d.epoch = eo /\ d.ev \in RemoteGrants)
    BY <1>0, <1>9, <2>2 DEF CallbackOK
  <2> QED
    BY <2>1, <2>2
<1> QED
  BY <1>2, <1>3, <1>4, <1>6, <1>7, <1>8, <1>9 DEF PairOK, T, st

(* The peer that waited gets its slot and says so.                          *)
GrantKeeps(v, ep, eo, so, M, N, N2, ev) ==
    \A d : CallbackOK(v, ep, eo, so, M, N, d) =>
           \/ CallbackOK(v, ep, eo, "RepRecovering", M, N2, d)
           \/ d.epoch = eo /\ d.ev = ev

LEMMA PairGrant ==
  ASSUME NEW v, NEW ep \in Nat, NEW eo \in Nat, NEW so \in Waits, NEW M \in Seq(Event),
         NEW N \in Seq(Event), PairOK(v, ep, eo, so, M, N),
         NEW c, CallbackOK(v, ep, eo, so, M, N, c), c.ev \in RemoteGrants, c.epoch = eo,
         NEW r \in Event, r.epoch = eo, r.ev = c.ev
  PROVE  /\ PairOK(v, ep, eo, "RepRecovering", M, Append(N, r))
         /\ GrantKeeps(v, ep, eo, so, M, N, Append(N, r), c.ev)
<1> DEFINE st == "RepRecovering"
<1>0. st # "Stray" /\ st = "RepRecovering" /\ st \in ReplicaStates /\ st \notin Waits /\ so # "Stray"
      /\ so # "RepNotRecovering" /\ so # "RepRecovering"
  BY DEF ReplicaStates, Waits
<1> HIDE DEF st
<1>1. DueOK(v, ep, eo, so, M, N, c.ev)
  BY DEF CallbackOK
<1>2. None(M, eo, Requests)
  BY <1>1 DEF DueOK
<1>3. eo = ep => v = "drain" \/ v \in {"asksRecovery", "asksBackfill"}
  BY <1>1 DEF DueOK, Answered
<1>4. EpochOK(v, ep, eo, st)
  BY <1>0 DEF PairOK, EpochOK
<1>5. MessagesOK(v, ep, eo, st, M, N)
  <2> SUFFICES ASSUME NEW k \in 1 .. Len(M)
               PROVE  /\ MessageOK(ep, eo, st, M, k)
                      /\ RequestOK(v, ep, eo, st, M, N, k)
                      /\ DoneOK(eo, st, M, k)
    BY DEF MessagesOK
  <2>1. MessageOK(ep, eo, so, M, k) /\ DoneOK(eo, so, M, k)
    BY DEF PairOK, MessagesOK
  <2>2. RequestOK(v, ep, eo, st, M, N, k)
    BY <1>2 DEF RequestOK, None
  <2> QED
    BY <1>0, <2>1, <2>2 DEF MessageOK, DoneOK
<1>6. AnswersOK(v, ep, eo, st, M, N)
  <2> SUFFICES ASSUME NEW k \in 1 .. Len(N)
               PROVE  AnswerOK(v, ep, eo, st, M, N, k)
    BY <1>0 DEF PairOK, AnswersOK
  <2>1. AnswerOK(v, ep, eo, so, M, N, k)
    BY DEF PairOK, AnswersOK
  <2> QED
    BY <1>0, <2>1 DEF AnswerOK, Granted
<1>7. HeldOK(v, ep, eo, st, M)
  <2>1. Released(M, eo, so) => Released(M, eo, st)
    BY <1>0 DEF Released, Ready
  <2> QED
    BY <1>3, <2>1 DEF PairOK, HeldOK
<1>8. PairOK(v, ep, eo, st, M, N)
  BY <1>4, <1>5, <1>6, <1>7 DEF PairOK
<1>9. /\ r.ev \in Answers /\ r.ev # "RemoteReservationRejectedTooFull"
      /\ eo = ep => \/ v = "drain" /\ r.ev # "RemoteRecoveryReserved"
                    \/ /\ v = Answered(r.ev) /\ None(N, eo, Answers)
                       /\ Granted(M, eo, st)
  BY <1>0, <1>1 DEF DueOK, Granted, Answers, RemoteGrants
<1>10. /\ PairOK(v, ep, eo, st, M, Append(N, r))
       /\ \A d : CallbackOK(v, ep, eo, st, M, N, d)
                 /\ (r.ev \in Answers /\ d.epoch = eo => d.ev \notin RemoteGrants)
                 => CallbackOK(v, ep, eo, st, M, Append(N, r), d)
  BY <1>0, <1>2, <1>8, <1>9, PairReply
<1>11. ASSUME NEW d, CallbackOK(v, ep, eo, so, M, N, d), ~(d.epoch = eo /\ d.ev = c.ev)
       PROVE  CallbackOK(v, ep, eo, st, M, Append(N, r), d)
  <2>1. ASSUME d.epoch = eo, d.ev \in RemoteGrants PROVE FALSE
    <3>1. DueOK(v, ep, eo, so, M, N, d.ev)
      BY <1>11, <2>1 DEF CallbackOK
    <3> QED
      BY <1>0, <1>1, <1>11, <2>1, <3>1 DEF DueOK, RemoteGrants
  <2>2. CallbackOK(v, ep, eo, st, M, N, d)
    BY <1>0, <1>11, <2>1 DEF CallbackOK
  <2> QED
    BY <1>10, <2>1, <2>2
<1> QED
  BY <1>10, <1>11 DEF st, GrantKeeps

(* A peer that holds or held a slot says that it lost it.                   *)
LEMMA PairNotice ==
  ASSUME NEW v, NEW ep \in Nat, NEW eo \in Nat, NEW so, NEW M \in Seq(Event),
         NEW N \in Seq(Event), PairOK(v, ep, eo, so, M, N), so # "Stray",
         NEW r \in Event, r.epoch = eo, r.ev \in Notices
  PROVE  /\ PairOK(v, ep, eo, so, M, Append(N, r))
         /\ \A d : CallbackOK(v, ep, eo, so, M, N, d) =>
                   CallbackOK(v, ep, eo, so, M, Append(N, r), d)
<1>1. r.ev \notin Answers
  BY DEF Answers, Notices
<1> QED
  BY <1>1, PairReply

(* The peer enters a new interval.                                          *)
LEMMA PairStray ==
  ASSUME NEW v, NEW ep \in Nat, NEW eo \in Nat, NEW so, NEW M \in Seq(Event),
         NEW N \in Seq(Event), PairOK(v, ep, eo, so, M, N), NEW e2 \in Nat, eo < e2, ep <= e2
  PROVE  /\ PairOK(v, ep, e2, "Stray", M, N)
         /\ \A c : CallbackOK(v, ep, eo, so, M, N, c) /\ c.epoch \in Nat =>
                   CallbackOK(v, ep, e2, "Stray", M, N, c)
<1>1. \A k \in 1 .. Len(M) : MessageOK(ep, eo, so, M, k) /\ M[k].epoch \in Nat
  BY MessageIs DEF PairOK, MessagesOK
<1>2. \A k \in 1 .. Len(N) : /\ N[k].epoch \in Nat /\ N[k].epoch <= eo
                             /\ AnswerOK(v, ep, eo, so, M, N, k)
  BY MessageIs DEF PairOK, AnswersOK
<1>3. EpochOK(v, ep, e2, "Stray") /\ (e2 = ep => v = "peering")
  BY DEF PairOK, EpochOK
<1>4. MessagesOK(v, ep, e2, "Stray", M, N)
  BY <1>1 DEF MessagesOK, MessageOK, RequestOK, DoneOK
<1>5. AnswersOK(v, ep, e2, "Stray", M, N)
  <2>1. \A k \in 1 .. Len(N) : AnswerOK(v, ep, e2, "Stray", M, N, k)
    BY <1>2, <1>3 DEF AnswerOK, Answered
  <2> QED
    BY <1>2, <2>1 DEF PairOK, AnswersOK
<1>6. HeldOK(v, ep, e2, "Stray", M)
  BY <1>3 DEF HeldOK
<1>7. \A c : CallbackOK(v, ep, eo, so, M, N, c) /\ c.epoch \in Nat =>
             CallbackOK(v, ep, e2, "Stray", M, N, c)
  BY DEF CallbackOK
<1> QED
  BY <1>3, <1>4, <1>5, <1>6, <1>7 DEF PairOK

----------------------------------------------------------------------------
(* The peers in their order.                                                *)

LEMMA OrderedIs ==
  ASSUME NEW S \in SUBSET Nat, IsFiniteSet(S)
  PROVE  /\ Cardinality(S) \in Nat
         /\ Ordered(S) \in [1 .. Cardinality(S) -> S]
         /\ Len(Ordered(S)) = Cardinality(S)
         /\ \A x \in S : \E k \in 1 .. Cardinality(S) : Ordered(S)[k] = x
         /\ \A j, k \in 1 .. Cardinality(S) : Ordered(S)[j] = Ordered(S)[k] => j = k
<1> DEFINE n == Cardinality(S)
           B(x) == {y \in S : y < x}
           f == [x \in S |-> Cardinality(B(x)) + 1]
<1>1. n \in Nat
  BY FS_CardinalityType
<1>2. ASSUME NEW x \in S
      PROVE  /\ IsFiniteSet(B(x)) /\ Cardinality(B(x)) \in Nat
             /\ Cardinality(B(x)) + 1 <= n
  <2>1. B(x) \in SUBSET (S \ {x})
    OBVIOUS
  <2>2. IsFiniteSet(S \ {x}) /\ Cardinality(S \ {x}) = n - 1
    BY FS_RemoveElement
  <2>3. IsFiniteSet(B(x)) /\ Cardinality(B(x)) <= n - 1
    BY <2>1, <2>2, FS_Subset
  <2>4. Cardinality(B(x)) \in Nat
    BY <2>3, FS_CardinalityType
  <2> QED
    BY <1>1, <2>3, <2>4
<1>3. ASSUME NEW x \in S, NEW z \in S, x < z
      PROVE  Cardinality(B(x)) < Cardinality(B(z))
  <2>4. x \in Nat /\ z \in Nat /\ \A y \in S : y \in Nat
    OBVIOUS
  <2>5. \A y \in S : y < x => y < z
    BY <1>3, <2>4
  <2>6. x \in B(z)
    BY <1>3
  <2>7. x \notin B(x)
    BY <2>4
  <2>8. \A y \in B(x) : y \in B(z)
    BY <2>5
  <2>1. B(x) \cup {x} \in SUBSET B(z) /\ x \notin B(x)
    BY <2>6, <2>7, <2>8
  <2>2. IsFiniteSet(B(x) \cup {x}) /\ Cardinality(B(x) \cup {x}) = Cardinality(B(x)) + 1
    BY <1>2, <2>1, FS_AddElement
  <2>3. Cardinality(B(x) \cup {x}) <= Cardinality(B(z))
    BY <1>2, <2>1, FS_Subset
  <2> QED
    BY <1>2, <2>2, <2>3
<1> HIDE DEF B
<1>4. f \in [S -> 1 .. n]
  BY <1>1, <1>2
<1>5. \A x, z \in S : x # z => f[x] # f[z]
  <2> SUFFICES ASSUME NEW x \in S, NEW z \in S, x # z
               PROVE  Cardinality(B(x)) # Cardinality(B(z))
    BY <1>2
  <2>1. x < z \/ z < x
    OBVIOUS
  <2> QED
    BY <1>2, <1>3, <2>1
<1> HIDE DEF f
<1>6. f \in Injection(S, 1 .. n)
  BY <1>4, <1>5 DEF Injection, IsInjective
<1>7. IsFiniteSet(1 .. n) /\ Cardinality(1 .. n) = n
  BY <1>1, FS_Interval
<1>8. f \in Surjection(S, 1 .. n)
  BY <1>6, <1>7, FS_Injection
<1>9. \A k \in 1 .. n : \E x \in S : Cardinality(B(x)) = k - 1
  <2> SUFFICES ASSUME NEW k \in 1 .. n
               PROVE  \E x \in S : Cardinality(B(x)) = k - 1
    OBVIOUS
  <2>1. PICK x \in S : f[x] = k
    BY <1>8 DEF Surjection
  <2> QED
    BY <1>1, <1>2, <2>1 DEF f
<1> DEFINE h == Ordered(S)
<1>10. \A k \in 1 .. n : h[k] \in S /\ Cardinality(B(h[k])) = k - 1
  BY <1>9 DEF Ordered, B
<1>11. h \in [1 .. n -> S] /\ Len(h) = n
  <2>1. h = [k \in 1 .. n |-> CHOOSE x \in S : Cardinality({y \in S : y < x}) = k - 1]
    BY DEF Ordered
  <2>2. h \in [1 .. n -> S]
    BY <1>10, <2>1
  <2> QED
    BY <1>1, <2>2, LenProperties, SeqDef
<1> HIDE DEF h
<1>12. \A x \in S : \E k \in 1 .. n : h[k] = x
  <2> SUFFICES ASSUME NEW x \in S PROVE \E k \in 1 .. n : h[k] = x
    OBVIOUS
  <2>1. Cardinality(B(x)) + 1 \in 1 .. n
    BY <1>1, <1>2
  <2>2. PICK k \in 1 .. n : k = Cardinality(B(x)) + 1
    BY <2>1
  <2>3. Cardinality(B(h[k])) = Cardinality(B(x)) /\ h[k] \in S
    BY <1>2, <1>10, <2>2
  <2>4. f[h[k]] = f[x]
    BY <2>3 DEF f
  <2> QED
    BY <1>5, <2>3, <2>4
<1>13. \A j, k \in 1 .. n : h[j] = h[k] => j = k
  BY <1>1, <1>10
<1> QED
  BY <1>1, <1>11, <1>12, <1>13 DEF h, n

(* A placement.                                                             *)
IsLayout(l) ==
    /\ l.primary \in OSD
    /\ l.replicas \subseteq OSD \ {l.primary}
    /\ l.targets \subseteq l.replicas
    /\ l.recovery \in Prio
    /\ l.backfill \in Prio

LEMMA LayoutIs ==
  ASSUME NEW l \in Layouts, NEW g \in PG
  PROVE  IsLayout(l[g]) /\ l[g].todo \subseteq {"recovery", "backfill"}
BY RecoveryReservationAssumption DEF IsLayout

Counted(l, kind) == IF kind = "recovery" THEN l.replicas ELSE l.targets

LEMMA PeersIs ==
  ASSUME NEW l, IsLayout(l), NEW kind
  PROVE  /\ Len(Peers(l, kind)) = Cardinality(Counted(l, kind))
         /\ Cardinality(Counted(l, kind)) \in 0 .. Cardinality(OSD)
         /\ Cardinality(OSD) \in Nat
         /\ Counted(l, kind) \subseteq l.replicas
         /\ \A k \in 1 .. Len(Peers(l, kind)) : Peers(l, kind)[k] \in Counted(l, kind)
         /\ \A x \in Counted(l, kind) : \E k \in 1 .. Len(Peers(l, kind)) : Peers(l, kind)[k] = x
         /\ \A j, k \in 1 .. Len(Peers(l, kind)) : Peers(l, kind)[j] = Peers(l, kind)[k] => j = k
<1> DEFINE S == Counted(l, kind)
<1>1. S \subseteq l.replicas /\ S \in SUBSET OSD
  BY DEF IsLayout, Counted
<1>2. OSD \in SUBSET Nat /\ IsFiniteSet(OSD)
  BY RecoveryReservationAssumption
<1>3. IsFiniteSet(S) /\ Cardinality(S) <= Cardinality(OSD)
  BY <1>1, <1>2, FS_Subset
<1>4. Cardinality(OSD) \in Nat
  BY <1>2, FS_CardinalityType
<1>5. Peers(l, kind) = Ordered(S)
  BY DEF Peers, Counted
<1>6. S \in SUBSET Nat
  BY <1>1, <1>2
<1> HIDE DEF S
<1>7. /\ Cardinality(S) \in Nat
      /\ Ordered(S) \in [1 .. Cardinality(S) -> S]
      /\ Len(Ordered(S)) = Cardinality(S)
      /\ \A x \in S : \E k \in 1 .. Cardinality(S) : Ordered(S)[k] = x
      /\ \A j, k \in 1 .. Cardinality(S) : Ordered(S)[j] = Ordered(S)[k] => j = k
  BY <1>3, <1>6, OrderedIs
<1>8. \A k \in 1 .. Cardinality(S) : Ordered(S)[k] \in S
  BY <1>7
<1> QED
  BY <1>1, <1>3, <1>4, <1>5, <1>7, <1>8 DEF S

LEMMA PeersAreFew == Cardinality(OSD) \in Nat
BY RecoveryReservationAssumption, FS_CardinalityType

----------------------------------------------------------------------------
(* What a reaction of the primary o makes of a group q and of the local     *)
(* reserver.                                                                *)
TimerEvents == [ev : {"DoRecovery", "RequestBackfill"}, epoch : Interval,
                delay : {"none", "retry"}]

Told(M, S, m) == [x \in OSD |-> IF x \in S THEN Append(M[x], m) ELSE M[x]]

Cancelled(l, g) == do_queues(cancel_reservation(l, g))

Asked(l, g, prio, c, d) == do_queues(request_reservation(l, g, c, prio, d))

Ctx(g, ev, e) == [pg |-> g, ev |-> ev, epoch |-> e]

Turned(x, q, o, s, i, T, M) ==
    /\ x \in PGRecord
    /\ x.state = [q.state EXCEPT ![o] = s]
    /\ x.epoch = q.epoch /\ x.interval = q.interval /\ x.todo = q.todo
    /\ x.scan = q.scan
    /\ x.toPrimary = q.toPrimary /\ x.own = q.own
    /\ x.it = i /\ x.timers = T /\ x.toReplica = M

Handled(w, q, o, s, i, T, M, l, r) ==
    /\ w \in [p : PGRecord, l : {l}, r : {r}, bad : BOOLEAN]
    /\ ~w.bad
    /\ Turned(w.p, q, o, s, i, T, M)

LEMMA HandledStart ==
  ASSUME NEW q \in PGRecord, NEW o \in OSD, NEW l, NEW r
  PROVE  Handled([p |-> q, l |-> l, r |-> r, bad |-> FALSE],
                 q, o, q.state[o], q.it, q.timers, q.toReplica, l, r)
<1>1. Turned(q, q, o, q.state[o], q.it, q.timers, q.toReplica)
  BY DEF Turned, PGRecord
<1> QED
  BY <1>1 DEF Handled

LEMMA HandledTo ==
  ASSUME NEW w, NEW q \in PGRecord, NEW o \in OSD, NEW s, NEW i, NEW T, NEW M, NEW l, NEW r,
         Handled(w, q, o, s, i, T, M, l, r), NEW s2 \in States
  PROVE  /\ Handled(To(w, o, s2), q, o, s2, i, T, M, l, r)
         /\ To(w, o, s2).p.working = w.p.working
<1>1. w \in [p : PGRecord, l : {l}, r : {r}, bad : BOOLEAN] /\ ~w.bad /\ Turned(w.p, q, o, s, i, T, M)
  BY DEF Handled
<1> DEFINE y == [w.p EXCEPT !.state = [@ EXCEPT ![o] = s2]]
           x == To(w, o, s2)
<1>2. x.p = y /\ ~x.bad /\ x \in [p : {y}, l : {l}, r : {r}, bad : BOOLEAN]
  BY <1>1 DEF To
<1>3. y.working = w.p.working
  BY <1>1 DEF PGRecord
<1>4. y \in PGRecord /\ y.state = [q.state EXCEPT ![o] = s2]
  BY <1>1 DEF PGRecord, Turned
<1>5. Turned(y, q, o, s2, i, T, M)
  BY <1>1, <1>4 DEF PGRecord, Turned
<1> HIDE DEF x, y
<1> QED
  BY <1>2, <1>3, <1>4, <1>5 DEF Handled, x

LEMMA HandledIt ==
  ASSUME NEW w, NEW q \in PGRecord, NEW o \in OSD, NEW s, NEW i, NEW T, NEW M, NEW l, NEW r,
         Handled(w, q, o, s, i, T, M, l, r), NEW i2 \in 0 .. Cardinality(OSD)
  PROVE  Handled([w EXCEPT !.p.it = i2], q, o, s, i2, T, M, l, r)
<1>1. w \in [p : PGRecord, l : {l}, r : {r}, bad : BOOLEAN] /\ ~w.bad /\ Turned(w.p, q, o, s, i, T, M)
  BY DEF Handled
<1> DEFINE y == [w.p EXCEPT !.it = i2]
           x == [w EXCEPT !.p.it = i2]
<1>2. x.p = y /\ ~x.bad /\ x \in [p : {y}, l : {l}, r : {r}, bad : BOOLEAN]
  BY <1>1
<1>3. y \in PGRecord
  BY <1>1 DEF PGRecord
<1>4. Turned(y, q, o, s, i2, T, M)
  BY <1>1, <1>3 DEF PGRecord, Turned
<1> HIDE DEF x, y
<1> QED
  BY <1>2, <1>3, <1>4 DEF Handled, x

LEMMA HandledWorking ==
  ASSUME NEW w, NEW q \in PGRecord, NEW o \in OSD, NEW s, NEW i, NEW T, NEW M, NEW l, NEW r,
         Handled(w, q, o, s, i, T, M, l, r), NEW b \in BOOLEAN
  PROVE  /\ Handled([w EXCEPT !.p.working = b], q, o, s, i, T, M, l, r)
         /\ [w EXCEPT !.p.working = b].p.working = b
<1>1. w \in [p : PGRecord, l : {l}, r : {r}, bad : BOOLEAN] /\ ~w.bad /\ Turned(w.p, q, o, s, i, T, M)
  BY DEF Handled
<1> DEFINE y == [w.p EXCEPT !.working = b]
           x == [w EXCEPT !.p.working = b]
<1>2. x.p = y /\ ~x.bad /\ x \in [p : {y}, l : {l}, r : {r}, bad : BOOLEAN]
  BY <1>1
<1>3. y \in PGRecord
  BY <1>1 DEF PGRecord
<1>4. Turned(y, q, o, s, i, T, M)
  BY <1>1, <1>3 DEF PGRecord, Turned
<1>5. y.working = b
  BY <1>1 DEF PGRecord
<1> HIDE DEF x, y
<1> QED
  BY <1>2, <1>3, <1>4, <1>5 DEF Handled, x

LEMMA HandledScans ==
  ASSUME NEW w, NEW q \in PGRecord, NEW o \in OSD, NEW s, NEW i, NEW T, NEW M, NEW l, NEW r,
         Handled(w, q, o, s, i, T, M, l, r)
  PROVE  Handled([w EXCEPT !.p.waiting_on_backfill = {}], q, o, s, i, T, M, l, r)
<1>1. w \in [p : PGRecord, l : {l}, r : {r}, bad : BOOLEAN] /\ ~w.bad /\ Turned(w.p, q, o, s, i, T, M)
  BY DEF Handled
<1> DEFINE y == [w.p EXCEPT !.waiting_on_backfill = {}]
           x == [w EXCEPT !.p.waiting_on_backfill = {}]
<1>2. x.p = y /\ ~x.bad /\ x \in [p : {y}, l : {l}, r : {r}, bad : BOOLEAN]
  BY <1>1
<1>3. y \in PGRecord
  BY <1>1 DEF PGRecord
<1>4. Turned(y, q, o, s, i, T, M)
  BY <1>1, <1>3 DEF PGRecord, Turned
<1> HIDE DEF x, y
<1> QED
  BY <1>2, <1>3, <1>4 DEF Handled, x

LEMMA HandledLeave ==
  ASSUME NEW w, NEW q \in PGRecord, NEW o \in OSD, NEW s, NEW i, NEW T, NEW M, NEW l, NEW r,
         Handled(w, q, o, s, i, T, M, l, r), NEW s2 \in States
  PROVE  Handled(Leave(w, o, s2), q, o, s2, 0, T, M, l, r)
<1> DEFINE u == To(w, o, s2)
           v == [u EXCEPT !.p.it = 0]
           x == [v EXCEPT !.p.working = FALSE]
<1>1. Handled(u, q, o, s2, i, T, M, l, r)
  BY HandledTo
<1>2. 0 \in 0 .. Cardinality(OSD) /\ FALSE \in BOOLEAN
  BY PeersAreFew
<1> HIDE DEF u
<1>3. Handled(v, q, o, s2, 0, T, M, l, r)
  BY <1>1, <1>2, HandledIt
<1>4. Leave(w, o, s2) = x
  BY DEF Leave, u
<1> HIDE DEF v
<1>5. Handled(x, q, o, s2, 0, T, M, l, r)
  BY <1>2, <1>3, HandledWorking
<1> HIDE DEF x
<1> QED
  BY <1>4, <1>5

LEMMA ToldIs ==
  ASSUME NEW M \in [OSD -> Seq(Event)], NEW S, NEW m \in Event
  PROVE  /\ Told(M, S, m) \in [OSD -> Seq(Event)]
         /\ \A o \in OSD : Told(M, S, m)[o] = IF o \in S THEN Append(M[o], m) ELSE M[o]
<1>1. \A o \in OSD : Append(M[o], m) \in Seq(Event)
  BY AppendIs
<1> QED
  BY <1>1 DEF Told

LEMMA HandledTell ==
  ASSUME NEW w, NEW q \in PGRecord, NEW o \in OSD, NEW s, NEW i, NEW T, NEW M, NEW l, NEW r,
         Handled(w, q, o, s, i, T, M, l, r), NEW S, NEW ev \in Events
  PROVE  /\ Handled(Tell(w, S, ev, o), q, o, s, i, T,
                    Told(M, S, [ev |-> ev, epoch |-> q.epoch[o]]), l, r)
         /\ [ev |-> ev, epoch |-> q.epoch[o]] \in Event
<1>1. w \in [p : PGRecord, l : {l}, r : {r}, bad : BOOLEAN] /\ ~w.bad /\ Turned(w.p, q, o, s, i, T, M)
  BY DEF Handled
<1> DEFINE m == [ev |-> ev, epoch |-> q.epoch[o]]
           N == Told(M, S, m)
           y == [w.p EXCEPT !.toReplica = N]
           x == Tell(w, S, ev, o)
<1>2. m \in Event
  BY DEF PGRecord, Event
<1>3. N \in [OSD -> Seq(Event)]
  <2>1. M \in [OSD -> Seq(Event)]
    BY <1>1 DEF Turned, PGRecord
  <2> QED
    BY <1>2, <2>1, ToldIs
<1>4. w.p.epoch = q.epoch /\ w.p.toReplica = M
  BY <1>1 DEF Turned
<1>5. x = [w EXCEPT !.p = [@ EXCEPT !.toReplica = N]]
  BY <1>4 DEF Tell, Told
<1> HIDE DEF N
<1>6. x.p = y /\ ~x.bad /\ x \in [p : {y}, l : {l}, r : {r}, bad : BOOLEAN]
  BY <1>1, <1>5
<1>7. y \in PGRecord
  BY <1>1, <1>3 DEF PGRecord
<1>8. Turned(y, q, o, s, i, T, N)
  BY <1>1, <1>7 DEF PGRecord, Turned
<1> HIDE DEF x, y
<1> QED
  BY <1>2, <1>6, <1>7, <1>8 DEF Handled, x, N

LEMMA HandledSchedule ==
  ASSUME NEW w, NEW q \in PGRecord, NEW o \in OSD, NEW s, NEW i, NEW T, NEW M, NEW l, NEW r,
         Handled(w, q, o, s, i, T, M, l, r),
         NEW ev \in {"DoRecovery", "RequestBackfill"}, NEW delay \in {"none", "retry"}
  PROVE  Handled(schedule_event_after(w, o, ev, delay), q, o, s, i,
                 T \cup {[ev |-> ev, epoch |-> q.epoch[o], delay |-> delay]}, M, l, r)
<1>1. w \in [p : PGRecord, l : {l}, r : {r}, bad : BOOLEAN] /\ ~w.bad /\ Turned(w.p, q, o, s, i, T, M)
  BY DEF Handled
<1> DEFINE t == [ev |-> ev, epoch |-> q.epoch[o], delay |-> delay]
           N == T \cup {t}
           y == [w.p EXCEPT !.timers = N]
           x == schedule_event_after(w, o, ev, delay)
<1>2. q.epoch[o] \in Interval
  BY DEF PGRecord
<1>3. N \in SUBSET TimerEvents
  <2>1. T \in SUBSET TimerEvents
    BY <1>1 DEF Turned, PGRecord, TimerEvents
  <2>2. t \in TimerEvents
    BY <1>2 DEF TimerEvents
  <2> QED
    BY <2>1, <2>2
<1>4. w.p.epoch = q.epoch /\ w.p.timers = T
  BY <1>1 DEF Turned
<1>5. x = [w EXCEPT !.p = [@ EXCEPT !.timers = N]]
  BY <1>4 DEF schedule_event_after
<1> HIDE DEF N
<1>6. x.p = y /\ ~x.bad /\ x \in [p : {y}, l : {l}, r : {r}, bad : BOOLEAN]
  BY <1>1, <1>5
<1>7. y \in PGRecord
  BY <1>1, <1>3 DEF PGRecord, TimerEvents
<1>8. Turned(y, q, o, s, i, N, M)
  BY <1>1, <1>7 DEF PGRecord, Turned
<1> HIDE DEF x, y
<1> QED
  BY <1>6, <1>7, <1>8 DEF Handled, x, N

LEMMA HandledLocal ==
  ASSUME NEW w, NEW q \in PGRecord, NEW o \in OSD, NEW s, NEW i, NEW T, NEW M, NEW l, NEW r,
         Handled(w, q, o, s, i, T, M, l, r), NEW l2
  PROVE  /\ Handled([w EXCEPT !.l = l2], q, o, s, i, T, M, l2, r)
         /\ [w EXCEPT !.l = l2].p.working = w.p.working
<1>1. w \in [p : PGRecord, l : {l}, r : {r}, bad : BOOLEAN] /\ ~w.bad /\ Turned(w.p, q, o, s, i, T, M)
  BY DEF Handled
<1> DEFINE x == [w EXCEPT !.l = l2]
<1>2. x.p = w.p /\ ~x.bad /\ x \in [p : PGRecord, l : {l2}, r : {r}, bad : BOOLEAN]
  BY <1>1
<1> HIDE DEF x
<1> QED
  BY <1>1, <1>2 DEF Handled, x

LEMMA HandledCancel ==
  ASSUME NEW w, NEW q \in PGRecord, NEW o \in OSD, NEW s, NEW i, NEW T, NEW M, NEW l, NEW r,
         Handled(w, q, o, s, i, T, M, l, r), NEW g
  PROVE  Handled(cancel_local(w, g), q, o, s, i, T, M, Cancelled(l, g), r)
<1>1. w.l = l
  BY DEF Handled
<1>2. cancel_local(w, g) = [w EXCEPT !.l = Cancelled(l, g)]
  BY <1>1 DEF cancel_local, Cancelled
<1> QED
  BY <1>2, HandledLocal

LEMMA HandledRequest ==
  ASSUME NEW w, NEW q \in PGRecord, NEW o \in OSD, NEW s, NEW i, NEW T, NEW M, NEW l, NEW r,
         Handled(w, q, o, s, i, T, M, l, r), NEW g, NEW prio, NEW c, NEW d, ~HasReservation(l, g)
  PROVE  Handled(request_local(w, g, o, prio, c, d), q, o, s, i, T, M,
                 Asked(l, g, prio, Ctx(g, c, q.epoch[o]), Ctx(g, d, q.epoch[o])), r)
<1>1. w.l = l /\ w.p.epoch = q.epoch
  BY DEF Handled, Turned
<1> DEFINE a == Asked(l, g, prio, Ctx(g, c, q.epoch[o]), Ctx(g, d, q.epoch[o]))
<1>2. request_local(w, g, o, prio, c, d) = [w EXCEPT !.l = a]
  BY <1>1 DEF request_local, Asked, Ctx
<1> HIDE DEF a
<1> QED
  BY <1>2, HandledLocal DEF a

LEMMA HandledAsserts ==
  ASSUME NEW w, NEW q \in PGRecord, NEW o \in OSD, NEW s, NEW i, NEW T, NEW M, NEW l, NEW r,
         Handled(w, q, o, s, i, T, M, l, r), NEW P, P
  PROVE  /\ Handled(Asserts(w, P), q, o, s, i, T, M, l, r)
         /\ Asserts(w, P).p = w.p
<1>1. w \in [p : PGRecord, l : {l}, r : {r}, bad : BOOLEAN] /\ ~w.bad /\ Turned(w.p, q, o, s, i, T, M)
  BY DEF Handled
<1> DEFINE b == w.bad \/ ~P
           x == [w EXCEPT !.bad = b]
<1>2. b \in BOOLEAN /\ ~b
  BY <1>1
<1> HIDE DEF b
<1>3. x.p = w.p /\ x.bad = b /\ x \in [p : PGRecord, l : {l}, r : {r}, bad : BOOLEAN]
  BY <1>1, <1>2
<1>4. Asserts(w, P) = x
  BY DEF Asserts, b
<1> HIDE DEF x
<1>5. ~x.bad
  BY <1>2, <1>3
<1> QED
  BY <1>1, <1>3, <1>4, <1>5 DEF Handled

----------------------------------------------------------------------------
(* A step changes one group: what the other groups and the reservers need.  *)
AllOK(ps, lo, re) ==
    /\ lay \in Layouts
    /\ GroupsOK(lay, ps)
    /\ lo \in [OSD -> Reserver] /\ LocalsOK(lay, ps, lo)
    /\ re \in [OSD -> Reserver] /\ RemotesOK(lay, ps, re)

LEMMA AllIs ==
  ASSUME NEW ps, NEW lo, NEW re, AllOK(ps, lo, re), NEW g \in PG
  PROVE  /\ ps \in [PG -> PGRecord] /\ ps[g] \in PGRecord
         /\ GroupOK(ps[g], lay[g]) /\ IsLayout(lay[g])
         /\ \A o \in OSD : /\ Fits(lo[o], LocalSet(lay, ps, o), LocalHolding(lay, ps, o))
                           /\ Fits(re[o], RemoteSet(lay, ps, o), RemoteHolding(lay, ps, o))
BY LayoutIs DEF AllOK, GroupsOK, LocalsOK, RemotesOK

Moved(ps, g, x, ps2) == ps2 = [ps EXCEPT ![g] = x]

LEMMA MovedIs ==
  ASSUME NEW ps \in [PG -> PGRecord], NEW g \in PG, NEW x, NEW ps2, Moved(ps, g, x, ps2)
  PROVE  ps2[g] = x /\ \A h \in PG : h # g => ps2[h] = ps[h]
BY DEF Moved

LEMMA SetsMove ==
  ASSUME NEW ps \in [PG -> PGRecord], NEW g \in PG, NEW x, NEW o, NEW c \in Context, NEW ps2,
         Moved(ps, g, x, ps2)
  PROVE  /\ c.pg # g => (c \in LocalSet(lay, ps2, o) <=> c \in LocalSet(lay, ps, o))
         /\ c.pg # g => (c \in RemoteSet(lay, ps2, o) <=> c \in RemoteSet(lay, ps, o))
         /\ c.pg = g => (c \in LocalSet(lay, ps2, o) <=> LocalOK(x, lay[g], o, c))
         /\ c.pg = g => (c \in RemoteSet(lay, ps2, o) <=> RemoteOK(x, lay[g], o, c))
<1>1. c.pg \in PG
  BY ContextIs
<1>2. ps2[g] = x /\ (c.pg # g => ps2[c.pg] = ps[c.pg])
  BY <1>1, MovedIs
<1> QED
  BY <1>2 DEF LocalSet, RemoteSet

LEMMA HoldingMove ==
  ASSUME NEW ps \in [PG -> PGRecord], NEW g \in PG, NEW x, NEW o, NEW i \in PG, NEW ps2,
         Moved(ps, g, x, ps2)
  PROVE  /\ i # g => (i \in LocalHolding(lay, ps2, o) <=> i \in LocalHolding(lay, ps, o))
         /\ i # g => (i \in RemoteHolding(lay, ps2, o) <=> i \in RemoteHolding(lay, ps, o))
         /\ g \in LocalHolding(lay, ps2, o) <=> o = lay[g].primary /\ x.state[o] \in LocalHolders
         /\ g \in RemoteHolding(lay, ps2, o) <=> o \in lay[g].replicas /\ x.state[o] \in RemoteHolders
<1>1. ps2[g] = x /\ \A h \in PG : h # g => ps2[h] = ps[h]
  BY MovedIs
<1> QED
  BY <1>1 DEF LocalHolding, RemoteHolding

LEMMA LocalMove ==
  ASSUME NEW ps \in [PG -> PGRecord], NEW g \in PG, NEW x, NEW o, NEW r, NEW ps2,
         Moved(ps, g, x, ps2),
         Fits(r, LocalSet(lay, ps, o), LocalHolding(lay, ps, o)),
         \A c \in Context : c.pg = g /\ Holds(r, c) /\ LocalOK(ps[g], lay[g], o, c) =>
                            LocalOK(x, lay[g], o, c),
         g \in LocalHolding(lay, ps, o) /\ HasReservation(r, g) => x.state[o] \in LocalHolders
  PROVE  Fits(r, LocalSet(lay, ps2, o), LocalHolding(lay, ps2, o))
<1>1. ASSUME NEW c \in LocalSet(lay, ps, o), Holds(r, c)
      PROVE  c \in LocalSet(lay, ps2, o)
  <2>1. c \in Context /\ LocalOK(ps[c.pg], lay[c.pg], o, c)
    BY DEF LocalSet
  <2>2. CASE c.pg = g
    BY <1>1, <2>1, <2>2, SetsMove
  <2>3. CASE c.pg # g
    BY <2>1, <2>3, SetsMove
  <2> QED
    BY <2>2, <2>3
<1>2. ASSUME NEW i \in LocalHolding(lay, ps, o), HasReservation(r, i)
      PROVE  i \in LocalHolding(lay, ps2, o)
  <2>1. i \in PG
    BY DEF LocalHolding
  <2>2. CASE i = g
    <3>1. o = lay[g].primary
      BY <2>2 DEF LocalHolding
    <3>2. g \in LocalHolding(lay, ps, o) /\ HasReservation(r, g)
      BY <1>2, <2>2
    <3>3. x.state[o] \in LocalHolders
      BY <3>2
    <3>4. ps2[g] = x
      BY MovedIs
    <3>5. g \in LocalHolding(lay, ps2, o)
      BY <3>1, <3>3, <3>4 DEF LocalHolding
    <3> QED
      BY <2>2, <3>5
  <2>3. CASE i # g
    BY <2>1, <2>3, HoldingMove
  <2> QED
    BY <2>2, <2>3
<1> QED
  BY <1>1, <1>2, FitsMove

LEMMA RemoteMove ==
  ASSUME NEW ps \in [PG -> PGRecord], NEW g \in PG, NEW x, NEW o, NEW r, NEW ps2,
         Moved(ps, g, x, ps2),
         Fits(r, RemoteSet(lay, ps, o), RemoteHolding(lay, ps, o)),
         \A c \in Context : c.pg = g /\ Holds(r, c) /\ RemoteOK(ps[g], lay[g], o, c) =>
                            RemoteOK(x, lay[g], o, c),
         g \in RemoteHolding(lay, ps, o) /\ HasReservation(r, g) => x.state[o] \in RemoteHolders
  PROVE  Fits(r, RemoteSet(lay, ps2, o), RemoteHolding(lay, ps2, o))
<1>1. ASSUME NEW c \in RemoteSet(lay, ps, o), Holds(r, c)
      PROVE  c \in RemoteSet(lay, ps2, o)
  <2>1. c \in Context /\ RemoteOK(ps[c.pg], lay[c.pg], o, c)
    BY DEF RemoteSet
  <2>2. CASE c.pg = g
    BY <1>1, <2>1, <2>2, SetsMove
  <2>3. CASE c.pg # g
    BY <2>1, <2>3, SetsMove
  <2> QED
    BY <2>2, <2>3
<1>2. ASSUME NEW i \in RemoteHolding(lay, ps, o), HasReservation(r, i)
      PROVE  i \in RemoteHolding(lay, ps2, o)
  <2>1. i \in PG
    BY DEF RemoteHolding
  <2>2. CASE i = g
    <3>1. o \in lay[g].replicas
      BY <2>2 DEF RemoteHolding
    <3>2. g \in RemoteHolding(lay, ps, o) /\ HasReservation(r, g)
      BY <1>2, <2>2
    <3>3. x.state[o] \in RemoteHolders
      BY <3>2
    <3>4. ps2[g] = x
      BY MovedIs
    <3>5. g \in RemoteHolding(lay, ps2, o)
      BY <3>1, <3>3, <3>4 DEF RemoteHolding
    <3> QED
      BY <2>2, <3>5
  <2>3. CASE i # g
    BY <2>1, <2>3, HoldingMove
  <2> QED
    BY <2>2, <2>3
<1> QED
  BY <1>1, <1>2, FitsMove

LEMMA GroupsMove ==
  ASSUME NEW ps, GroupsOK(lay, ps), NEW g \in PG, NEW x \in PGRecord, GroupOK(x, lay[g]),
         NEW ps2, Moved(ps, g, x, ps2)
  PROVE  GroupsOK(lay, ps2)
<1>1. ps2 \in [PG -> PGRecord] /\ ps2[g] = x /\ \A h \in PG : h # g => ps2[h] = ps[h]
  BY DEF GroupsOK, Moved
<1> QED
  BY <1>1 DEF GroupsOK

(* What the instance of g on o and its reservers do, put together.          *)
LEMMA StepAll ==
  ASSUME NEW ps, NEW lo, NEW re, AllOK(ps, lo, re), NEW g \in PG, NEW o \in OSD,
         NEW x \in PGRecord, GroupOK(x, lay[g]), NEW ps2, Moved(ps, g, x, ps2),
         NEW l, NEW r,
         Fits(l, LocalSet(lay, ps2, o), LocalHolding(lay, ps2, o)),
         Fits(r, RemoteSet(lay, ps2, o), RemoteHolding(lay, ps2, o)),
         \A a \in OSD : a # o =>
            /\ Fits(lo[a], LocalSet(lay, ps2, a), LocalHolding(lay, ps2, a))
            /\ Fits(re[a], RemoteSet(lay, ps2, a), RemoteHolding(lay, ps2, a))
  PROVE  AllOK(ps2, [lo EXCEPT ![o] = l], [re EXCEPT ![o] = r])
<1> DEFINE lo2 == [lo EXCEPT ![o] = l]
           re2 == [re EXCEPT ![o] = r]
<1>1. l \in Reserver /\ r \in Reserver
  BY FitsTypes
<1>2. /\ lo2 \in [OSD -> Reserver] /\ lo2[o] = l /\ \A a \in OSD : a # o => lo2[a] = lo[a]
      /\ re2 \in [OSD -> Reserver] /\ re2[o] = r /\ \A a \in OSD : a # o => re2[a] = re[a]
  BY <1>1 DEF AllOK
<1> HIDE DEF lo2, re2
<1>3. LocalsOK(lay, ps2, lo2)
  BY <1>2 DEF LocalsOK
<1>4. RemotesOK(lay, ps2, re2)
  BY <1>2 DEF RemotesOK
<1>5. GroupsOK(lay, ps2) /\ lay \in Layouts
  BY GroupsMove DEF AllOK
<1> QED
  BY <1>2, <1>3, <1>4, <1>5 DEF AllOK, lo2, re2

----------------------------------------------------------------------------
(* The primary reacts.                                                      *)

(* Nothing but Backfilled is left of what the primary queued for itself in  *)
(* this interval.                                                           *)
NoOwn(q, p) ==
    \A k \in 1 .. Len(q.own[p]) :
        q.own[p][k].epoch = q.epoch[p] => q.own[p][k].ev = "Backfilled"

(* No grant of this interval is with r, the reserver of the primary.        *)
NoGrant(q, p, g, r) ==
    \A c \in Context : Holds(r, c) /\ c.pg = g /\ c.epoch = q.epoch[p] => c.ev \notin GrantEvents

Callback(q, l, o, c) ==
    CallbackOK(View(q, l, o), q.epoch[l.primary], q.epoch[o], q.state[o],
               q.toReplica[o], q.toPrimary[o], c)

LEMMA GroupTurn ==
  ASSUME NEW l, IsLayout(l), NEW q \in PGRecord, GroupOK(q, l), NEW x, NEW s \in ActiveStates,
         NEW i, NEW T, NEW M, Turned(x, q, l.primary, s, i, T, M),
         \A o \in l.replicas : PeerOK(x, l, o),
         \A o \in OSD \ l.replicas : M[o] = <<>>,
         OwnOK(q.own[l.primary], q.epoch[l.primary], s, x.working, q.todo),
         TimersOK(T, q.epoch[l.primary], s),
         WorkOK(s, i, x.working, q.todo, l)
  PROVE  GroupOK(x, l)
<1> DEFINE p == l.primary
<1>1. p \in OSD
  BY DEF IsLayout
<1>2. /\ x.epoch = q.epoch /\ x.interval = q.interval /\ x.todo = q.todo
      /\ x.scan = q.scan /\ x.toPrimary = q.toPrimary /\ x.own = q.own
      /\ x.it = i /\ x.timers = T /\ x.toReplica = M /\ x.state[p] = s
  BY <1>1 DEF Turned, PGRecord
<1>3. OthersOK(x, l)
  BY <1>2 DEF GroupOK, OthersOK
<1>4. ScansOK(x, l)
  BY <1>2 DEF GroupOK, ScansOK
<1>5. \A o \in OSD : x.epoch[o] <= x.interval
  BY <1>2 DEF GroupOK
<1>6. /\ OwnOK(x.own[p], x.epoch[p], x.state[p], x.working, x.todo)
      /\ TimersOK(x.timers, x.epoch[p], x.state[p])
      /\ WorkOK(x.state[p], x.it, x.working, x.todo, l)
  BY <1>2
<1> HIDE DEF p
<1> QED
  BY <1>3, <1>4, <1>5, <1>6 DEF GroupOK, p

(* What the primary takes its peers for.                                    *)
FreeStates == {"Activating", "WaitLocalRecoveryReserved", "NotRecovering",
               "WaitLocalBackfillReserved", "Clean"}

LEMMA ViewIs ==
  ASSUME NEW x, NEW l, NEW o, NEW s, s = x.state[l.primary]
  PROVE  /\ s = "Peering" => View(x, l, o) = "peering"
         /\ s \in FreeStates => View(x, l, o) = "free"
         /\ s = "Recovering" => View(x, l, o) = "granted"
         /\ s = "WaitRemoteRecoveryReserved" =>
               View(x, l, o) = AskView(Peers(l, "recovery"), x.it, o, "asksRecovery")
         /\ s = "WaitRemoteBackfillReserved" =>
               View(x, l, o) = AskView(Peers(l, "backfill"), x.it, o, "asksBackfill")
         /\ s = "Backfilling" =>
               View(x, l, o) = IF o \notin l.targets THEN "free"
                               ELSE IF "backfill" \in x.todo THEN "granted" ELSE "done"
         /\ s = "NotBackfilling" => View(x, l, o) = IF RetriesLate(x, l) THEN "drain" ELSE "free"
BY DEF View, FreeStates

(* The pair of a peer after a reaction of the primary.                      *)
LEMMA PeerTurn ==
  ASSUME NEW l, IsLayout(l), NEW q \in PGRecord, NEW x, NEW s \in States,
         NEW i, NEW T, NEW M, Turned(x, q, l.primary, s, i, T, M), NEW o \in l.replicas,
         NEW u, u = View(x, l, o)
  PROVE  /\ PeerOK(x, l, o) <=>
               PairOK(u, q.epoch[l.primary], q.epoch[o], q.state[o], M[o], q.toPrimary[o])
         /\ \A c : Callback(x, l, o, c) <=>
               CallbackOK(u, q.epoch[l.primary], q.epoch[o], q.state[o], M[o], q.toPrimary[o], c)
<1>1. l.primary \in OSD /\ o \in OSD /\ o # l.primary
  BY DEF IsLayout
<1>2. /\ x.epoch = q.epoch /\ x.toPrimary = q.toPrimary /\ x.toReplica = M
      /\ x.state[o] = q.state[o]
  BY <1>1 DEF Turned, PGRecord
<1> QED
  BY <1>2 DEF PeerOK, Callback

LEMMA PairTypes ==
  ASSUME NEW q \in PGRecord, NEW l, IsLayout(l), NEW o \in l.replicas
  PROVE  /\ q.epoch[l.primary] \in Nat /\ q.epoch[o] \in Nat /\ o \in OSD /\ o # l.primary
         /\ q.toReplica[o] \in Seq(Event) /\ q.toPrimary[o] \in Seq(Event)
<1>1. l.primary \in OSD /\ o \in OSD /\ o # l.primary
  BY DEF IsLayout
<1>2. \A a \in OSD : q.epoch[a] \in Nat
  BY RecoveryReservationAssumption DEF PGRecord, Interval
<1>3. q.toReplica[o] \in Seq(Event) /\ q.toPrimary[o] \in Seq(Event)
  BY <1>1 DEF PGRecord
<1> QED
  BY <1>1, <1>2, <1>3

(* The local reserver.                                                      *)
Settled(ps, g, p) ==
    {c \in LocalSet(lay, ps, p) :
        c.pg = g /\ c.epoch = ps[g].epoch[p] => c.ev \notin GrantEvents}

LEMMA LocalSettled ==
  ASSUME NEW ps, NEW lo, NEW re, AllOK(ps, lo, re), NEW g \in PG, NEW p, p = lay[g].primary,
         NoGrant(ps[g], p, g, lo[p])
  PROVE  Fits(lo[p], Settled(ps, g, p), LocalHolding(lay, ps, p))
<1>1. p \in OSD /\ Fits(lo[p], LocalSet(lay, ps, p), LocalHolding(lay, ps, p))
  BY AllIs DEF IsLayout
<1>2. \A c \in LocalSet(lay, ps, p) : Holds(lo[p], c) => c \in Settled(ps, g, p)
  BY DEF Settled, NoGrant, LocalSet
<1> QED
  BY <1>1, <1>2, FitsMove

(* Without a grant of this interval the primary may go to any state, as     *)
(* long as it keeps track of a reservation.                                 *)
LEMMA LocalKeep ==
  ASSUME NEW ps \in [PG -> PGRecord], NEW g \in PG, NEW p \in OSD, p = lay[g].primary,
         NEW r, NEW H, Fits(r, Settled(ps, g, p), H), H \subseteq LocalHolding(lay, ps, p),
         NEW s \in ActiveStates, s \in LocalHolders \/ g \notin H,
         NEW x, x.state[p] = s, x.epoch = ps[g].epoch, NEW ps2, Moved(ps, g, x, ps2)
  PROVE  Fits(r, LocalSet(lay, ps2, p), LocalHolding(lay, ps2, p))
<1>0. ps2[g] = x /\ \A h \in PG : h # g => ps2[h] = ps[h]
  BY MovedIs
<1>1. s # "Peering"
  BY DEF ActiveStates
<1>2. ASSUME NEW c \in Settled(ps, g, p)
      PROVE  c \in LocalSet(lay, ps2, p)
  <2>1. c \in Context /\ LocalOK(ps[c.pg], lay[c.pg], p, c) /\ c \in LocalSet(lay, ps, p)
    BY DEF Settled, LocalSet
  <2>2. CASE c.pg # g
    <3>1. ps2[c.pg] = ps[c.pg]
      BY <1>0, <2>1, <2>2, ContextIs
    <3> QED
      BY <2>1, <3>1 DEF LocalSet
  <2>3. CASE c.pg = g
    <3>1. c.epoch = x.epoch[p] => c.ev \notin {"LocalRecoveryReserved", "LocalBackfillReserved"}
      BY <2>3 DEF Settled, GrantEvents
    <3>2. LocalOK(x, lay[g], p, c)
      BY <1>1, <2>1, <2>3, <3>1 DEF LocalOK
    <3> QED
      BY <1>0, <2>1, <2>3, <3>2 DEF LocalSet
  <2> QED
    BY <2>2, <2>3
<1>3. ASSUME NEW j \in H
      PROVE  j \in LocalHolding(lay, ps2, p)
  <2>1. j \in PG /\ j \in LocalHolding(lay, ps, p)
    BY DEF LocalHolding
  <2>2. CASE j # g
    BY <1>0, <2>1, <2>2 DEF LocalHolding
  <2>3. CASE j = g
    <3>1. ps2[g] = x /\ s \in LocalHolders
      BY <1>0, <2>3
    <3> QED
      BY <2>3, <3>1 DEF LocalHolding
  <2> QED
    BY <2>2, <2>3
<1> QED
  BY <1>2, <1>3, FitsMove

LEMMA LocalCancel ==
  ASSUME NEW ps, NEW g \in PG, NEW p, NEW r, NEW H, Fits(r, Settled(ps, g, p), H)
  PROVE  /\ Fits(Cancelled(r, g), Settled(ps, g, p), H \ {g})
         /\ ~HasReservation(Cancelled(r, g), g)
<1>1. Fits(Cancelled(r, g), Settled(ps, g, p), H \ {g})
  BY FitsCancel DEF Cancelled, PG
<1> QED
  BY <1>1 DEF Fits, PG

LEMMA LocalAsk ==
  ASSUME NEW ps \in [PG -> PGRecord], NEW g \in PG, NEW p \in OSD, p = lay[g].primary,
         NEW r, NEW H, Fits(r, Settled(ps, g, p), H), H \subseteq LocalHolding(lay, ps, p),
         g \notin H, NEW c, NEW d, NEW prio \in Prio,
         NEW s, \/ s = "WaitLocalRecoveryReserved" /\ c = "LocalRecoveryReserved" /\ d = "DeferRecovery"
                \/ s = "WaitLocalBackfillReserved" /\ c = "LocalBackfillReserved" /\ d = "DeferBackfill",
         NEW x, x.state[p] = s, x.epoch = ps[g].epoch, NEW ps2, Moved(ps, g, x, ps2)
  PROVE  /\ ~HasReservation(r, g)
         /\ Fits(Asked(r, g, prio, Ctx(g, c, ps[g].epoch[p]), Ctx(g, d, ps[g].epoch[p])),
                 LocalSet(lay, ps2, p), LocalHolding(lay, ps2, p))
<1> DEFINE e == ps[g].epoch[p]
           C == Ctx(g, c, e)
           E == Ctx(g, d, e)
<1>1. s \in ActiveStates /\ s \in LocalHolders /\ s # "Peering"
  BY DEF ActiveStates, LocalHolders
<1>2. Fits(r, LocalSet(lay, ps2, p), LocalHolding(lay, ps2, p))
  BY <1>1, LocalKeep
<1>3. ~HasReservation(r, g)
  BY DEF Fits, PG
<1>4. e \in Interval /\ e \in Nat
  BY RecoveryReservationAssumption DEF PGRecord, Interval
<1>5. c \in Events /\ d \in Events /\ c \in GrantEvents /\ d \notin GrantEvents
  BY DEF Events, GrantEvents
<1>6. /\ C \in Context /\ E \in Context
      /\ C.pg = g /\ C.ev = c /\ C.epoch = e /\ E.pg = g /\ E.ev = d /\ E.epoch = e
  BY <1>4, <1>5, RecoveryReservationAssumption DEF Ctx
<1> HIDE DEF C, E
<1>7. LocalOK(x, lay[g], p, C) /\ LocalOK(x, lay[g], p, E)
  <2>1. x.epoch[p] = e
    OBVIOUS
  <2> HIDE DEF e
  <2> QED
    BY <1>1, <1>4, <1>6, <2>1 DEF LocalOK
<1>8. C \in LocalSet(lay, ps2, p) /\ E \in LocalSet(lay, ps2, p)
  BY <1>6, <1>7, SetsMove
<1>9. g \in LocalHolding(lay, ps2, p)
  <2>1. ps2[g] = x
    BY MovedIs
  <2> QED
    BY <1>1, <2>1 DEF LocalHolding
<1>10. C \notin Elems(r.f)
  <2>1. C \notin Settled(ps, g, p)
    BY <1>5, <1>6 DEF Settled
  <2> QED
    BY <2>1 DEF Fits
<1>11. Fits(do_queues(request_reservation(r, g, C, prio, E)),
            LocalSet(lay, ps2, p), LocalHolding(lay, ps2, p))
  BY <1>2, <1>3, <1>5, <1>6, <1>8, <1>9, <1>10, FitsRequest DEF PG
<1> QED
  BY <1>3, <1>11 DEF Asked, C, E

(* The peers after a reaction of the primary.                               *)
LEMMA FreeToDrain ==
  ASSUME NEW u \in {"free", "drain"}, NEW ep \in Nat, NEW eo \in Nat, NEW so,
         NEW M \in Seq(Event), NEW N \in Seq(Event), PairOK("free", ep, eo, so, M, N)
  PROVE  /\ PairOK(u, ep, eo, so, M, N)
         /\ \A c : CallbackOK("free", ep, eo, so, M, N, c) => CallbackOK(u, ep, eo, so, M, N, c)
<1>1. /\ None(N, ep, Answers)
      /\ eo = ep => None(M, eo, Requests)
      /\ \A c : CallbackOK("free", ep, eo, so, M, N, c) =>
                (eo = ep /\ c.epoch = eo => c.ev \notin RemoteGrants)
  BY PairQuiet
<1>2. HeldOK(u, ep, eo, so, M)
  BY DEF PairOK, HeldOK
<1>3. PairOK(u, ep, eo, so, M, N)
  BY <1>1, <1>2, PairTurn
<1>4. \A c : CallbackOK("free", ep, eo, so, M, N, c) => CallbackOK(u, ep, eo, so, M, N, c)
  BY <1>1, CallbackTurn
<1> QED
  BY <1>3, <1>4

Asks == {"asksRecovery", "asksBackfill"}

Grants == {"granted", "done"}

LEMMA PairGranted ==
  ASSUME NEW v, NEW u, NEW ep \in Nat, NEW eo \in Nat, NEW so,
         v \in Asks, u \in Grants,
         NEW M \in Seq(Event), NEW N \in Seq(Event), PairOK(v, ep, eo, so, M, N),
         eo = ep => Granted(M, eo, so), None(N, ep, Answers)
  PROVE  /\ PairOK(u, ep, eo, so, M, N)
         /\ \A c : CallbackOK(v, ep, eo, so, M, N, c) => CallbackOK(u, ep, eo, so, M, N, c)
<1>1. eo = ep => None(M, eo, Requests)
  BY DEF Granted, Clear, None
<1>2. HeldOK(u, ep, eo, so, M)
  BY DEF HeldOK, Grants
<1>3. PairOK(u, ep, eo, so, M, N)
  BY <1>1, <1>2, PairTurn DEF Asks, Grants
<1>4. ASSUME NEW c, CallbackOK(v, ep, eo, so, M, N, c)
      PROVE  CallbackOK(u, ep, eo, so, M, N, c)
  <2>1. eo = ep /\ c.epoch = eo => c.ev \notin RemoteGrants
    BY <1>4 DEF CallbackOK, DueOK, Granted, RemoteGrants
  <2> QED
    BY <1>4, <2>1, CallbackTurn
<1> QED
  BY <1>3, <1>4

(* Peers that keep their place, at least.                                   *)
PeersKept(q, x, l, o) ==
    /\ PeerOK(x, l, o)
    /\ \A c \in Context : Callback(q, l, o, c) => Callback(x, l, o, c)

LEMMA PeerSame ==
  ASSUME NEW l, IsLayout(l), NEW q \in PGRecord, GroupOK(q, l), NEW x, NEW s \in States,
         NEW i, NEW T, NEW M, Turned(x, q, l.primary, s, i, T, M), NEW o \in l.replicas,
         M[o] = q.toReplica[o],
         \/ View(x, l, o) = View(q, l, o)
         \/ View(q, l, o) = "free" /\ View(x, l, o) = "drain"
  PROVE  PeersKept(q, x, l, o)
<1> DEFINE ep == q.epoch[l.primary]
           eo == q.epoch[o]
           so == q.state[o]
           N == q.toPrimary[o]
<1>1. ep \in Nat /\ eo \in Nat /\ M[o] \in Seq(Event) /\ N \in Seq(Event)
  BY PairTypes
<1>2. PICK v, u : v = View(q, l, o) /\ u = View(x, l, o)
  OBVIOUS
<1>3. PairOK(v, ep, eo, so, M[o], N)
  BY <1>2 DEF GroupOK, PeerOK
<1>4. \A c : Callback(q, l, o, c) <=> CallbackOK(v, ep, eo, so, M[o], N, c)
  BY <1>2 DEF Callback
<1>5. /\ PeerOK(x, l, o) <=> PairOK(u, ep, eo, so, M[o], N)
      /\ \A c : Callback(x, l, o, c) <=> CallbackOK(u, ep, eo, so, M[o], N, c)
  BY <1>2, PeerTurn
<1> HIDE DEF ep, eo, so, N
<1>6. CASE u = v
  BY <1>3, <1>4, <1>5, <1>6 DEF PeersKept
<1>7. CASE v = "free" /\ u = "drain"
  <2>1. /\ PairOK(u, ep, eo, so, M[o], N)
        /\ \A c : CallbackOK("free", ep, eo, so, M[o], N, c) => CallbackOK(u, ep, eo, so, M[o], N, c)
    BY <1>1, <1>3, <1>7, FreeToDrain
  <2> QED
    BY <1>4, <1>5, <1>7, <2>1 DEF PeersKept
<1> QED
  BY <1>2, <1>6, <1>7

LEMMA PeerReleased ==
  ASSUME NEW l, IsLayout(l), NEW q \in PGRecord, GroupOK(q, l), NEW x, NEW s \in States,
         NEW i, NEW T, NEW M, Turned(x, q, l.primary, s, i, T, M), NEW o \in l.replicas,
         NEW m \in Event, m.ev \in Releases, m.epoch = q.epoch[l.primary],
         M[o] = Append(q.toReplica[o], m),
         View(q, l, o) \in {"granted", "done", "asksBackfill"},
         View(x, l, o) \in {"free", "drain", "done"},
         View(q, l, o) = "asksBackfill" => View(x, l, o) = "drain",
         m.ev = "RecoveryDone" => View(q, l, o) = "granted"
  PROVE  PeersKept(q, x, l, o)
<1> DEFINE ep == q.epoch[l.primary]
           eo == q.epoch[o]
           so == q.state[o]
           N == q.toPrimary[o]
           L == q.toReplica[o]
<1>1. ep \in Nat /\ eo \in Nat /\ L \in Seq(Event) /\ N \in Seq(Event) /\ m.epoch = ep
  BY PairTypes
<1>2. PICK v, u : v = View(q, l, o) /\ u = View(x, l, o)
  OBVIOUS
<1>3. PairOK(v, ep, eo, so, L, N)
  BY <1>2 DEF GroupOK, PeerOK
<1>4. \A c : Callback(q, l, o, c) <=> CallbackOK(v, ep, eo, so, L, N, c)
  BY <1>2 DEF Callback
<1>5. /\ PeerOK(x, l, o) <=> PairOK(u, ep, eo, so, M[o], N)
      /\ \A c : Callback(x, l, o, c) <=> CallbackOK(u, ep, eo, so, M[o], N, c)
  BY <1>2, PeerTurn
<1>6. M[o] = Append(L, m)
  OBVIOUS
<1> HIDE DEF ep, eo, so, N, L
<1>7. /\ v \in {"granted", "done", "asksBackfill"} /\ u \in {"free", "drain", "done"}
      /\ v = "asksBackfill" => u = "drain"
      /\ m.ev = "RecoveryDone" => v = "granted"
  BY <1>2
<1>8. /\ PairOK(u, ep, eo, so, Append(L, m), N)
      /\ \A c : CallbackOK(v, ep, eo, so, L, N, c) => CallbackOK(u, ep, eo, so, Append(L, m), N, c)
  BY <1>1, <1>3, <1>7, PairRelease
<1> QED
  BY <1>4, <1>5, <1>6, <1>8 DEF PeersKept

LEMMA PeerAsked ==
  ASSUME NEW l, IsLayout(l), NEW q \in PGRecord, GroupOK(q, l), NEW x, NEW s \in States,
         NEW i, NEW T, NEW M, Turned(x, q, l.primary, s, i, T, M), NEW o \in l.replicas,
         NEW m \in Event, m.ev \in Requests, m.epoch = q.epoch[l.primary],
         M[o] = Append(q.toReplica[o], m),
         View(q, l, o) = "free", View(x, l, o) = Requested(m.ev)
  PROVE  PeersKept(q, x, l, o)
<1> DEFINE ep == q.epoch[l.primary]
           eo == q.epoch[o]
           so == q.state[o]
           N == q.toPrimary[o]
           L == q.toReplica[o]
<1>1. ep \in Nat /\ eo \in Nat /\ L \in Seq(Event) /\ N \in Seq(Event) /\ m.epoch = ep
  BY PairTypes
<1>2. PICK u : u = View(x, l, o)
  OBVIOUS
<1>3. PairOK("free", ep, eo, so, L, N)
  BY DEF GroupOK, PeerOK
<1>4. \A c : Callback(q, l, o, c) <=> CallbackOK("free", ep, eo, so, L, N, c)
  BY DEF Callback
<1>5. /\ PeerOK(x, l, o) <=> PairOK(u, ep, eo, so, M[o], N)
      /\ \A c : Callback(x, l, o, c) <=> CallbackOK(u, ep, eo, so, M[o], N, c)
  BY <1>2, PeerTurn
<1>6. M[o] = Append(L, m)
  OBVIOUS
<1> HIDE DEF ep, eo, so, N, L
<1>8. /\ PairOK(u, ep, eo, so, Append(L, m), N)
      /\ \A c : CallbackOK("free", ep, eo, so, L, N, c) => CallbackOK(u, ep, eo, so, Append(L, m), N, c)
  BY <1>1, <1>2, <1>3, PairAsk
<1> QED
  BY <1>4, <1>5, <1>6, <1>8 DEF PeersKept

LEMMA PeerGranted ==
  ASSUME NEW l, IsLayout(l), NEW q \in PGRecord, GroupOK(q, l), NEW x, NEW s \in States,
         NEW i, NEW T, NEW M, Turned(x, q, l.primary, s, i, T, M), NEW o \in l.replicas,
         M[o] = q.toReplica[o],
         q.epoch[o] = q.epoch[l.primary] => Granted(q.toReplica[o], q.epoch[o], q.state[o]),
         None(q.toPrimary[o], q.epoch[l.primary], Answers),
         View(q, l, o) \in Asks, View(x, l, o) \in Grants
  PROVE  PeersKept(q, x, l, o)
<1> DEFINE ep == q.epoch[l.primary]
           eo == q.epoch[o]
           so == q.state[o]
           N == q.toPrimary[o]
<1>1. ep \in Nat /\ eo \in Nat /\ M[o] \in Seq(Event) /\ N \in Seq(Event)
  BY PairTypes
<1>2. PICK v, u : v = View(q, l, o) /\ u = View(x, l, o)
  OBVIOUS
<1>3. PairOK(v, ep, eo, so, M[o], N)
  BY <1>2 DEF GroupOK, PeerOK
<1>4. \A c : Callback(q, l, o, c) <=> CallbackOK(v, ep, eo, so, M[o], N, c)
  BY <1>2 DEF Callback
<1>5. /\ PeerOK(x, l, o) <=> PairOK(u, ep, eo, so, M[o], N)
      /\ \A c : Callback(x, l, o, c) <=> CallbackOK(u, ep, eo, so, M[o], N, c)
  BY <1>2, PeerTurn
<1>6. (eo = ep => Granted(M[o], eo, so)) /\ None(N, ep, Answers)
  OBVIOUS
<1> HIDE DEF ep, eo, so, N
<1>7. v \in Asks /\ u \in Grants
  BY <1>2
<1>8. /\ PairOK(u, ep, eo, so, M[o], N)
      /\ \A c : CallbackOK(v, ep, eo, so, M[o], N, c) => CallbackOK(u, ep, eo, so, M[o], N, c)
  <2>1. PICK L : L = M[o]
    OBVIOUS
  <2>2. L \in Seq(Event) /\ PairOK(v, ep, eo, so, L, N) /\ (eo = ep => Granted(L, eo, so))
    BY <1>1, <1>3, <1>6, <2>1
  <2>3. PairOK(u, ep, eo, so, L, N)
    BY <1>1, <1>6, <1>7, <2>2, PairGranted
  <2>4. \A c : CallbackOK(v, ep, eo, so, L, N, c) => CallbackOK(u, ep, eo, so, L, N, c)
    BY <1>1, <1>6, <1>7, <2>2, <2>3, PairGranted
  <2> QED
    BY <2>1, <2>3, <2>4
<1> QED
  BY <1>4, <1>5, <1>8 DEF PeersKept

(* The events the primary has queued and its timers, after a reaction.      *)
LEMMA OwnTurn ==
  ASSUME NEW own, NEW e, NEW s0, NEW b0, NEW todo, OwnOK(own, e, s0, b0, todo),
         \A k \in 1 .. Len(own) : own[k].epoch = e => own[k].ev = "Backfilled",
         NEW s \in ActiveStates, NEW b
  PROVE  OwnOK(own, e, s, b, todo)
<1>1. s # "Peering"
  BY DEF ActiveStates
<1> QED
  BY <1>1 DEF OwnOK

LEMMA NoOwnIs ==
  ASSUME NEW q, NEW l, GroupOK(q, l), NEW p, p = l.primary,
         \/ q.state[p] \notin {"Activating", "Recovering"}
         \/ q.state[p] = "Recovering" /\ q.working
  PROVE  NoOwn(q, p)
BY DEF GroupOK, OwnOK, NoOwn

NoRetry(T, e) == \A t \in T : t.epoch = e => t.ev # "RequestBackfill"

Timed == ActiveStates \ {"Activating"}

LEMMA NoRetryIs ==
  ASSUME NEW q, NEW l, GroupOK(q, l), NEW p, p = l.primary, q.state[p] # "NotBackfilling"
  PROVE  NoRetry(q.timers, q.epoch[p])
BY DEF GroupOK, TimersOK, NoRetry

LEMMA TimersTurn ==
  ASSUME NEW T, NEW e \in Nat, NEW s0, TimersOK(T, e, s0), NoRetry(T, e), NEW s \in Timed
  PROVE  /\ TimersOK(T, e, s)
         /\ \A d : TimersOK(T \cup {[ev |-> "DoRecovery", epoch |-> e, delay |-> d]}, e, s)
         /\ \A d : s = "NotBackfilling" =>
                   TimersOK(T \cup {[ev |-> "RequestBackfill", epoch |-> e, delay |-> d]}, e, s)
<1>1. s \notin {"Peering", "Activating"}
  BY DEF Timed, ActiveStates
<1>2. TimersOK(T, e, s)
  BY <1>1 DEF TimersOK, NoRetry
<1>3. ASSUME NEW d
      PROVE  TimersOK(T \cup {[ev |-> "DoRecovery", epoch |-> e, delay |-> d]}, e, s)
  BY <1>1 DEF TimersOK, NoRetry
<1>4. ASSUME NEW d, s = "NotBackfilling"
      PROVE  TimersOK(T \cup {[ev |-> "RequestBackfill", epoch |-> e, delay |-> d]}, e, s)
  BY <1>1, <1>4 DEF TimersOK, NoRetry
<1> QED
  BY <1>2, <1>3, <1>4

LEMMA RetriesIs ==
  ASSUME NEW x, NEW l, NEW T, NEW e, NEW d, x.epoch[l.primary] = e, NoRetry(T, e),
         x.timers = T \cup {[ev |-> "RequestBackfill", epoch |-> e, delay |-> d]}
  PROVE  RetriesLate(x, l) <=> d = "retry"
<1>1. PICK t : t = [ev |-> "RequestBackfill", epoch |-> e, delay |-> d]
  OBVIOUS
<1>2. t \in x.timers /\ t.ev = "RequestBackfill" /\ t.epoch = e /\ t.delay = d
  BY <1>1
<1>3. RetriesLate(x, l) => d = "retry"
  BY <1>2 DEF RetriesLate
<1>4. \A u \in x.timers : u = t \/ u \in T
  BY <1>1
<1>5. d = "retry" => RetriesLate(x, l)
  BY <1>2, <1>4 DEF RetriesLate, NoRetry
<1> QED
  BY <1>3, <1>5

(* A reaction w of an instance on o: no assertion fails and the groups and  *)
(* the reservers stay in order.                                             *)
Reacts(ps, lo, re, g, o, w) ==
    /\ ~w.bad
    /\ AllOK([ps EXCEPT ![g] = w.p], [lo EXCEPT ![o] = w.l], [re EXCEPT ![o] = w.r])

LEMMA ReactionAll ==
  ASSUME NEW ps, NEW lo, NEW re, AllOK(ps, lo, re), NEW g \in PG,
         NEW l, l = lay[g], NEW p, p = l.primary, NEW q, q = ps[g],
         NEW w, NEW s \in ActiveStates, NEW i, NEW T, NEW M, NEW l2,
         Handled(w, q, p, s, i, T, M, l2, re[p]),
         \A o \in l.replicas :
            /\ PeerOK(w.p, l, o)
            /\ \A c \in Context : Holds(re[o], c) /\ c.pg = g /\ Callback(q, l, o, c) =>
                                  Callback(w.p, l, o, c),
         \A o \in OSD \ l.replicas : M[o] = <<>>,
         OwnOK(q.own[p], q.epoch[p], s, w.p.working, q.todo),
         TimersOK(T, q.epoch[p], s),
         WorkOK(s, i, w.p.working, q.todo, l),
         NEW ps2, Moved(ps, g, w.p, ps2),
         Fits(l2, LocalSet(lay, ps2, p), LocalHolding(lay, ps2, p))
  PROVE  Reacts(ps, lo, re, g, p, w)
<1> DEFINE x == w.p
<1>1. /\ ps \in [PG -> PGRecord] /\ q \in PGRecord /\ GroupOK(q, l) /\ IsLayout(l)
      /\ \A o \in OSD : /\ Fits(lo[o], LocalSet(lay, ps, o), LocalHolding(lay, ps, o))
                        /\ Fits(re[o], RemoteSet(lay, ps, o), RemoteHolding(lay, ps, o))
  BY AllIs
<1>2. p \in OSD /\ p \notin l.replicas /\ l.replicas \subseteq OSD
  BY <1>1 DEF IsLayout
<1>3. ~w.bad /\ w.l = l2 /\ w.r = re[p] /\ x \in PGRecord /\ Turned(x, q, p, s, i, T, M)
  BY DEF Handled
<1>4. x.epoch = q.epoch /\ x.state = [q.state EXCEPT ![p] = s]
  BY <1>3 DEF Turned
<1>5. \A o \in OSD : o # p => x.state[o] = q.state[o]
  BY <1>1, <1>4 DEF PGRecord
<1> HIDE DEF x
<1>6. GroupOK(x, l)
  BY <1>1, <1>3, GroupTurn DEF x
<1>7. ASSUME NEW a \in OSD, a # p
      PROVE  Fits(lo[a], LocalSet(lay, ps2, a), LocalHolding(lay, ps2, a))
  <2>1. \A c \in Context : ~LocalOK(ps[g], lay[g], a, c)
    BY <1>7 DEF LocalOK
  <2>2. g \notin LocalHolding(lay, ps, a)
    BY <1>7 DEF LocalHolding
  <2>3. Fits(lo[a], LocalSet(lay, ps, a), LocalHolding(lay, ps, a)) /\ Moved(ps, g, x, ps2)
    BY <1>1 DEF x
  <2> QED
    BY <1>1, <2>1, <2>2, <2>3, LocalMove
<1>8. ASSUME NEW a \in OSD
      PROVE  Fits(re[a], RemoteSet(lay, ps2, a), RemoteHolding(lay, ps2, a))
  <2>1. Fits(re[a], RemoteSet(lay, ps, a), RemoteHolding(lay, ps, a)) /\ Moved(ps, g, x, ps2)
    BY <1>1 DEF x
  <2>2. ASSUME NEW c \in Context, c.pg = g, Holds(re[a], c), RemoteOK(ps[g], lay[g], a, c)
        PROVE  RemoteOK(x, lay[g], a, c)
    <3>1. a \in l.replicas /\ Callback(q, l, a, c)
      BY <2>2 DEF RemoteOK, Callback
    <3>2. Callback(x, l, a, c)
      BY <2>2, <3>1 DEF x
    <3> QED
      BY <3>1, <3>2 DEF RemoteOK, Callback
  <2>3. ASSUME g \in RemoteHolding(lay, ps, a)
        PROVE  x.state[a] \in RemoteHolders
    <3>1. a \in l.replicas /\ q.state[a] \in RemoteHolders
      BY <2>3 DEF RemoteHolding
    <3> QED
      BY <1>2, <1>5, <3>1
  <2> QED
    BY <1>1, <2>1, <2>2, <2>3, RemoteMove
<1> DEFINE lo2 == [lo EXCEPT ![p] = l2]
           re2 == [re EXCEPT ![p] = re[p]]
<1>9. AllOK(ps2, lo2, re2)
  <2>1. Moved(ps, g, x, ps2) /\ GroupOK(x, lay[g])
    BY <1>6 DEF x
  <2>2. Fits(re[p], RemoteSet(lay, ps2, p), RemoteHolding(lay, ps2, p))
    BY <1>2, <1>8
  <2> QED
    BY <1>2, <1>3, <1>7, <1>8, <2>1, <2>2, StepAll
<1>10. ps2 = [ps EXCEPT ![g] = w.p] /\ lo2 = [lo EXCEPT ![p] = w.l] /\ re2 = [re EXCEPT ![p] = w.r]
  BY <1>3 DEF Moved
<1> HIDE DEF lo2, re2
<1> QED
  BY <1>3, <1>9, <1>10 DEF Reacts

(* An instance of g on o is about to react: w is what its handler gets.     *)
Stage(ps, lo, re, g, l, p, q, w) ==
    /\ AllOK(ps, lo, re)
    /\ g \in PG /\ l = lay[g] /\ p = l.primary /\ q = ps[g]
    /\ w = [p |-> q, l |-> lo[p], r |-> re[p], bad |-> FALSE]

LEMMA StageIs ==
  ASSUME NEW ps, NEW lo, NEW re, NEW g, NEW l, NEW p, NEW q, NEW w,
         Stage(ps, lo, re, g, l, p, q, w)
  PROVE  /\ AllOK(ps, lo, re) /\ ps \in [PG -> PGRecord] /\ q = ps[g] /\ q \in PGRecord
         /\ g \in PG /\ l = lay[g] /\ p = l.primary /\ IsLayout(l) /\ GroupOK(q, l)
         /\ p \in OSD /\ p \notin l.replicas /\ l.replicas \subseteq OSD
         /\ l.targets \subseteq l.replicas
         /\ q.epoch[p] \in Nat
         /\ w.p = q /\ w.l = lo[p] /\ w.r = re[p] /\ ~w.bad
         /\ Handled(w, q, p, q.state[p], q.it, q.timers, q.toReplica, lo[p], re[p])
         /\ q.state[p] \in ActiveStates \cup {"Peering"}
         /\ Fits(lo[p], LocalSet(lay, ps, p), LocalHolding(lay, ps, p))
<1>1. /\ AllOK(ps, lo, re) /\ g \in PG /\ l = lay[g] /\ p = l.primary /\ q = ps[g]
      /\ w = [p |-> q, l |-> lo[p], r |-> re[p], bad |-> FALSE]
  BY DEF Stage
<1>2. /\ ps \in [PG -> PGRecord] /\ q \in PGRecord /\ GroupOK(q, l) /\ IsLayout(l)
      /\ \A o \in OSD : Fits(lo[o], LocalSet(lay, ps, o), LocalHolding(lay, ps, o))
  BY <1>1, AllIs
<1>3. p \in OSD /\ p \notin l.replicas /\ l.replicas \subseteq OSD /\ l.targets \subseteq l.replicas
  BY <1>1, <1>2 DEF IsLayout
<1>4. Handled(w, q, p, q.state[p], q.it, q.timers, q.toReplica, lo[p], re[p])
  BY <1>1, <1>2, <1>3, HandledStart
<1>5. q.state[p] \in ActiveStates \cup {"Peering"}
  BY <1>1, <1>2 DEF GroupOK, WorkOK
<1>6. q.epoch[p] \in Nat
  BY <1>2, <1>3, RecoveryReservationAssumption DEF PGRecord, Interval
<1> QED
  BY <1>1, <1>2, <1>3, <1>4, <1>5, <1>6

(* The group after the reaction.                                            *)
PeersOrderly(q, re, g, l, x) ==
    \A o \in l.replicas :
        /\ PeerOK(x, l, o)
        /\ \A c \in Context : Holds(re[o], c) /\ c.pg = g /\ Callback(q, l, o, c) =>
                              Callback(x, l, o, c)

Orderly(q, re, g, l, x, s, i, T, M) ==
    LET p == l.primary IN
    /\ PeersOrderly(q, re, g, l, x)
    /\ \A o \in OSD \ l.replicas : M[o] = <<>>
    /\ OwnOK(q.own[p], q.epoch[p], s, x.working, q.todo)
    /\ TimersOK(T, q.epoch[p], s)
    /\ WorkOK(s, i, x.working, q.todo, l)

NextTimers(T0, T, e, s) ==
    \/ T = T0
    \/ \E d : T = T0 \cup {[ev |-> "DoRecovery", epoch |-> e, delay |-> d]}
    \/ /\ s = "NotBackfilling"
       /\ \E d : T = T0 \cup {[ev |-> "RequestBackfill", epoch |-> e, delay |-> d]}

LEMMA OrderlyWith ==
  ASSUME NEW q, NEW re, NEW g, NEW l, NEW x, NEW s \in Timed, NEW i, NEW T, NEW M, NEW p,
         p = l.primary, GroupOK(q, l), q.epoch[p] \in Nat,
         NoOwn(q, p), NoRetry(q.timers, q.epoch[p]), NextTimers(q.timers, T, q.epoch[p], s),
         PeersOrderly(q, re, g, l, x),
         \A o \in OSD \ l.replicas : M[o] = q.toReplica[o],
         WorkOK(s, i, x.working, q.todo, l)
  PROVE  Orderly(q, re, g, l, x, s, i, T, M)
<1>1. s \in ActiveStates
  BY DEF Timed
<1>2. /\ OwnOK(q.own[p], q.epoch[p], q.state[p], q.working, q.todo)
      /\ TimersOK(q.timers, q.epoch[p], q.state[p])
      /\ OthersOK(q, l)
  BY DEF GroupOK
<1>3. OwnOK(q.own[p], q.epoch[p], s, x.working, q.todo)
  BY <1>1, <1>2, OwnTurn DEF NoOwn
<1>4. TimersOK(T, q.epoch[p], s)
  <2>1. PICK e, T0 : e = q.epoch[p] /\ T0 = q.timers
    OBVIOUS
  <2>2. /\ TimersOK(T0, e, s)
        /\ \A d : TimersOK(T0 \cup {[ev |-> "DoRecovery", epoch |-> e, delay |-> d]}, e, s)
        /\ \A d : s = "NotBackfilling" =>
                   TimersOK(T0 \cup {[ev |-> "RequestBackfill", epoch |-> e, delay |-> d]}, e, s)
    BY <1>2, <2>1, TimersTurn
  <2> QED
    BY <2>1, <2>2 DEF NextTimers
<1>5. \A o \in OSD \ l.replicas : M[o] = <<>>
  BY <1>2 DEF OthersOK
<1> QED
  BY <1>3, <1>4, <1>5 DEF Orderly

LEMMA OrderlyIs ==
  ASSUME NEW q, NEW re, NEW g, NEW l, NEW x, NEW s \in Timed, NEW i, NEW T, NEW M, NEW p,
         p = l.primary, GroupOK(q, l), q.epoch[p] \in Nat,
         NoOwn(q, p), NoRetry(q.timers, q.epoch[p]), NextTimers(q.timers, T, q.epoch[p], s),
         \A o \in l.replicas : PeersKept(q, x, l, o),
         \A o \in OSD \ l.replicas : M[o] = q.toReplica[o],
         WorkOK(s, i, x.working, q.todo, l)
  PROVE  Orderly(q, re, g, l, x, s, i, T, M)
<1>1. PeersOrderly(q, re, g, l, x)
  BY DEF PeersOrderly, PeersKept
<1> QED
  BY <1>1, OrderlyWith

(* The four things a reaction does to the local reserver.                   *)
LEMMA ReactWith ==
  ASSUME NEW ps, NEW lo, NEW re, NEW g, NEW l, NEW p, NEW q, NEW w,
         Stage(ps, lo, re, g, l, p, q, w),
         NEW w2, NEW s \in ActiveStates, NEW i, NEW T, NEW M, NEW l2,
         Handled(w2, q, p, s, i, T, M, l2, re[p]), Orderly(q, re, g, l, w2.p, s, i, T, M),
         NEW ps2, Moved(ps, g, w2.p, ps2),
         Fits(l2, LocalSet(lay, ps2, p), LocalHolding(lay, ps2, p))
  PROVE  Reacts(ps, lo, re, g, p, w2)
<1>1. AllOK(ps, lo, re) /\ g \in PG /\ l = lay[g] /\ p = l.primary /\ q = ps[g]
  BY DEF Stage
<1>2. /\ \A o \in l.replicas :
            /\ PeerOK(w2.p, l, o)
            /\ \A c \in Context : Holds(re[o], c) /\ c.pg = g /\ Callback(q, l, o, c) =>
                                  Callback(w2.p, l, o, c)
      /\ \A o \in OSD \ l.replicas : M[o] = <<>>
      /\ OwnOK(q.own[p], q.epoch[p], s, w2.p.working, q.todo)
      /\ TimersOK(T, q.epoch[p], s)
      /\ WorkOK(s, i, w2.p.working, q.todo, l)
  BY <1>1 DEF Orderly, PeersOrderly
<1> QED
  BY <1>1, <1>2, ReactionAll

LEMMA HandledIs ==
  ASSUME NEW w, NEW q \in PGRecord, NEW o \in OSD, NEW s, NEW i, NEW T, NEW M, NEW l, NEW r,
         Handled(w, q, o, s, i, T, M, l, r)
  PROVE  /\ w.l = l /\ w.r = r /\ ~w.bad /\ w.p \in PGRecord /\ Turned(w.p, q, o, s, i, T, M)
         /\ w.p.state[o] = s /\ w.p.epoch = q.epoch /\ w.p.it = i /\ w.p.timers = T
         /\ w.p.todo = q.todo
<1>1. w.l = l /\ w.r = r /\ ~w.bad /\ w.p \in PGRecord /\ Turned(w.p, q, o, s, i, T, M)
  BY DEF Handled
<1> QED
  BY <1>1 DEF Turned, PGRecord

LEMMA ReactKeep ==
  ASSUME NEW ps, NEW lo, NEW re, NEW g, NEW l, NEW p, NEW q, NEW w,
         Stage(ps, lo, re, g, l, p, q, w), NoGrant(q, p, g, lo[p]),
         NEW w2, NEW s \in ActiveStates, NEW i, NEW T, NEW M,
         Handled(w2, q, p, s, i, T, M, lo[p], re[p]), Orderly(q, re, g, l, w2.p, s, i, T, M),
         s \in LocalHolders \/ q.state[p] \notin LocalHolders
  PROVE  Reacts(ps, lo, re, g, p, w2)
<1>1. /\ AllOK(ps, lo, re) /\ ps \in [PG -> PGRecord] /\ q = ps[g] /\ q \in PGRecord
      /\ g \in PG /\ l = lay[g] /\ p = l.primary /\ p \in OSD
  BY StageIs
<1>2. PICK ps2 : Moved(ps, g, w2.p, ps2)
  BY DEF Moved
<1>3. PICK H : H = LocalHolding(lay, ps, p)
  OBVIOUS
<1>4. Fits(lo[p], Settled(ps, g, p), H)
  BY <1>1, <1>3, LocalSettled
<1>5. H \subseteq LocalHolding(lay, ps, p) /\ (s \in LocalHolders \/ g \notin H)
  BY <1>1, <1>3 DEF LocalHolding
<1>6. w2.p.state[p] = s /\ w2.p.epoch = ps[g].epoch
  <2>1. Turned(w2.p, q, p, s, i, T, M)
    BY DEF Handled
  <2> QED
    BY <1>1, <2>1 DEF Turned, PGRecord
<1>7. Fits(lo[p], LocalSet(lay, ps2, p), LocalHolding(lay, ps2, p))
  BY <1>1, <1>2, <1>4, <1>5, <1>6, LocalKeep
<1> QED
  BY <1>2, <1>7, ReactWith

LEMMA ReactCancel ==
  ASSUME NEW ps, NEW lo, NEW re, NEW g, NEW l, NEW p, NEW q, NEW w,
         Stage(ps, lo, re, g, l, p, q, w), NoGrant(q, p, g, lo[p]),
         NEW w2, NEW s \in ActiveStates, NEW i, NEW T, NEW M,
         Handled(w2, q, p, s, i, T, M, Cancelled(lo[p], g), re[p]),
         Orderly(q, re, g, l, w2.p, s, i, T, M)
  PROVE  Reacts(ps, lo, re, g, p, w2)
<1>1. /\ AllOK(ps, lo, re) /\ ps \in [PG -> PGRecord] /\ q = ps[g] /\ q \in PGRecord
      /\ g \in PG /\ l = lay[g] /\ p = l.primary /\ p \in OSD
  BY StageIs
<1>2. PICK ps2 : Moved(ps, g, w2.p, ps2)
  BY DEF Moved
<1>3. PICK H : H = LocalHolding(lay, ps, p)
  OBVIOUS
<1>4. Fits(lo[p], Settled(ps, g, p), H)
  BY <1>1, <1>3, LocalSettled
<1>5. PICK l2, H2 : l2 = Cancelled(lo[p], g) /\ H2 = H \ {g}
  OBVIOUS
<1>6. Fits(l2, Settled(ps, g, p), H2)
  BY <1>1, <1>4, <1>5, LocalCancel
<1>7. H2 \subseteq LocalHolding(lay, ps, p) /\ (s \in LocalHolders \/ g \notin H2)
  BY <1>3, <1>5
<1>8. w2.p.state[p] = s /\ w2.p.epoch = ps[g].epoch
  <2>1. Turned(w2.p, q, p, s, i, T, M)
    BY DEF Handled
  <2> QED
    BY <1>1, <2>1 DEF Turned, PGRecord
<1>9. Fits(l2, LocalSet(lay, ps2, p), LocalHolding(lay, ps2, p))
  BY <1>1, <1>2, <1>6, <1>7, <1>8, LocalKeep
<1> QED
  BY <1>2, <1>5, <1>9, ReactWith

LocalAsks(s, c, d) ==
    \/ s = "WaitLocalRecoveryReserved" /\ c = "LocalRecoveryReserved" /\ d = "DeferRecovery"
    \/ s = "WaitLocalBackfillReserved" /\ c = "LocalBackfillReserved" /\ d = "DeferBackfill"

LEMMA ReactAsk ==
  ASSUME NEW ps, NEW lo, NEW re, NEW g, NEW l, NEW p, NEW q, NEW w,
         Stage(ps, lo, re, g, l, p, q, w), NoGrant(q, p, g, lo[p]),
         NEW s, NEW c, NEW d, LocalAsks(s, c, d), NEW prio \in Prio,
         NEW l1, \/ l1 = lo[p] /\ q.state[p] \notin LocalHolders
                 \/ l1 = Cancelled(lo[p], g)
  PROVE  /\ ~HasReservation(l1, g)
         /\ \A w2, i, T, M :
               /\ Handled(w2, q, p, s, i, T, M,
                          Asked(l1, g, prio, Ctx(g, c, q.epoch[p]), Ctx(g, d, q.epoch[p])), re[p])
               /\ Orderly(q, re, g, l, w2.p, s, i, T, M)
               => Reacts(ps, lo, re, g, p, w2)
<1>1. /\ AllOK(ps, lo, re) /\ ps \in [PG -> PGRecord] /\ q = ps[g] /\ q \in PGRecord
      /\ g \in PG /\ l = lay[g] /\ p = l.primary /\ p \in OSD
  BY StageIs
<1>3. PICK H : H = LocalHolding(lay, ps, p)
  OBVIOUS
<1>4. Fits(lo[p], Settled(ps, g, p), H)
  BY <1>1, <1>3, LocalSettled
<1>5. PICK H2 : /\ Fits(l1, Settled(ps, g, p), H2)
                /\ H2 \subseteq LocalHolding(lay, ps, p) /\ g \notin H2
  <2>1. CASE l1 = lo[p] /\ q.state[p] \notin LocalHolders
    <3>1. g \notin H
      BY <1>1, <1>3, <2>1 DEF LocalHolding
    <3> QED
      BY <1>3, <1>4, <2>1, <3>1
  <2>2. CASE l1 = Cancelled(lo[p], g)
    <3>1. Fits(l1, Settled(ps, g, p), H \ {g})
      BY <1>1, <1>4, <2>2, LocalCancel
    <3> QED
      BY <1>3, <3>1
  <2> QED
    BY <2>1, <2>2
<1>6. ~HasReservation(l1, g)
  BY <1>1, <1>5 DEF Fits, PG
<1>7. ASSUME NEW w2, NEW i, NEW T, NEW M,
             Handled(w2, q, p, s, i, T, M,
                     Asked(l1, g, prio, Ctx(g, c, q.epoch[p]), Ctx(g, d, q.epoch[p])), re[p]),
             Orderly(q, re, g, l, w2.p, s, i, T, M)
      PROVE  Reacts(ps, lo, re, g, p, w2)
  <2>1. PICK ps2, x : Moved(ps, g, w2.p, ps2) /\ x = w2.p
    BY DEF Moved
  <2>2. x.state[p] = s /\ x.epoch = ps[g].epoch
    <3>1. Turned(x, q, p, s, i, T, M)
      BY <1>7, <2>1 DEF Handled
    <3> QED
      BY <1>1, <3>1 DEF Turned, PGRecord
  <2>3. PICK l2 : l2 = Asked(l1, g, prio, Ctx(g, c, q.epoch[p]), Ctx(g, d, q.epoch[p]))
    OBVIOUS
  <2>4. s \in ActiveStates
    BY DEF LocalAsks, ActiveStates
  <2>5. \/ s = "WaitLocalRecoveryReserved" /\ c = "LocalRecoveryReserved" /\ d = "DeferRecovery"
        \/ s = "WaitLocalBackfillReserved" /\ c = "LocalBackfillReserved" /\ d = "DeferBackfill"
    BY DEF LocalAsks
  <2>6. Fits(l2, LocalSet(lay, ps2, p), LocalHolding(lay, ps2, p))
    BY <1>1, <1>5, <2>1, <2>2, <2>3, <2>5, LocalAsk
  <2> QED
    BY <1>7, <2>1, <2>3, <2>4, <2>6, ReactWith
<1> QED
  BY <1>6, <1>7

LEMMA HeldIs ==
  ASSUME NEW r, NEW A, NEW H, Fits(r, A, H), NEW c, Holds(r, c)
  PROVE  c \in A
BY DEF Fits, Holds, Queued

LEMMA NoGrantIs ==
  ASSUME NEW ps, NEW lo, NEW re, NEW g, NEW l, NEW p, NEW q, NEW w,
         Stage(ps, lo, re, g, l, p, q, w),
         q.state[p] # "WaitLocalRecoveryReserved", q.state[p] # "WaitLocalBackfillReserved"
  PROVE  NoGrant(q, p, g, lo[p])
<1>1. q = ps[g] /\ l = lay[g] /\ Fits(lo[p], LocalSet(lay, ps, p), LocalHolding(lay, ps, p))
  BY StageIs
<1> SUFFICES ASSUME NEW c \in Context, Holds(lo[p], c), c.pg = g, c.epoch = q.epoch[p]
             PROVE  c.ev \notin GrantEvents
  BY DEF NoGrant
<1>2. c \in LocalSet(lay, ps, p)
  BY <1>1, HeldIs
<1>3. LocalOK(q, l, p, c)
  BY <1>1, <1>2 DEF LocalSet
<1> QED
  BY <1>3 DEF LocalOK, GrantEvents

(* Nothing happens.                                                         *)
LEMMA ReactSame ==
  ASSUME NEW ps, NEW lo, NEW re, AllOK(ps, lo, re), NEW g \in PG, NEW o \in OSD, NEW w,
         w.p = ps[g], w.l = lo[o], w.r = re[o], ~w.bad
  PROVE  Reacts(ps, lo, re, g, o, w)
<1>1. ps \in [PG -> PGRecord] /\ lo \in [OSD -> Reserver] /\ re \in [OSD -> Reserver]
  BY DEF AllOK, GroupsOK
<1>2. [ps EXCEPT ![g] = w.p] = ps /\ [lo EXCEPT ![o] = w.l] = lo /\ [re EXCEPT ![o] = w.r] = re
  BY <1>1
<1> QED
  BY <1>2 DEF Reacts

(* All the peers at once.                                                   *)
LEMMA PeersFree ==
  ASSUME NEW l, IsLayout(l), NEW q \in PGRecord, GroupOK(q, l), NEW x, NEW s \in FreeStates,
         NEW i, NEW T, Turned(x, q, l.primary, s, i, T, q.toReplica),
         \A o \in l.replicas : View(q, l, o) = "free"
  PROVE  \A o \in l.replicas : PeersKept(q, x, l, o)
<1>1. s \in States
  BY DEF FreeStates, States
<1>2. x.state[l.primary] = s
  BY DEF Turned, PGRecord, IsLayout
<1>3. \A o \in l.replicas : View(x, l, o) = "free"
  BY <1>2, ViewIs
<1> QED
  BY <1>1, <1>3, PeerSame

LetGo(q, x, l, S, m) ==
    \A o \in l.replicas :
        IF o \in S
        THEN /\ View(q, l, o) \in {"granted", "done", "asksBackfill"}
             /\ View(x, l, o) \in {"free", "drain", "done"}
             /\ View(q, l, o) = "asksBackfill" => View(x, l, o) = "drain"
             /\ m.ev = "RecoveryDone" => View(q, l, o) = "granted"
        ELSE View(q, l, o) = "free" /\ View(x, l, o) \in {"free", "drain"}

LEMMA PeersLetGo ==
  ASSUME NEW l, IsLayout(l), NEW q \in PGRecord, GroupOK(q, l), NEW x, NEW s \in States,
         NEW i, NEW T, NEW M, Turned(x, q, l.primary, s, i, T, M),
         NEW S, NEW m \in Event, m.ev \in Releases, m.epoch = q.epoch[l.primary],
         M = Told(q.toReplica, S, m), LetGo(q, x, l, S, m)
  PROVE  \A o \in l.replicas : PeersKept(q, x, l, o)
<1> SUFFICES ASSUME NEW o \in l.replicas PROVE PeersKept(q, x, l, o)
  OBVIOUS
<1>1. o \in OSD
  BY DEF IsLayout
<1>2. M[o] = IF o \in S THEN Append(q.toReplica[o], m) ELSE q.toReplica[o]
  BY <1>1 DEF Told
<1>3. CASE o \in S
  BY <1>2, <1>3, PeerReleased DEF LetGo
<1>4. CASE o \notin S
  BY <1>2, <1>4, PeerSame DEF LetGo
<1> QED
  BY <1>3, <1>4

(* DoRecovery.                                                              *)
LEMMA ReactDoRecovery ==
  ASSUME NEW ps, NEW lo, NEW re, NEW g, NEW l, NEW p, NEW q, NEW w,
         Stage(ps, lo, re, g, l, p, q, w),
         q.state[p] \in {"Activating", "NotRecovering", "Clean"}, NoOwn(q, p),
         NEW full \in BOOLEAN
  PROVE  Reacts(ps, lo, re, g, p, WaitLocalRecoveryReserved(w, g, p, full))
<1> DEFINE e == q.epoch[p]
<1>1. /\ q = ps[g] /\ q \in PGRecord /\ p \in OSD /\ l = lay[g] /\ p = l.primary /\ IsLayout(l)
      /\ GroupOK(q, l) /\ e \in Nat
      /\ Handled(w, q, p, q.state[p], q.it, q.timers, q.toReplica, lo[p], re[p])
  BY StageIs
<1>2. NoGrant(q, p, g, lo[p])
  BY NoGrantIs
<1>3. NoRetry(q.timers, e)
  BY <1>1, NoRetryIs
<1>4. \A o \in l.replicas : View(q, l, o) = "free"
  BY <1>1, ViewIs DEF FreeStates
<1>5. q.state[p] \notin LocalHolders
  BY DEF LocalHolders
<1>6. \A s \in {"NotRecovering", "WaitLocalRecoveryReserved"} :
         /\ s \in FreeStates /\ s \in Timed /\ s \in ActiveStates /\ s \in States
         /\ \A i, b : WorkOK(s, i, b, q.todo, l)
  BY DEF FreeStates, Timed, ActiveStates, States, WorkOK, BackfillStates
<1> HIDE DEF e
<1>7. CASE full
  <2> DEFINE w1 == To(w, p, "NotRecovering")
             w2 == schedule_event_after(w1, p, "DoRecovery", "retry")
             T == q.timers \cup {[ev |-> "DoRecovery", epoch |-> q.epoch[p], delay |-> "retry"]}
  <2>1. Handled(w1, q, p, "NotRecovering", q.it, q.timers, q.toReplica, lo[p], re[p])
    BY <1>1, <1>6, HandledTo
  <2>2. Handled(w2, q, p, "NotRecovering", q.it, T, q.toReplica, lo[p], re[p])
    <3> HIDE DEF w1
    <3> QED
      BY <1>1, <2>1, HandledSchedule
  <2>3. WaitLocalRecoveryReserved(w, g, p, full) = w2
    BY <1>7 DEF WaitLocalRecoveryReserved
  <2>4. NextTimers(q.timers, T, e, "NotRecovering")
    BY DEF NextTimers, e
  <2> HIDE DEF w2, T
  <2>5. Turned(w2.p, q, p, "NotRecovering", q.it, T, q.toReplica)
    BY <2>2 DEF Handled
  <2>6. \A o \in l.replicas : PeersKept(q, w2.p, l, o)
    BY <1>1, <1>4, <1>6, <2>5, PeersFree
  <2>7. Orderly(q, re, g, l, w2.p, "NotRecovering", q.it, T, q.toReplica)
    BY <1>1, <1>3, <1>6, <2>4, <2>6, OrderlyIs DEF e
  <2> QED
    BY <1>2, <1>5, <1>6, <2>2, <2>3, <2>7, ReactKeep
<1>8. CASE ~full
  <2> DEFINE s == "WaitLocalRecoveryReserved"
             c == "LocalRecoveryReserved"
             d == "DeferRecovery"
             w1 == To(w, p, s)
             w2 == request_local(w1, g, p, l.recovery, c, d)
             l2 == Asked(lo[p], g, l.recovery, Ctx(g, c, q.epoch[p]), Ctx(g, d, q.epoch[p]))
  <2>1. Handled(w1, q, p, s, q.it, q.timers, q.toReplica, lo[p], re[p])
    BY <1>1, <1>6, HandledTo
  <2>2. LocalAsks(s, c, d) /\ l.recovery \in Prio
    BY <1>1 DEF LocalAsks, IsLayout
  <2>3. WaitLocalRecoveryReserved(w, g, p, full) = w2
    BY <1>1, <1>8 DEF WaitLocalRecoveryReserved
  <2> HIDE DEF w1, s, c, d
  <2>4. /\ ~HasReservation(lo[p], g)
        /\ \A w3, i, T, M : /\ Handled(w3, q, p, s, i, T, M, l2, re[p])
                            /\ Orderly(q, re, g, l, w3.p, s, i, T, M)
                            => Reacts(ps, lo, re, g, p, w3)
    BY <1>2, <1>5, <2>2, ReactAsk
  <2>5. Handled(w2, q, p, s, q.it, q.timers, q.toReplica, l2, re[p])
    BY <1>1, <2>1, <2>4, HandledRequest
  <2> HIDE DEF w2, l2
  <2>6. Turned(w2.p, q, p, s, q.it, q.timers, q.toReplica)
    BY <2>5 DEF Handled
  <2>7. s \in FreeStates /\ s \in Timed /\ WorkOK(s, q.it, w2.p.working, q.todo, l)
    BY <1>6 DEF s
  <2>8. \A o \in l.replicas : PeersKept(q, w2.p, l, o)
    BY <1>1, <1>4, <2>6, <2>7, PeersFree
  <2>9. NextTimers(q.timers, q.timers, e, s)
    BY DEF NextTimers
  <2>10. Orderly(q, re, g, l, w2.p, s, q.it, q.timers, q.toReplica)
    BY <1>1, <1>3, <2>7, <2>8, <2>9, OrderlyIs DEF e
  <2> QED
    BY <2>3, <2>4, <2>5, <2>10
<1> QED
  BY <1>7, <1>8

Msg(ev, e) == [ev |-> ev, epoch |-> e]

RecoveryLeft(q, l, p, M) ==
    /\ \A o \in OSD \ l.replicas : M[o] = q.toReplica[o]
    /\ \A x, i, T : \A s \in FreeStates : Turned(x, q, p, s, i, T, M) =>
          \A o \in l.replicas : PeersKept(q, x, l, o)

BackfillLeft(q, l, p, M) ==
    /\ \A o \in OSD \ l.replicas : M[o] = q.toReplica[o]
    /\ \A x, i, T : \A s \in FreeStates \cup {"NotBackfilling", "Backfilling"} :
          Turned(x, q, p, s, i, T, M) /\ (s = "Backfilling" => "backfill" \notin q.todo) =>
          \A o \in l.replicas : PeersKept(q, x, l, o)

(* The primary leaves Recovering.                                           *)
LEMMA RecoveryReleased ==
  ASSUME NEW ps, NEW lo, NEW re, NEW g, NEW l, NEW p, NEW q, NEW w,
         Stage(ps, lo, re, g, l, p, q, w), q.state[p] = "Recovering",
         NEW M, M = Told(q.toReplica, l.replicas, Msg("RecoveryDone", q.epoch[p]))
  PROVE  /\ Handled(cancel_local(release_reservations(w, g, p), g), q, p, "Recovering", q.it,
                    q.timers, M, Cancelled(lo[p], g), re[p])
         /\ Handled(release_reservations(cancel_local(w, g), g, p), q, p, "Recovering", q.it,
                    q.timers, M, Cancelled(lo[p], g), re[p])
         /\ RecoveryLeft(q, l, p, M)
<1>1. /\ q = ps[g] /\ q \in PGRecord /\ p \in OSD /\ l = lay[g] /\ p = l.primary /\ IsLayout(l)
      /\ GroupOK(q, l)
      /\ Handled(w, q, p, q.state[p], q.it, q.timers, q.toReplica, lo[p], re[p])
  BY StageIs
<1> DEFINE m == [ev |-> "RecoveryDone", epoch |-> q.epoch[p]]
           d == "RecoveryDone"
           s0 == "Recovering"
           S == l.replicas
<1>2. d \in Events
  BY DEF Events
<1>3. m \in Event /\ m.ev \in Releases /\ m.epoch = q.epoch[p] /\ m.ev = "RecoveryDone"
  BY <1>1 DEF PGRecord, Event, Events, Releases
<1>4. Handled(w, q, p, s0, q.it, q.timers, q.toReplica, lo[p], re[p])
  BY <1>1
<1>5. Handled(cancel_local(release_reservations(w, g, p), g), q, p, s0, q.it,
              q.timers, M, Cancelled(lo[p], g), re[p])
  <2> HIDE DEF s0, d
  <2>1. Handled(Tell(w, S, d, p), q, p, s0, q.it, q.timers,
                Told(q.toReplica, S, [ev |-> d, epoch |-> q.epoch[p]]), lo[p], re[p])
    BY <1>1, <1>2, <1>4, HandledTell
  <2>2. Handled(release_reservations(w, g, p), q, p, s0, q.it, q.timers, M, lo[p], re[p])
    BY <1>1, <2>1 DEF release_reservations, d, Msg
  <2> QED
    BY <1>1, <2>2, HandledCancel
<1>6. Handled(release_reservations(cancel_local(w, g), g, p), q, p, s0, q.it,
              q.timers, M, Cancelled(lo[p], g), re[p])
  <2> HIDE DEF s0, d
  <2>1. PICK w1 : w1 = cancel_local(w, g)
    OBVIOUS
  <2>2. Handled(w1, q, p, s0, q.it, q.timers, q.toReplica, Cancelled(lo[p], g), re[p])
    BY <1>1, <1>4, <2>1, HandledCancel
  <2>3. Handled(Tell(w1, S, d, p), q, p, s0, q.it, q.timers,
                Told(q.toReplica, S, [ev |-> d, epoch |-> q.epoch[p]]), Cancelled(lo[p], g), re[p])
    BY <1>1, <1>2, <2>2, HandledTell
  <2> QED
    BY <1>1, <2>1, <2>3 DEF release_reservations, d, Msg
<1>7. \A o \in OSD \ l.replicas : M[o] = q.toReplica[o]
  BY DEF Told
<1>8. \A o \in l.replicas : View(q, l, o) = "granted"
  BY <1>1, ViewIs
<1>9. ASSUME NEW x, NEW i, NEW T, NEW s \in FreeStates, Turned(x, q, p, s, i, T, M)
      PROVE  \A o \in l.replicas : PeersKept(q, x, l, o)
  <2>1. s \in States
    BY DEF FreeStates, States
  <2>2. x.state[l.primary] = s
    BY <1>1, <1>9 DEF Turned, PGRecord, IsLayout
  <2>3. \A o \in l.replicas : View(x, l, o) = "free"
    BY <2>2, ViewIs
  <2> HIDE DEF m
  <2>4. M = Told(q.toReplica, S, m)
    BY DEF m, Msg
  <2> QED
    <3>1. LetGo(q, x, l, S, m)
      BY <1>3, <1>8, <2>3 DEF LetGo
    <3> HIDE DEF S
    <3> QED
      BY <1>1, <1>3, <1>9, <2>1, <2>4, <3>1, PeersLetGo
<1> QED
  BY <1>5, <1>6, <1>7, <1>9 DEF RecoveryLeft

(* The primary leaves Backfilling, or lets go of the targets.               *)
LEMMA BackfillReleased ==
  ASSUME NEW ps, NEW lo, NEW re, NEW g, NEW l, NEW p, NEW q, NEW w,
         Stage(ps, lo, re, g, l, p, q, w), q.state[p] = "Backfilling",
         NEW M, M = Told(q.toReplica, l.targets, Msg("RemoteReservationCanceled", q.epoch[p]))
  PROVE  /\ Handled(backfill_release_reservations(w, g, p), q, p, "Backfilling", q.it,
                    q.timers, M, Cancelled(lo[p], g), re[p])
         /\ Handled(cancel_backfill(w, g, p), q, p, "Backfilling", q.it,
                    q.timers, M, Cancelled(lo[p], g), re[p])
         /\ BackfillLeft(q, l, p, M)
<1>1. /\ q = ps[g] /\ q \in PGRecord /\ p \in OSD /\ l = lay[g] /\ p = l.primary /\ IsLayout(l)
      /\ GroupOK(q, l) /\ l.targets \subseteq l.replicas
      /\ Handled(w, q, p, q.state[p], q.it, q.timers, q.toReplica, lo[p], re[p])
  BY StageIs
<1> DEFINE m == [ev |-> "RemoteReservationCanceled", epoch |-> q.epoch[p]]
           d == "RemoteReservationCanceled"
           s0 == "Backfilling"
           S == l.targets
<1>2. d \in Events
  BY DEF Events
<1>3. m \in Event /\ m.ev \in Releases /\ m.epoch = q.epoch[p] /\ m.ev # "RecoveryDone"
  BY <1>1 DEF PGRecord, Event, Events, Releases
<1>4. Handled(w, q, p, s0, q.it, q.timers, q.toReplica, lo[p], re[p])
  BY <1>1
<1>5. Handled(backfill_release_reservations(w, g, p), q, p, s0, q.it,
              q.timers, M, Cancelled(lo[p], g), re[p])
  <2> HIDE DEF s0, d
  <2>1. PICK w1 : w1 = cancel_local(w, g)
    OBVIOUS
  <2>2. Handled(w1, q, p, s0, q.it, q.timers, q.toReplica, Cancelled(lo[p], g), re[p])
    BY <1>1, <1>4, <2>1, HandledCancel
  <2>3. Handled(Tell(w1, S, d, p), q, p, s0, q.it, q.timers,
                Told(q.toReplica, S, [ev |-> d, epoch |-> q.epoch[p]]), Cancelled(lo[p], g), re[p])
    BY <1>1, <1>2, <2>2, HandledTell
  <2> QED
    BY <1>1, <2>1, <2>3 DEF backfill_release_reservations, d, Msg
<1>6. Handled(cancel_backfill(w, g, p), q, p, s0, q.it,
              q.timers, M, Cancelled(lo[p], g), re[p])
  <2> HIDE DEF s0
  <2> QED
    BY <1>1, <1>5, HandledScans DEF cancel_backfill
<1>7. \A o \in OSD \ l.replicas : M[o] = q.toReplica[o]
  BY <1>1 DEF Told
<1>8. \A o \in l.replicas : /\ o \in S => View(q, l, o) \in {"granted", "done"}
                            /\ o \notin S => View(q, l, o) = "free"
  BY <1>1, ViewIs
<1>9. ASSUME NEW x, NEW i, NEW T, NEW s \in FreeStates \cup {"NotBackfilling", "Backfilling"},
             Turned(x, q, p, s, i, T, M), s = "Backfilling" => "backfill" \notin q.todo
      PROVE  \A o \in l.replicas : PeersKept(q, x, l, o)
  <2>1. s \in States
    BY DEF FreeStates, States
  <2>2. x.state[l.primary] = s /\ x.todo = q.todo
    BY <1>1, <1>9 DEF Turned, PGRecord, IsLayout
  <2>3. ASSUME NEW o \in l.replicas
        PROVE  /\ o \in S => View(x, l, o) \in {"free", "drain", "done"}
               /\ o \notin S => View(x, l, o) \in {"free", "drain"}
    BY <1>9, <2>2, ViewIs
  <2> HIDE DEF m
  <2>4. M = Told(q.toReplica, S, m)
    BY DEF m, Msg
  <2> HIDE DEF S
  <2>5. LetGo(q, x, l, S, m)
    BY <1>3, <1>8, <2>3 DEF LetGo
  <2> QED
    BY <1>1, <1>3, <1>9, <2>1, <2>4, <2>5, PeersLetGo
<1> QED
  BY <1>5, <1>6, <1>7, <1>9 DEF BackfillLeft

(* The primary asks for a local slot for backfill.                          *)
LEMMA AskBackfill ==
  ASSUME NEW ps, NEW lo, NEW re, NEW g, NEW l, NEW p, NEW q, NEW w,
         Stage(ps, lo, re, g, l, p, q, w), NoGrant(q, p, g, lo[p]), NoOwn(q, p),
         NoRetry(q.timers, q.epoch[p]), "recovery" \notin q.todo,
         NEW w1, NEW s1, NEW i, NEW M, NEW l1,
         Handled(w1, q, p, s1, i, q.timers, M, l1, re[p]),
         \/ l1 = lo[p] /\ q.state[p] \notin LocalHolders
         \/ l1 = Cancelled(lo[p], g),
         \A o \in OSD \ l.replicas : M[o] = q.toReplica[o],
         \A x : Turned(x, q, p, "WaitLocalBackfillReserved", i, q.timers, M) =>
                PeersOrderly(q, re, g, l, x)
  PROVE  Reacts(ps, lo, re, g, p, WaitLocalBackfillReserved(w1, g, p))
<1>1. /\ q = ps[g] /\ q \in PGRecord /\ p \in OSD /\ l = lay[g] /\ p = l.primary /\ IsLayout(l)
      /\ GroupOK(q, l) /\ q.epoch[p] \in Nat
  BY StageIs
<1> DEFINE s == "WaitLocalBackfillReserved"
           c == "LocalBackfillReserved"
           d == "DeferBackfill"
           w2 == To(w1, p, s)
           w3 == request_local(w2, g, p, l.backfill, c, d)
           l2 == Asked(l1, g, l.backfill, Ctx(g, c, q.epoch[p]), Ctx(g, d, q.epoch[p]))
<1>2. s \in Timed /\ s \in States
  BY DEF Timed, ActiveStates, States
<1>3. LocalAsks(s, c, d) /\ l.backfill \in Prio
  BY <1>1 DEF LocalAsks, IsLayout
<1>4. \A b : WorkOK(s, i, b, q.todo, l)
  BY DEF WorkOK, ActiveStates
<1>5. WaitLocalBackfillReserved(w1, g, p) = w3
  BY <1>1 DEF WaitLocalBackfillReserved
<1>6. \A x : Turned(x, q, p, s, i, q.timers, M) => PeersOrderly(q, re, g, l, x)
  OBVIOUS
<1> HIDE DEF s, c, d
<1>7. Handled(w2, q, p, s, i, q.timers, M, l1, re[p])
  BY <1>1, <1>2, HandledTo
<1> HIDE DEF w2
<1>8. /\ ~HasReservation(l1, g)
      /\ \A w4, j, T, N : /\ Handled(w4, q, p, s, j, T, N, l2, re[p])
                          /\ Orderly(q, re, g, l, w4.p, s, j, T, N)
                          => Reacts(ps, lo, re, g, p, w4)
  BY <1>3, ReactAsk
<1>9. Handled(w3, q, p, s, i, q.timers, M, l2, re[p])
  BY <1>1, <1>7, <1>8, HandledRequest
<1> HIDE DEF w3, l2
<1>10. Turned(w3.p, q, p, s, i, q.timers, M)
  BY <1>9 DEF Handled
<1>11. PeersOrderly(q, re, g, l, w3.p)
  BY <1>6, <1>10
<1>12. NextTimers(q.timers, q.timers, q.epoch[p], s)
  BY DEF NextTimers
<1>13. Orderly(q, re, g, l, w3.p, s, i, q.timers, M)
  BY <1>1, <1>2, <1>4, <1>11, <1>12, OrderlyWith
<1> QED
  BY <1>5, <1>8, <1>9, <1>13

(* Recovery is complete: the group is clean.                                *)
LEMMA ReactRecovered ==
  ASSUME NEW ps, NEW lo, NEW re, NEW g, NEW l, NEW p, NEW q, NEW w,
         Stage(ps, lo, re, g, l, p, q, w), NoGrant(q, p, g, lo[p]), NoOwn(q, p),
         NoRetry(q.timers, q.epoch[p]), "recovery" \notin q.todo,
         NEW w1, NEW s1, NEW i, NEW M, NEW l1,
         Handled(w1, q, p, s1, i, q.timers, M, l1, re[p]),
         \/ l1 = lo[p] /\ q.state[p] \notin LocalHolders
         \/ l1 = Cancelled(lo[p], g),
         \A o \in OSD \ l.replicas : M[o] = q.toReplica[o],
         \A x : Turned(x, q, p, "Clean", 0, q.timers, M) =>
                \A o \in l.replicas : PeersKept(q, x, l, o)
  PROVE  Reacts(ps, lo, re, g, p, Recovered(w1, p))
<1>1. /\ q = ps[g] /\ q \in PGRecord /\ p \in OSD /\ l = lay[g] /\ p = l.primary /\ IsLayout(l)
      /\ GroupOK(q, l) /\ q.epoch[p] \in Nat
  BY StageIs
<1> DEFINE s == "Clean"
           w2 == Leave(w1, p, s)
           P == ~Needs(w1, "recovery")
           w3 == Asserts(w2, P)
<1>2. s \in Timed /\ s \in States /\ s \in ActiveStates
  BY DEF Timed, ActiveStates, States
<1>3. \A b, j : WorkOK(s, j, b, q.todo, l)
  BY DEF WorkOK, ActiveStates, BackfillStates
<1>4. w1.p.todo = q.todo
  BY DEF Handled, Turned
<1>5. P
  BY <1>4 DEF Needs
<1>6. Recovered(w1, p) = w3
  BY DEF Recovered
<1>7. \A x : Turned(x, q, p, s, 0, q.timers, M) => \A o \in l.replicas : PeersKept(q, x, l, o)
  OBVIOUS
<1> HIDE DEF s, P
<1>8. Handled(w2, q, p, s, 0, q.timers, M, l1, re[p])
  BY <1>1, <1>2, HandledLeave
<1> HIDE DEF w2
<1>9. Handled(w3, q, p, s, 0, q.timers, M, l1, re[p])
  BY <1>1, <1>5, <1>8, HandledAsserts
<1> HIDE DEF w3
<1>10. Turned(w3.p, q, p, s, 0, q.timers, M)
  BY <1>9 DEF Handled
<1>11. \A o \in l.replicas : PeersKept(q, w3.p, l, o)
  BY <1>7, <1>10
<1>12. NextTimers(q.timers, q.timers, q.epoch[p], s)
  BY DEF NextTimers
<1>13. Orderly(q, re, g, l, w3.p, s, 0, q.timers, M)
  BY <1>1, <1>2, <1>3, <1>11, <1>12, OrderlyIs
<1>14. CASE l1 = lo[p] /\ q.state[p] \notin LocalHolders
  BY <1>2, <1>6, <1>9, <1>13, <1>14, ReactKeep
<1>15. CASE l1 = Cancelled(lo[p], g)
  BY <1>2, <1>6, <1>9, <1>13, <1>15, ReactCancel
<1> QED
  BY <1>14, <1>15

LEMMA KeptOrderly ==
  ASSUME NEW q, NEW re, NEW g, NEW l, NEW x, \A o \in l.replicas : PeersKept(q, x, l, o)
  PROVE  PeersOrderly(q, re, g, l, x)
BY DEF PeersOrderly, PeersKept

(* AllReplicasRecovered.                                                    *)
LEMMA ReactAllRecovered ==
  ASSUME NEW ps, NEW lo, NEW re, NEW g, NEW l, NEW p, NEW q, NEW w,
         Stage(ps, lo, re, g, l, p, q, w), NoOwn(q, p), "recovery" \notin q.todo
  PROVE  /\ q.state[p] = "Activating" => Reacts(ps, lo, re, g, p, Recovered(w, p))
         /\ q.state[p] = "Recovering" =>
               Reacts(ps, lo, re, g, p, Recovered(cancel_local(release_reservations(w, g, p), g), p))
<1>1. /\ q = ps[g] /\ q \in PGRecord /\ p \in OSD /\ l = lay[g] /\ p = l.primary /\ IsLayout(l)
      /\ GroupOK(q, l) /\ q.epoch[p] \in Nat
      /\ Handled(w, q, p, q.state[p], q.it, q.timers, q.toReplica, lo[p], re[p])
  BY StageIs
<1>2. ASSUME q.state[p] \in {"Activating", "Recovering"}
      PROVE  NoGrant(q, p, g, lo[p]) /\ NoRetry(q.timers, q.epoch[p])
  BY <1>1, <1>2, NoGrantIs, NoRetryIs
<1>3. "Clean" \in FreeStates
  BY DEF FreeStates
<1>4. ASSUME q.state[p] = "Activating"
      PROVE  Reacts(ps, lo, re, g, p, Recovered(w, p))
  <2>1. q.state[p] \notin LocalHolders /\ q.state[p] \in FreeStates
    BY <1>4 DEF LocalHolders, FreeStates
  <2>2. \A o \in l.replicas : View(q, l, o) = "free"
    BY <1>1, <2>1, ViewIs
  <2>3. \A x : Turned(x, q, p, "Clean", 0, q.timers, q.toReplica) =>
                \A o \in l.replicas : PeersKept(q, x, l, o)
    BY <1>1, <1>3, <2>2, PeersFree
  <2> QED
    BY <1>1, <1>2, <1>4, <2>1, <2>3, ReactRecovered
<1>5. ASSUME q.state[p] = "Recovering"
      PROVE  Reacts(ps, lo, re, g, p, Recovered(cancel_local(release_reservations(w, g, p), g), p))
  <2>1. PICK M : M = Told(q.toReplica, l.replicas, Msg("RecoveryDone", q.epoch[p]))
    OBVIOUS
  <2>2. PICK w1 : w1 = cancel_local(release_reservations(w, g, p), g)
    OBVIOUS
  <2>3. /\ Handled(w1, q, p, "Recovering", q.it, q.timers, M, Cancelled(lo[p], g), re[p])
        /\ RecoveryLeft(q, l, p, M)
    BY <1>5, <2>1, <2>2, RecoveryReleased
  <2>3a. /\ \A o \in OSD \ l.replicas : M[o] = q.toReplica[o]
         /\ \A x, i, T : \A s \in FreeStates : Turned(x, q, p, s, i, T, M) =>
               \A o \in l.replicas : PeersKept(q, x, l, o)
    BY <2>3 DEF RecoveryLeft
  <2>4. \A x : Turned(x, q, p, "Clean", 0, q.timers, M) =>
                \A o \in l.replicas : PeersKept(q, x, l, o)
    BY <1>3, <2>3, <2>3a
  <2>5. PICK l1 : l1 = Cancelled(lo[p], g)
    OBVIOUS
  <2>6. Reacts(ps, lo, re, g, p, Recovered(w1, p))
    BY <1>2, <1>5, <2>3, <2>3a, <2>4, <2>5, ReactRecovered
  <2> QED
    BY <2>2, <2>6
<1> QED
  BY <1>4, <1>5

(* RequestBackfill in Recovering: the recovery is complete.                 *)
LEMMA ReactToBackfill ==
  ASSUME NEW ps, NEW lo, NEW re, NEW g, NEW l, NEW p, NEW q, NEW w,
         Stage(ps, lo, re, g, l, p, q, w), NoOwn(q, p), "recovery" \notin q.todo,
         q.state[p] = "Recovering"
  PROVE  Reacts(ps, lo, re, g, p,
                WaitLocalBackfillReserved(
                    Asserts(Leave(cancel_local(release_reservations(w, g, p), g), p, "Recovering"),
                            ~Needs(w, "recovery")), g, p))
<1>1. /\ q = ps[g] /\ q \in PGRecord /\ p \in OSD /\ l = lay[g] /\ p = l.primary /\ IsLayout(l)
      /\ GroupOK(q, l) /\ q.epoch[p] \in Nat /\ w.p = q
  BY StageIs
<1>2. NoGrant(q, p, g, lo[p]) /\ NoRetry(q.timers, q.epoch[p])
  BY <1>1, NoGrantIs, NoRetryIs
<1>3. PICK M : M = Told(q.toReplica, l.replicas, Msg("RecoveryDone", q.epoch[p]))
  OBVIOUS
<1>4. PICK w1 : w1 = cancel_local(release_reservations(w, g, p), g)
  OBVIOUS
<1>5. PICK l1 : l1 = Cancelled(lo[p], g)
  OBVIOUS
<1>6. /\ Handled(w1, q, p, "Recovering", q.it, q.timers, M, l1, re[p])
      /\ RecoveryLeft(q, l, p, M)
  BY <1>3, <1>4, <1>5, RecoveryReleased
<1>6a. /\ \A o \in OSD \ l.replicas : M[o] = q.toReplica[o]
       /\ \A x, i, T : \A s \in FreeStates : Turned(x, q, p, s, i, T, M) =>
             \A o \in l.replicas : PeersKept(q, x, l, o)
  BY <1>6 DEF RecoveryLeft
<1>7. "WaitLocalBackfillReserved" \in FreeStates /\ "Recovering" \in States
  BY DEF FreeStates, States
<1>8. \A x : Turned(x, q, p, "WaitLocalBackfillReserved", 0, q.timers, M) =>
             PeersOrderly(q, re, g, l, x)
  BY <1>6, <1>6a, <1>7, KeptOrderly
<1> DEFINE P == ~Needs(w, "recovery")
           w2 == Leave(w1, p, "Recovering")
           w3 == Asserts(w2, P)
<1>9. P
  BY <1>1 DEF Needs
<1>10. Handled(w2, q, p, "Recovering", 0, q.timers, M, l1, re[p])
  BY <1>1, <1>6, <1>6a, <1>7, HandledLeave
<1> HIDE DEF P, w2
<1>11. Handled(w3, q, p, "Recovering", 0, q.timers, M, l1, re[p])
  BY <1>1, <1>9, <1>10, HandledAsserts
<1> HIDE DEF w3
<1>12. Reacts(ps, lo, re, g, p, WaitLocalBackfillReserved(w3, g, p))
  BY <1>2, <1>5, <1>6, <1>6a, <1>8, <1>11, AskBackfill
<1> QED
  BY <1>4, <1>12 DEF w3, w2, P

(* DeferRecovery: the primary lost its slot.                                *)
LEMMA ReactDeferRecovery ==
  ASSUME NEW ps, NEW lo, NEW re, NEW g, NEW l, NEW p, NEW q, NEW w,
         Stage(ps, lo, re, g, l, p, q, w), q.state[p] = "Recovering", q.working
  PROVE  Reacts(ps, lo, re, g, p,
                schedule_event_after(
                    Leave(release_reservations(cancel_local(w, g), g, p), p, "NotRecovering"),
                    p, "DoRecovery", "none"))
<1>1. /\ q = ps[g] /\ q \in PGRecord /\ p \in OSD /\ l = lay[g] /\ p = l.primary /\ IsLayout(l)
      /\ GroupOK(q, l) /\ q.epoch[p] \in Nat
  BY StageIs
<1>2. NoGrant(q, p, g, lo[p]) /\ NoRetry(q.timers, q.epoch[p]) /\ NoOwn(q, p)
  BY <1>1, NoGrantIs, NoRetryIs, NoOwnIs
<1>3. PICK M : M = Told(q.toReplica, l.replicas, Msg("RecoveryDone", q.epoch[p]))
  OBVIOUS
<1>4. PICK w1 : w1 = release_reservations(cancel_local(w, g), g, p)
  OBVIOUS
<1>5. PICK l1 : l1 = Cancelled(lo[p], g)
  OBVIOUS
<1>6. /\ Handled(w1, q, p, "Recovering", q.it, q.timers, M, l1, re[p])
      /\ RecoveryLeft(q, l, p, M)
  BY <1>3, <1>4, <1>5, RecoveryReleased
<1>6a. /\ \A o \in OSD \ l.replicas : M[o] = q.toReplica[o]
       /\ \A x, i, T : \A s \in FreeStates : Turned(x, q, p, s, i, T, M) =>
             \A o \in l.replicas : PeersKept(q, x, l, o)
  BY <1>6 DEF RecoveryLeft
<1> DEFINE s == "NotRecovering"
           T == q.timers \cup {[ev |-> "DoRecovery", epoch |-> q.epoch[p], delay |-> "none"]}
           w2 == Leave(w1, p, s)
           w3 == schedule_event_after(w2, p, "DoRecovery", "none")
<1>7. s \in FreeStates /\ s \in States /\ s \in Timed /\ s \in ActiveStates
  BY DEF FreeStates, States, Timed, ActiveStates
<1>8. \A b, i : WorkOK(s, i, b, q.todo, l)
  BY DEF WorkOK, ActiveStates, BackfillStates
<1> HIDE DEF s
<1>9. Handled(w2, q, p, s, 0, q.timers, M, l1, re[p])
  BY <1>1, <1>6, <1>6a, <1>7, HandledLeave
<1> HIDE DEF w2
<1>10. Handled(w3, q, p, s, 0, T, M, l1, re[p])
  BY <1>1, <1>9, HandledSchedule
<1>11. NextTimers(q.timers, T, q.epoch[p], s)
  BY DEF NextTimers
<1> HIDE DEF w3, T
<1>12. Turned(w3.p, q, p, s, 0, T, M)
  BY <1>10 DEF Handled
<1>13. \A o \in l.replicas : PeersKept(q, w3.p, l, o)
  BY <1>6, <1>6a, <1>7, <1>12
<1>14. Orderly(q, re, g, l, w3.p, s, 0, T, M)
  BY <1>1, <1>2, <1>6, <1>6a, <1>7, <1>8, <1>11, <1>13, OrderlyIs
<1>15. Reacts(ps, lo, re, g, p, w3)
  BY <1>2, <1>5, <1>7, <1>10, <1>14, ReactCancel
<1> QED
  BY <1>4, <1>15 DEF w3, w2, s

(* Backfilled, DeferBackfill, RemoteReservationRevokedTooFull and           *)
(* RemoteReservationRevoked in Backfilling.                                 *)
LEMMA BackfillFacts ==
  ASSUME NEW ps, NEW lo, NEW re, NEW g, NEW l, NEW p, NEW q, NEW w,
         Stage(ps, lo, re, g, l, p, q, w), q.state[p] \in BackfillStates,
         q.state[p] \notin {"NotBackfilling", "WaitLocalBackfillReserved"}
  PROVE  /\ NoGrant(q, p, g, lo[p]) /\ NoRetry(q.timers, q.epoch[p]) /\ NoOwn(q, p)
         /\ "recovery" \notin q.todo
<1>1. p = l.primary /\ GroupOK(q, l)
  BY StageIs
<1>2. q.state[p] \in {"WaitRemoteBackfillReserved", "Backfilling"}
  BY DEF BackfillStates
<1>3. NoGrant(q, p, g, lo[p])
  BY <1>2, NoGrantIs
<1>4. NoRetry(q.timers, q.epoch[p]) /\ NoOwn(q, p)
  BY <1>1, <1>2, NoRetryIs, NoOwnIs
<1>5. "recovery" \notin q.todo
  BY <1>1 DEF GroupOK, WorkOK
<1> QED
  BY <1>3, <1>4, <1>5

LEMMA ReactBackfilled ==
  ASSUME NEW ps, NEW lo, NEW re, NEW g, NEW l, NEW p, NEW q, NEW w,
         Stage(ps, lo, re, g, l, p, q, w), q.state[p] = "Backfilling"
  PROVE  Reacts(ps, lo, re, g, p, Recovered(backfill_release_reservations(w, g, p), p))
<1>1. NoGrant(q, p, g, lo[p]) /\ NoRetry(q.timers, q.epoch[p]) /\ NoOwn(q, p) /\ "recovery" \notin q.todo
  BY BackfillFacts DEF BackfillStates
<1>2. PICK M : M = Told(q.toReplica, l.targets, Msg("RemoteReservationCanceled", q.epoch[p]))
  OBVIOUS
<1>3. PICK w1, l1 : w1 = backfill_release_reservations(w, g, p) /\ l1 = Cancelled(lo[p], g)
  OBVIOUS
<1>4. /\ Handled(w1, q, p, "Backfilling", q.it, q.timers, M, l1, re[p])
      /\ BackfillLeft(q, l, p, M)
  BY <1>2, <1>3, BackfillReleased
<1>4a. /\ \A o \in OSD \ l.replicas : M[o] = q.toReplica[o]
       /\ \A x, i, T : \A s \in FreeStates \cup {"NotBackfilling", "Backfilling"} :
             Turned(x, q, p, s, i, T, M) /\ (s = "Backfilling" => "backfill" \notin q.todo) =>
             \A o \in l.replicas : PeersKept(q, x, l, o)
  BY <1>4 DEF BackfillLeft
<1>5. "Clean" \in FreeStates
  BY DEF FreeStates
<1>6. \A x : Turned(x, q, p, "Clean", 0, q.timers, M) =>
             \A o \in l.replicas : PeersKept(q, x, l, o)
  BY <1>4, <1>4a, <1>5
<1>7. Reacts(ps, lo, re, g, p, Recovered(w1, p))
  BY <1>1, <1>3, <1>4, <1>4a, <1>6, ReactRecovered
<1> QED
  BY <1>3, <1>7

LEMMA ReactSuspend ==
  ASSUME NEW ps, NEW lo, NEW re, NEW g, NEW l, NEW p, NEW q, NEW w,
         Stage(ps, lo, re, g, l, p, q, w), q.state[p] = "Backfilling",
         NEW delay \in {"none", "retry"}
  PROVE  Reacts(ps, lo, re, g, p,
                schedule_event_after(Leave(cancel_backfill(w, g, p), p, "NotBackfilling"),
                                     p, "RequestBackfill", delay))
<1>0. /\ q = ps[g] /\ q \in PGRecord /\ p \in OSD /\ l = lay[g] /\ p = l.primary /\ IsLayout(l)
      /\ GroupOK(q, l) /\ q.epoch[p] \in Nat
  BY StageIs
<1>1. NoGrant(q, p, g, lo[p]) /\ NoRetry(q.timers, q.epoch[p]) /\ NoOwn(q, p) /\ "recovery" \notin q.todo
  BY BackfillFacts DEF BackfillStates
<1>2. PICK M : M = Told(q.toReplica, l.targets, Msg("RemoteReservationCanceled", q.epoch[p]))
  OBVIOUS
<1>3. PICK w1, l1 : w1 = cancel_backfill(w, g, p) /\ l1 = Cancelled(lo[p], g)
  OBVIOUS
<1>4. /\ Handled(w1, q, p, "Backfilling", q.it, q.timers, M, l1, re[p])
      /\ BackfillLeft(q, l, p, M)
  BY <1>2, <1>3, BackfillReleased
<1>4a. /\ \A o \in OSD \ l.replicas : M[o] = q.toReplica[o]
       /\ \A x, i, T : \A s \in FreeStates \cup {"NotBackfilling", "Backfilling"} :
             Turned(x, q, p, s, i, T, M) /\ (s = "Backfilling" => "backfill" \notin q.todo) =>
             \A o \in l.replicas : PeersKept(q, x, l, o)
  BY <1>4 DEF BackfillLeft
<1> DEFINE s == "NotBackfilling"
           T == q.timers \cup {[ev |-> "RequestBackfill", epoch |-> q.epoch[p], delay |-> delay]}
           w2 == Leave(w1, p, s)
           w3 == schedule_event_after(w2, p, "RequestBackfill", delay)
<1>5. s \in States /\ s \in Timed /\ s \in ActiveStates
  BY DEF States, Timed, ActiveStates
<1>6. \A b, i : WorkOK(s, i, b, q.todo, l)
  BY <1>1 DEF WorkOK, ActiveStates
<1>7. \A x, i, N : Turned(x, q, p, s, i, N, M) => \A o \in l.replicas : PeersKept(q, x, l, o)
  BY <1>4, <1>4a
<1>8. NextTimers(q.timers, T, q.epoch[p], s)
  BY DEF NextTimers
<1> HIDE DEF s
<1>9. Handled(w2, q, p, s, 0, q.timers, M, l1, re[p])
  BY <1>0, <1>4, <1>4a, <1>5, HandledLeave
<1> HIDE DEF w2
<1>10. Handled(w3, q, p, s, 0, T, M, l1, re[p])
  BY <1>0, <1>9, HandledSchedule
<1> HIDE DEF w3, T
<1>11. Turned(w3.p, q, p, s, 0, T, M)
  BY <1>10 DEF Handled
<1>12. \A o \in l.replicas : PeersKept(q, w3.p, l, o)
  BY <1>7, <1>11
<1>13. Orderly(q, re, g, l, w3.p, s, 0, T, M)
  BY <1>0, <1>1, <1>4, <1>4a, <1>5, <1>6, <1>8, <1>12, OrderlyIs
<1>14. Reacts(ps, lo, re, g, p, w3)
  BY <1>1, <1>3, <1>5, <1>10, <1>13, ReactCancel
<1> QED
  BY <1>3, <1>14 DEF w3, w2, s

LEMMA ReactRevoked ==
  ASSUME NEW ps, NEW lo, NEW re, NEW g, NEW l, NEW p, NEW q, NEW w,
         Stage(ps, lo, re, g, l, p, q, w), q.state[p] = "Backfilling"
  PROVE  /\ Reacts(ps, lo, re, g, p,
                   WaitLocalBackfillReserved(Leave(cancel_backfill(w, g, p), p, "Backfilling"), g, p))
         /\ "backfill" \notin q.todo => Reacts(ps, lo, re, g, p, cancel_backfill(w, g, p))
<1>0. /\ q = ps[g] /\ q \in PGRecord /\ p \in OSD /\ l = lay[g] /\ p = l.primary /\ IsLayout(l)
      /\ GroupOK(q, l) /\ q.epoch[p] \in Nat
  BY StageIs
<1>1. NoGrant(q, p, g, lo[p]) /\ NoRetry(q.timers, q.epoch[p]) /\ NoOwn(q, p) /\ "recovery" \notin q.todo
  BY BackfillFacts DEF BackfillStates
<1>2. PICK M : M = Told(q.toReplica, l.targets, Msg("RemoteReservationCanceled", q.epoch[p]))
  OBVIOUS
<1>3. PICK w1, l1 : w1 = cancel_backfill(w, g, p) /\ l1 = Cancelled(lo[p], g)
  OBVIOUS
<1>4. /\ Handled(w1, q, p, "Backfilling", q.it, q.timers, M, l1, re[p])
      /\ BackfillLeft(q, l, p, M)
  BY <1>2, <1>3, BackfillReleased
<1>4a. /\ \A o \in OSD \ l.replicas : M[o] = q.toReplica[o]
       /\ \A x, i, T : \A s \in FreeStates \cup {"NotBackfilling", "Backfilling"} :
             Turned(x, q, p, s, i, T, M) /\ (s = "Backfilling" => "backfill" \notin q.todo) =>
             \A o \in l.replicas : PeersKept(q, x, l, o)
  BY <1>4 DEF BackfillLeft
<1>5. Reacts(ps, lo, re, g, p, WaitLocalBackfillReserved(Leave(w1, p, "Backfilling"), g, p))
  <2> DEFINE w2 == Leave(w1, p, "Backfilling")
  <2>1. "WaitLocalBackfillReserved" \in FreeStates /\ "Backfilling" \in States
    BY DEF FreeStates, States
  <2>2. \A x : Turned(x, q, p, "WaitLocalBackfillReserved", 0, q.timers, M) =>
               PeersOrderly(q, re, g, l, x)
    BY <1>4, <1>4a, <2>1, KeptOrderly
  <2>3. Handled(w2, q, p, "Backfilling", 0, q.timers, M, l1, re[p])
    BY <1>0, <1>4, <1>4a, <2>1, HandledLeave
  <2> HIDE DEF w2
  <2>4. Reacts(ps, lo, re, g, p, WaitLocalBackfillReserved(w2, g, p))
    BY <1>1, <1>3, <1>4, <1>4a, <2>2, <2>3, AskBackfill
  <2> QED
    BY <2>4 DEF w2
<1>6. ASSUME "backfill" \notin q.todo
      PROVE  Reacts(ps, lo, re, g, p, w1)
  <2>1. Turned(w1.p, q, p, "Backfilling", q.it, q.timers, M)
    BY <1>4, <1>4a DEF Handled
  <2>2. \A o \in l.replicas : PeersKept(q, w1.p, l, o)
    BY <1>4, <1>4a, <1>6, <2>1
  <2>3. "Backfilling" \in Timed /\ "Backfilling" \in ActiveStates
    BY DEF Timed, ActiveStates
  <2>4. WorkOK("Backfilling", q.it, w1.p.working, q.todo, l)
    BY <1>1 DEF WorkOK, ActiveStates
  <2>5. NextTimers(q.timers, q.timers, q.epoch[p], "Backfilling")
    BY DEF NextTimers
  <2>6. Orderly(q, re, g, l, w1.p, "Backfilling", q.it, q.timers, M)
    BY <1>0, <1>1, <1>4, <1>4a, <2>2, <2>3, <2>4, <2>5, OrderlyIs
  <2> QED
    BY <1>1, <1>3, <1>4, <1>4a, <2>3, <2>6, ReactCancel
<1> QED
  BY <1>3, <1>5, <1>6

----------------------------------------------------------------------------
(* One peer after the other is asked.                                       *)
Kinds == {"recovery", "backfill"}

WaitState(kind) ==
    IF kind = "recovery" THEN "WaitRemoteRecoveryReserved" ELSE "WaitRemoteBackfillReserved"

WorkState(kind) == IF kind = "recovery" THEN "Recovering" ELSE "Backfilling"

RequestOf(kind) == IF kind = "recovery" THEN "RequestRecoveryPrio" ELSE "RequestBackfillPrio"

(* The peer o has granted a slot, or its grant has just arrived.            *)
Counts(q, l, o) ==
    \/ View(q, l, o) = "granted"
    \/ /\ View(q, l, o) \in Asks
       /\ q.epoch[o] = q.epoch[l.primary] => Granted(q.toReplica[o], q.epoch[o], q.state[o])
       /\ None(q.toPrimary[o], q.epoch[l.primary], Answers)

LEMMA PairDone ==
  ASSUME NEW u, u \in Grants, NEW ep \in Nat, NEW eo \in Nat, NEW so,
         NEW M \in Seq(Event), NEW N \in Seq(Event), PairOK("granted", ep, eo, so, M, N)
  PROVE  /\ PairOK(u, ep, eo, so, M, N)
         /\ \A c : CallbackOK("granted", ep, eo, so, M, N, c) => CallbackOK(u, ep, eo, so, M, N, c)
<1>1. /\ None(N, ep, Answers)
      /\ eo = ep => None(M, eo, Requests)
      /\ \A c : CallbackOK("granted", ep, eo, so, M, N, c) =>
                (eo = ep /\ c.epoch = eo => c.ev \notin RemoteGrants)
  BY PairQuiet
<1>2. HeldOK(u, ep, eo, so, M)
  BY DEF PairOK, HeldOK, Grants
<1>3. PairOK(u, ep, eo, so, M, N)
  BY <1>1, <1>2, PairTurn DEF Grants
<1>4. \A c : CallbackOK("granted", ep, eo, so, M, N, c) => CallbackOK(u, ep, eo, so, M, N, c)
  BY <1>1, CallbackTurn
<1> QED
  BY <1>3, <1>4

LEMMA PeerCounts ==
  ASSUME NEW l, IsLayout(l), NEW q \in PGRecord, GroupOK(q, l), NEW x, NEW s \in States,
         NEW i, NEW T, NEW M, Turned(x, q, l.primary, s, i, T, M), NEW o \in l.replicas,
         M[o] = q.toReplica[o], Counts(q, l, o), View(x, l, o) \in Grants
  PROVE  PeersKept(q, x, l, o)
<1>1. CASE View(q, l, o) = "granted"
  <2> DEFINE ep == q.epoch[l.primary]
             eo == q.epoch[o]
             so == q.state[o]
             N == q.toPrimary[o]
  <2>1. PICK L : L = M[o]
    OBVIOUS
  <2>2. ep \in Nat /\ eo \in Nat /\ L \in Seq(Event) /\ N \in Seq(Event)
    BY <2>1, PairTypes
  <2>3. PICK u : u = View(x, l, o)
    OBVIOUS
  <2>4. PairOK("granted", ep, eo, so, L, N)
    BY <1>1, <2>1 DEF GroupOK, PeerOK
  <2>5. \A c : Callback(q, l, o, c) <=> CallbackOK("granted", ep, eo, so, L, N, c)
    BY <1>1, <2>1 DEF Callback
  <2>6. /\ PeerOK(x, l, o) <=> PairOK(u, ep, eo, so, L, N)
        /\ \A c : Callback(x, l, o, c) <=> CallbackOK(u, ep, eo, so, L, N, c)
    BY <2>1, <2>3, PeerTurn
  <2> HIDE DEF ep, eo, so, N
  <2>7. /\ PairOK(u, ep, eo, so, L, N)
        /\ \A c : CallbackOK("granted", ep, eo, so, L, N, c) => CallbackOK(u, ep, eo, so, L, N, c)
    BY <2>2, <2>3, <2>4, PairDone
  <2> QED
    BY <2>5, <2>6, <2>7 DEF PeersKept
<1>2. CASE View(q, l, o) \in Asks
  <2>1. /\ q.epoch[o] = q.epoch[l.primary] => Granted(q.toReplica[o], q.epoch[o], q.state[o])
        /\ None(q.toPrimary[o], q.epoch[l.primary], Answers)
    BY <1>2 DEF Counts, Asks
  <2> QED
    BY <1>2, <2>1, PeerGranted
<1> QED
  BY <1>1, <1>2 DEF Counts

Progressed(q, l, kind, n) ==
    \A o \in l.replicas :
        IF \E k \in 1 .. n : o = Peers(l, kind)[k] THEN Counts(q, l, o) ELSE View(q, l, o) = "free"

LEMMA AskOne ==
  ASSUME NEW l, IsLayout(l), NEW q \in PGRecord, GroupOK(q, l), NEW x, NEW kind \in Kinds,
         NEW n \in Nat, NEW P, P = Peers(l, kind), n + 1 \in 1 .. Len(P),
         NEW m \in Event, m.ev = RequestOf(kind), m.epoch = q.epoch[l.primary],
         NEW M, M = Told(q.toReplica, {P[n + 1]}, m), NEW T,
         Turned(x, q, l.primary, WaitState(kind), n + 1, T, M), Progressed(q, l, kind, n)
  PROVE  \A o \in l.replicas : PeersKept(q, x, l, o)
<1>1. PICK v, s : v = Requested(m.ev) /\ s = WaitState(kind)
  OBVIOUS
<1>2. s \in States /\ v \in Asks /\ m.ev \in Requests
  BY <1>1 DEF WaitState, RequestOf, States, Requested, Asks, Requests
<1>3. Turned(x, q, l.primary, s, n + 1, T, M)
  BY <1>1
<1>4. x.state[l.primary] = s /\ x.it = n + 1
  BY <1>3 DEF Turned, PGRecord, IsLayout
<1>5. \A o \in l.replicas : View(x, l, o) = AskView(P, n + 1, o, v)
  <2> SUFFICES ASSUME NEW o \in l.replicas PROVE View(x, l, o) = AskView(P, n + 1, o, v)
    OBVIOUS
  <2>1. CASE kind = "recovery"
    <3>1. s = "WaitRemoteRecoveryReserved" /\ v = "asksRecovery" /\ P = Peers(l, "recovery")
      BY <1>1, <2>1 DEF WaitState, RequestOf, Requested
    <3> QED
      BY <1>4, <3>1, ViewIs
  <2>2. CASE kind = "backfill"
    <3>1. s = "WaitRemoteBackfillReserved" /\ v = "asksBackfill" /\ P = Peers(l, "backfill")
      BY <1>1, <2>2 DEF WaitState, RequestOf, Requested
    <3> QED
      BY <1>4, <3>1, ViewIs
  <2> QED
    BY <2>1, <2>2 DEF Kinds
<1>6. n + 1 - 1 = n /\ n \in 0 .. Len(P) /\ \A k \in 1 .. n : k \in 1 .. Len(P) /\ k # n + 1
  <2>1. Len(P) \in Nat
    BY PeersIs
  <2> QED
    BY <2>1
<1>7. \A j, k \in 1 .. Len(P) : P[j] = P[k] => j = k
  BY PeersIs
<1>8. PICK a : a = P[n + 1]
  OBVIOUS
<1> SUFFICES ASSUME NEW o \in l.replicas PROVE PeersKept(q, x, l, o)
  OBVIOUS
<1>9. o \in OSD
  BY DEF IsLayout
<1>10. M[o] = IF o = a THEN Append(q.toReplica[o], m) ELSE q.toReplica[o]
  BY <1>8, <1>9 DEF Told
<1>11. CASE o = a
  <2>1. ~ \E k \in 1 .. n : o = P[k]
    BY <1>6, <1>7, <1>8, <1>11
  <2>2. View(q, l, o) = "free"
    BY <2>1 DEF Progressed
  <2>3. View(x, l, o) = v
    BY <1>5, <1>8, <1>11 DEF AskView
  <2> QED
    BY <1>1, <1>2, <1>3, <1>10, <1>11, <2>2, <2>3, PeerAsked
<1>12. CASE o # a /\ \E k \in 1 .. n : o = P[k]
  <2>1. Counts(q, l, o)
    BY <1>12 DEF Progressed
  <2>2. View(x, l, o) = "granted"
    BY <1>5, <1>6, <1>8, <1>12 DEF AskView
  <2>3. View(x, l, o) \in Grants
    BY <2>2 DEF Grants
  <2> QED
    BY <1>2, <1>3, <1>10, <1>12, <2>1, <2>3, PeerCounts
<1>13. CASE o # a /\ ~ \E k \in 1 .. n : o = P[k]
  <2>1. View(q, l, o) = "free"
    BY <1>13 DEF Progressed
  <2>2. View(x, l, o) = "free"
    BY <1>5, <1>6, <1>8, <1>13 DEF AskView
  <2> QED
    BY <1>2, <1>3, <1>10, <1>13, <2>1, <2>2, PeerSame
<1> QED
  BY <1>11, <1>12, <1>13

LEMMA AskedAll ==
  ASSUME NEW l, IsLayout(l), NEW q \in PGRecord, GroupOK(q, l), NEW x, NEW kind \in Kinds,
         NEW n, n = Len(Peers(l, kind)), NEW i, NEW T,
         Turned(x, q, l.primary, WorkState(kind), i, T, q.toReplica), Progressed(q, l, kind, n)
  PROVE  \A o \in l.replicas : PeersKept(q, x, l, o)
<1>1. PICK s : s = WorkState(kind)
  OBVIOUS
<1>2. s \in States
  BY <1>1 DEF WorkState, States
<1>3. Turned(x, q, l.primary, s, i, T, q.toReplica)
  BY <1>1
<1>4. x.state[l.primary] = s
  BY <1>3 DEF Turned, PGRecord, IsLayout
<1> SUFFICES ASSUME NEW o \in l.replicas PROVE PeersKept(q, x, l, o)
  OBVIOUS
<1>5. CASE o \in Counted(l, kind)
  <2>1. \E k \in 1 .. n : o = Peers(l, kind)[k]
    BY <1>5, PeersIs
  <2>2. Counts(q, l, o)
    BY <2>1 DEF Progressed
  <2>3. View(x, l, o) \in {"granted", "done"}
    <3>1. CASE kind = "recovery"
      BY <1>1, <1>4, <3>1, ViewIs DEF WorkState
    <3>2. CASE kind = "backfill"
      <4>1. s = "Backfilling" /\ o \in l.targets
        BY <1>1, <1>5, <3>2 DEF WorkState, Counted
      <4> QED
        BY <1>4, <4>1, ViewIs
    <3> QED
      BY <3>1, <3>2 DEF Kinds
  <2>4. View(x, l, o) \in Grants
    BY <2>3 DEF Grants
  <2> QED
    BY <1>2, <1>3, <2>2, <2>4, PeerCounts
<1>6. CASE o \notin Counted(l, kind)
  <2>1. kind = "backfill" /\ o \notin l.targets /\ s = "Backfilling"
    BY <1>1, <1>6 DEF Counted, Kinds, WorkState
  <2>2. ~ \E k \in 1 .. n : o = Peers(l, kind)[k]
    BY <1>6, PeersIs
  <2>3. View(q, l, o) = "free"
    BY <2>2 DEF Progressed
  <2>4. View(x, l, o) = "free"
    BY <1>4, <2>1, ViewIs
  <2> QED
    BY <1>2, <1>3, <2>3, <2>4, PeerSame
<1> QED
  BY <1>5, <1>6

LEMMA AskOn ==
  ASSUME NEW ps, NEW lo, NEW re, NEW g, NEW l, NEW p, NEW q, NEW w,
         Stage(ps, lo, re, g, l, p, q, w), NoGrant(q, p, g, lo[p]), NoOwn(q, p),
         NoRetry(q.timers, q.epoch[p]), NEW kind \in Kinds,
         kind = "backfill" => "recovery" \notin q.todo,
         NEW n \in 0 .. Len(Peers(l, kind)), NEW w1,
         Handled(w1, q, p, WaitState(kind), n, q.timers, q.toReplica, lo[p], re[p]),
         Progressed(q, l, kind, n)
  PROVE  Reacts(ps, lo, re, g, p, AskNext(w1, g, p, kind))
<1>0. /\ q = ps[g] /\ q \in PGRecord /\ p \in OSD /\ l = lay[g] /\ p = l.primary /\ IsLayout(l)
      /\ GroupOK(q, l) /\ q.epoch[p] \in Nat /\ l.replicas \subseteq OSD
  BY StageIs
<1>1. PICK P : P = Peers(l, kind)
  OBVIOUS
<1>2. /\ Len(P) \in Nat /\ Len(P) = Cardinality(Counted(l, kind))
      /\ Len(P) \in 0 .. Cardinality(OSD) /\ Cardinality(OSD) \in Nat
      /\ Counted(l, kind) \subseteq l.replicas
      /\ \A k \in 1 .. Len(P) : P[k] \in Counted(l, kind)
  BY <1>0, <1>1, PeersIs
<1>3. Remotes(g, kind) = P
  BY <1>0, <1>1 DEF Remotes, Peers
<1>4. w1.p.it = n
  BY DEF Handled, Turned
<1>5. n \in Nat /\ n <= Len(P)
  BY <1>1, <1>2
<1>6. CASE n < Len(P)
  <2>1. n + 1 \in 1 .. Len(P) /\ n + 1 \in 0 .. Cardinality(OSD)
    BY <1>2, <1>5, <1>6
  <2> DEFINE s == WaitState(kind)
             ev == RequestOf(kind)
             m == [ev |-> ev, epoch |-> q.epoch[p]]
             M == Told(q.toReplica, {P[n + 1]}, m)
             w2 == Tell(w1, {P[n + 1]}, ev, p)
             w3 == [w2 EXCEPT !.p.it = n + 1]
  <2>2. s \in Timed /\ s \in LocalHolders /\ s \in ActiveStates /\ ev \in Events
    BY DEF WaitState, RequestOf, Timed, ActiveStates, LocalHolders, Events
  <2>3. ASSUME NEW b PROVE WorkOK(s, n + 1, b, q.todo, l)
    <3>1. CASE kind = "recovery"
      <4>1. s = "WaitRemoteRecoveryReserved" /\ n + 1 \in 1 .. Cardinality(l.replicas)
        BY <1>2, <2>1, <3>1 DEF WaitState, Counted
      <4> QED
        BY <4>1 DEF WorkOK, ActiveStates, BackfillStates
    <3>2. CASE kind = "backfill"
      <4>1. s = "WaitRemoteBackfillReserved" /\ n + 1 \in 1 .. Cardinality(l.targets)
        BY <1>2, <2>1, <3>2 DEF WaitState, Counted
      <4> QED
        BY <3>2, <4>1 DEF WorkOK, ActiveStates
    <3> QED
      BY <3>1, <3>2 DEF Kinds
  <2> HIDE DEF s, ev
  <2>4. Handled(w1, q, p, s, n, q.timers, q.toReplica, lo[p], re[p])
    BY DEF s
  <2>5. Handled(w2, q, p, s, n, q.timers, M, lo[p], re[p]) /\ m \in Event
    BY <1>0, <2>2, <2>4, HandledTell
  <2>6. m.ev = ev /\ m.epoch = q.epoch[p]
    OBVIOUS
  <2> HIDE DEF m
  <2>7. w2.p.it = n
    <3> HIDE DEF w2
    <3> QED
      BY <2>5 DEF Handled, Turned
  <2>8. AskNext(w1, g, p, kind) = w3
    <3>1. AskNext(w1, g, p, kind) = [w2 EXCEPT !.p.it = @ + 1]
      BY <1>3, <1>4, <1>6 DEF AskNext, ev, RequestOf
    <3> HIDE DEF w2
    <3> QED
      BY <2>7, <3>1
  <2> HIDE DEF w2, M
  <2>9. Handled(w3, q, p, s, n + 1, q.timers, M, lo[p], re[p])
    BY <1>0, <2>1, <2>5, HandledIt
  <2> HIDE DEF w3
  <2>10. Turned(w3.p, q, p, s, n + 1, q.timers, M)
    BY <2>9 DEF Handled
  <2>11. \A o \in l.replicas : PeersKept(q, w3.p, l, o)
    BY <1>0, <1>1, <1>5, <2>1, <2>5, <2>6, <2>10, AskOne DEF s, ev, M
  <2>12. \A o \in OSD \ l.replicas : M[o] = q.toReplica[o]
    BY <1>2, <2>1 DEF M, Told
  <2>13. NextTimers(q.timers, q.timers, q.epoch[p], s)
    BY DEF NextTimers
  <2>14. PICK i : i = n + 1
    OBVIOUS
  <2>15. Orderly(q, re, g, l, w3.p, s, i, q.timers, M)
    BY <1>0, <2>2, <2>3, <2>11, <2>12, <2>13, <2>14, OrderlyIs
  <2>16. Reacts(ps, lo, re, g, p, w3)
    BY <2>2, <2>9, <2>14, <2>15, ReactKeep
  <2> QED
    BY <2>8, <2>16
<1>7. CASE ~(n < Len(P))
  <2>1. n = Len(Peers(l, kind))
    BY <1>1, <1>2, <1>5, <1>7
  <2> DEFINE s == WorkState(kind)
             w2 == To(w1, p, s)
             w3 == [w2 EXCEPT !.p.working = TRUE]
  <2>2. s \in Timed /\ s \in LocalHolders /\ s \in ActiveStates /\ s \in States
    BY DEF WorkState, Timed, ActiveStates, LocalHolders, States
  <2>3. WorkOK(s, n, TRUE, q.todo, l)
    <3>1. CASE kind = "recovery"
      <4>1. s = "Recovering"
        BY <3>1 DEF WorkState
      <4> QED
        BY <4>1 DEF WorkOK, ActiveStates, BackfillStates
    <3>2. CASE kind = "backfill"
      <4>1. s = "Backfilling"
        BY <3>2 DEF WorkState
      <4> QED
        BY <3>2, <4>1 DEF WorkOK, ActiveStates
    <3> QED
      BY <3>1, <3>2 DEF Kinds
  <2>4. AskNext(w1, g, p, kind) = w3
    BY <1>3, <1>4, <1>7 DEF AskNext, WorkState
  <2> HIDE DEF s
  <2>5. Handled(w2, q, p, s, n, q.timers, q.toReplica, lo[p], re[p])
    BY <1>0, <2>2, HandledTo
  <2> HIDE DEF w2
  <2>6. Handled(w3, q, p, s, n, q.timers, q.toReplica, lo[p], re[p]) /\ w3.p.working = TRUE
    <3>1. TRUE \in BOOLEAN
      OBVIOUS
    <3> QED
      BY <1>0, <2>5, <3>1, HandledWorking
  <2> HIDE DEF w3
  <2>7. Turned(w3.p, q, p, s, n, q.timers, q.toReplica)
    BY <2>6 DEF Handled
  <2>8. \A o \in l.replicas : PeersKept(q, w3.p, l, o)
    BY <1>0, <2>1, <2>7, AskedAll DEF s
  <2>9. NextTimers(q.timers, q.timers, q.epoch[p], s)
    BY DEF NextTimers
  <2>10. Orderly(q, re, g, l, w3.p, s, n, q.timers, q.toReplica)
    BY <1>0, <2>2, <2>3, <2>6, <2>8, <2>9, OrderlyIs
  <2>11. Reacts(ps, lo, re, g, p, w3)
    BY <2>2, <2>6, <2>10, ReactKeep
  <2> QED
    BY <2>4, <2>11
<1> QED
  BY <1>6, <1>7

(* LocalRecoveryReserved and LocalBackfillReserved.                         *)
WaitLocal(kind) ==
    IF kind = "recovery" THEN "WaitLocalRecoveryReserved" ELSE "WaitLocalBackfillReserved"

LEMMA ReactLocalReserved ==
  ASSUME NEW ps, NEW lo, NEW re, NEW g, NEW l, NEW p, NEW q, NEW w,
         Stage(ps, lo, re, g, l, p, q, w), NoGrant(q, p, g, lo[p]), NEW kind \in Kinds,
         q.state[p] = WaitLocal(kind)
  PROVE  Reacts(ps, lo, re, g, p, WaitRemoteReserved(w, g, p, kind))
<1>0. /\ q = ps[g] /\ q \in PGRecord /\ p \in OSD /\ l = lay[g] /\ p = l.primary /\ IsLayout(l)
      /\ GroupOK(q, l) /\ q.epoch[p] \in Nat
      /\ Handled(w, q, p, q.state[p], q.it, q.timers, q.toReplica, lo[p], re[p])
  BY StageIs
<1>1. q.state[p] \in {"WaitLocalRecoveryReserved", "WaitLocalBackfillReserved"}
  BY DEF WaitLocal
<1>2. NoRetry(q.timers, q.epoch[p]) /\ NoOwn(q, p)
  BY <1>0, <1>1, NoRetryIs, NoOwnIs
<1>3. kind = "backfill" => "recovery" \notin q.todo
  BY <1>0 DEF GroupOK, WorkOK, WaitLocal, BackfillStates
<1> DEFINE s == WaitState(kind)
           w1 == To(w, p, s)
           w2 == [w1 EXCEPT !.p.it = 0]
<1>4. s \in States
  BY DEF WaitState, States
<1>5. WaitRemoteReserved(w, g, p, kind) = AskNext(w2, g, p, kind)
  BY DEF WaitRemoteReserved, WaitState
<1> HIDE DEF s
<1>6. Handled(w1, q, p, s, q.it, q.timers, q.toReplica, lo[p], re[p])
  BY <1>0, <1>4, HandledTo
<1> HIDE DEF w1
<1>7. 0 \in 0 .. Cardinality(OSD) /\ 0 \in 0 .. Len(Peers(l, kind))
  BY <1>0, PeersIs
<1>8. Handled(w2, q, p, s, 0, q.timers, q.toReplica, lo[p], re[p])
  BY <1>0, <1>6, <1>7, HandledIt
<1> HIDE DEF w2
<1>9. \A o \in l.replicas : View(q, l, o) = "free"
  BY <1>0, <1>1, ViewIs DEF FreeStates
<1>10. Progressed(q, l, kind, 0)
  BY <1>9 DEF Progressed
<1>11. Reacts(ps, lo, re, g, p, AskNext(w2, g, p, kind))
  BY <1>2, <1>3, <1>7, <1>8, <1>10, AskOn DEF s
<1> QED
  BY <1>5, <1>11

(* RemoteRecoveryReserved and RemoteBackfillReserved: the answer of a.      *)
LEMMA ReactRemoteReserved ==
  ASSUME NEW ps, NEW lo, NEW re, NEW g, NEW l, NEW p, NEW q, NEW w,
         Stage(ps, lo, re, g, l, p, q, w), NEW kind \in Kinds, q.state[p] = WaitState(kind),
         NEW a \in l.replicas, Counts(q, l, a), View(q, l, a) \in Asks
  PROVE  Reacts(ps, lo, re, g, p, AskNext(w, g, p, kind))
<1>0. /\ q = ps[g] /\ q \in PGRecord /\ p \in OSD /\ l = lay[g] /\ p = l.primary /\ IsLayout(l)
      /\ GroupOK(q, l) /\ q.epoch[p] \in Nat
      /\ Handled(w, q, p, q.state[p], q.it, q.timers, q.toReplica, lo[p], re[p])
  BY StageIs
<1>1. q.state[p] \in {"WaitRemoteRecoveryReserved", "WaitRemoteBackfillReserved"}
  BY DEF WaitState
<1>2. NoRetry(q.timers, q.epoch[p]) /\ NoOwn(q, p) /\ NoGrant(q, p, g, lo[p])
  BY <1>0, <1>1, NoRetryIs, NoOwnIs, NoGrantIs
<1>3. kind = "backfill" => "recovery" \notin q.todo
  BY <1>0 DEF GroupOK, WorkOK, WaitState, BackfillStates
<1>4. PICK P, n, v : /\ P = Peers(l, kind) /\ n = q.it
                     /\ v = IF kind = "recovery" THEN "asksRecovery" ELSE "asksBackfill"
  OBVIOUS
<1>5. n \in 1 .. Len(P) /\ n \in Nat /\ n \in 0 .. Len(P)
  <2>1. Len(P) = Cardinality(Counted(l, kind)) /\ Len(P) \in Nat
    BY <1>0, <1>4, PeersIs
  <2>2. n \in 1 .. Cardinality(Counted(l, kind))
    <3>1. WorkOK(q.state[p], q.it, q.working, q.todo, l)
      BY <1>0 DEF GroupOK
    <3>2. CASE kind = "recovery"
      BY <1>4, <3>1, <3>2 DEF WorkOK, WaitState, Counted
    <3>3. CASE kind = "backfill"
      BY <1>4, <3>1, <3>3 DEF WorkOK, WaitState, Counted
    <3> QED
      BY <3>2, <3>3 DEF Kinds
  <2> QED
    BY <2>1, <2>2
<1>6. \A o \in l.replicas : View(q, l, o) = AskView(P, n, o, v)
  <2> SUFFICES ASSUME NEW o \in l.replicas PROVE View(q, l, o) = AskView(P, n, o, v)
    OBVIOUS
  <2>1. CASE kind = "recovery"
    <3>1. q.state[l.primary] = "WaitRemoteRecoveryReserved" /\ v = "asksRecovery"
          /\ P = Peers(l, "recovery")
      BY <1>0, <1>4, <2>1 DEF WaitState
    <3> QED
      BY <1>4, <3>1, ViewIs
  <2>2. CASE kind = "backfill"
    <3>1. q.state[l.primary] = "WaitRemoteBackfillReserved" /\ v = "asksBackfill"
          /\ P = Peers(l, "backfill")
      BY <1>0, <1>4, <2>2 DEF WaitState
    <3> QED
      BY <1>4, <3>1, ViewIs
  <2> QED
    BY <2>1, <2>2 DEF Kinds
<1>7. a = P[n]
  BY <1>6 DEF AskView, Asks
<1>8. ASSUME NEW o \in l.replicas
      PROVE  IF \E k \in 1 .. n : o = P[k] THEN Counts(q, l, o) ELSE View(q, l, o) = "free"
  <2>1. CASE o = a
    <3>1. \E k \in 1 .. n : o = P[k]
      BY <1>5, <1>7, <2>1
    <3> QED
      BY <2>1, <3>1
  <2>2. CASE o # a /\ \E k \in 1 .. n : o = P[k]
    <3>1. \E k \in 1 .. n - 1 : o = P[k]
      BY <1>5, <1>7, <2>2
    <3>2. View(q, l, o) = "granted"
      BY <1>6, <1>7, <2>2, <3>1 DEF AskView
    <3> QED
      BY <2>2, <3>2 DEF Counts
  <2>3. CASE o # a /\ ~ \E k \in 1 .. n : o = P[k]
    <3>1. ~ \E k \in 1 .. n - 1 : o = P[k]
      BY <1>5, <2>3
    <3>2. View(q, l, o) = "free"
      BY <1>6, <1>7, <2>3, <3>1 DEF AskView
    <3> QED
      BY <2>3, <3>2
  <2> QED
    BY <2>1, <2>2, <2>3
<1>9. Progressed(q, l, kind, n)
  BY <1>4, <1>8 DEF Progressed
<1>10. Handled(w, q, p, WaitState(kind), n, q.timers, q.toReplica, lo[p], re[p])
  BY <1>0, <1>4
<1>11. n \in 0 .. Len(Peers(l, kind))
  BY <1>4, <1>5
<1> QED
  BY <1>2, <1>3, <1>9, <1>10, <1>11, AskOn

(* A target is too full or was preempted before all have answered.          *)
LEMMA ReactRetry ==
  ASSUME NEW ps, NEW lo, NEW re, NEW g, NEW l, NEW p, NEW q, NEW w,
         Stage(ps, lo, re, g, l, p, q, w), q.state[p] = "WaitRemoteBackfillReserved"
  PROVE  Reacts(ps, lo, re, g, p, Leave(retry(w, g, p), p, "NotBackfilling"))
<1>0. /\ q = ps[g] /\ q \in PGRecord /\ p \in OSD /\ l = lay[g] /\ p = l.primary /\ IsLayout(l)
      /\ GroupOK(q, l) /\ q.epoch[p] \in Nat /\ w.p = q
      /\ Handled(w, q, p, q.state[p], q.it, q.timers, q.toReplica, lo[p], re[p])
  BY StageIs
<1>1. NoGrant(q, p, g, lo[p]) /\ NoRetry(q.timers, q.epoch[p]) /\ NoOwn(q, p) /\ "recovery" \notin q.todo
  BY BackfillFacts DEF BackfillStates
<1>2. PICK P, n, S : /\ P = Peers(l, "backfill") /\ n = q.it
                     /\ S = {P[k] : k \in 1 .. n}
  OBVIOUS
<1>3. n \in 1 .. Len(P) /\ n \in Nat /\ S \subseteq l.replicas
  <2>1. /\ Len(P) = Cardinality(Counted(l, "backfill")) /\ Len(P) \in Nat
        /\ Counted(l, "backfill") \subseteq l.replicas
        /\ \A k \in 1 .. Len(P) : P[k] \in Counted(l, "backfill")
    BY <1>0, <1>2, PeersIs
  <2>2. n \in 1 .. Cardinality(l.targets)
    BY <1>0, <1>2 DEF GroupOK, WorkOK
  <2>3. n \in 1 .. Len(P)
    BY <2>1, <2>2 DEF Counted
  <2> QED
    BY <1>2, <2>1, <2>3
<1> DEFINE s0 == q.state[p]
           s == "NotBackfilling"
           ev == "RemoteReservationCanceled"
           m == [ev |-> ev, epoch |-> q.epoch[p]]
           M == Told(q.toReplica, S, m)
           T == q.timers \cup {[ev |-> "RequestBackfill", epoch |-> q.epoch[p], delay |-> "retry"]}
           l1 == Cancelled(lo[p], g)
           w1 == cancel_local(w, g)
           w2 == Tell(w1, S, ev, p)
           w3 == schedule_event_after(w2, p, "RequestBackfill", "retry")
           w4 == Leave(w3, p, s)
<1>4. Remotes(g, "backfill") = P
  BY <1>0, <1>2 DEF Remotes, Peers
<1>5. retry(w, g, p) = w3
  BY <1>0, <1>2, <1>4 DEF retry
<1>6. s \in States /\ s \in Timed /\ s \in ActiveStates /\ ev \in Events
  BY DEF States, Timed, ActiveStates, Events
<1>7. \A b, i : WorkOK(s, i, b, q.todo, l)
  BY <1>1 DEF WorkOK, ActiveStates
<1>8. NextTimers(q.timers, T, q.epoch[p], s)
  BY DEF NextTimers
<1>9. m \in Event /\ m.ev \in Releases /\ m.epoch = q.epoch[l.primary] /\ m.ev # "RecoveryDone"
  BY <1>0 DEF PGRecord, Event, Events, Releases
<1>10. /\ \A x : x.state[l.primary] = s /\ RetriesLate(x, l) => \A o : View(x, l, o) = "drain"
  BY ViewIs
<1> HIDE DEF s, ev, s0
<1>11. Handled(w1, q, p, s0, q.it, q.timers, q.toReplica, l1, re[p])
  BY <1>0, HandledCancel DEF s0
<1> HIDE DEF w1, l1
<1>12. Handled(w2, q, p, s0, q.it, q.timers, M, l1, re[p])
  BY <1>0, <1>6, <1>11, HandledTell
<1> HIDE DEF w2, M, m
<1>13. Handled(w3, q, p, s0, q.it, T, M, l1, re[p])
  BY <1>0, <1>12, HandledSchedule
<1> HIDE DEF w3
<1>14. Handled(w4, q, p, s, 0, T, M, l1, re[p])
  BY <1>0, <1>6, <1>13, HandledLeave
<1> HIDE DEF w4
<1>15. PICK x : x = w4.p
  OBVIOUS
<1>16. Turned(x, q, p, s, 0, T, M) /\ Turned(x, q, l.primary, s, 0, T, M)
  BY <1>0, <1>14, <1>15 DEF Handled
<1>17. x.state[l.primary] = s /\ x.timers = T /\ x.epoch[l.primary] = q.epoch[p]
  BY <1>0, <1>16 DEF Turned, PGRecord
<1>18. RetriesLate(x, l)
  <2>1. PICK e, d : e = q.epoch[p] /\ d = "retry"
    OBVIOUS
  <2>2. x.epoch[l.primary] = e /\ NoRetry(q.timers, e)
        /\ x.timers = q.timers \cup {[ev |-> "RequestBackfill", epoch |-> e, delay |-> d]}
    BY <1>1, <1>17, <2>1 DEF T
  <2> QED
    BY <2>1, <2>2, RetriesIs
<1>19. \A o \in l.replicas : View(x, l, o) = "drain"
  BY <1>10, <1>17, <1>18
<1>20. \A o \in l.replicas : View(q, l, o) = AskView(P, n, o, "asksBackfill")
  BY <1>0, <1>2, ViewIs
<1>21. LetGo(q, x, l, S, m)
  <2> SUFFICES ASSUME NEW o \in l.replicas
               PROVE  IF o \in S THEN View(q, l, o) \in {"granted", "asksBackfill"}
                      ELSE View(q, l, o) = "free"
    BY <1>9, <1>19 DEF LetGo
  <2>1. CASE o \in S
    <3>1. PICK k \in 1 .. n : o = P[k]
      BY <1>2, <2>1
    <3>2. CASE k = n
      BY <1>20, <2>1, <3>1, <3>2 DEF AskView
    <3>3. CASE k # n
      <4>1. k \in 1 .. n - 1
        BY <1>3, <3>3
      <4> QED
        BY <1>20, <2>1, <3>1, <4>1 DEF AskView
    <3> QED
      BY <3>2, <3>3
  <2>2. CASE o \notin S
    <3>1. \A k \in 1 .. n : o # P[k]
      BY <1>2, <2>2
    <3>2. o # P[n] /\ ~ \E k \in 1 .. n - 1 : o = P[k]
      BY <1>3, <3>1
    <3> QED
      BY <1>20, <2>2, <3>2 DEF AskView
  <2> QED
    BY <2>1, <2>2
<1>22. M = Told(q.toReplica, S, m)
  BY DEF M
<1>23. \A o \in l.replicas : PeersKept(q, x, l, o)
  BY <1>0, <1>6, <1>9, <1>16, <1>21, <1>22, PeersLetGo
<1>24. \A o \in OSD \ l.replicas : M[o] = q.toReplica[o]
  BY <1>3, <1>22 DEF Told
<1> HIDE DEF T
<1>25. Orderly(q, re, g, l, w4.p, s, 0, T, M)
  BY <1>0, <1>1, <1>6, <1>7, <1>8, <1>15, <1>23, <1>24, OrderlyIs
<1>26. Reacts(ps, lo, re, g, p, w4)
  BY <1>1, <1>6, <1>14, <1>25, ReactCancel DEF l1
<1> QED
  BY <1>5, <1>26 DEF w4, s

(* RequestBackfill: no peer holds or is about to grant anything.            *)
WasFree(q, re, g, l) ==
    \A o \in l.replicas :
        /\ PairOK("free", q.epoch[l.primary], q.epoch[o], q.state[o], q.toReplica[o], q.toPrimary[o])
        /\ \A c \in Context : Holds(re[o], c) /\ c.pg = g /\ Callback(q, l, o, c) =>
              CallbackOK("free", q.epoch[l.primary], q.epoch[o], q.state[o], q.toReplica[o],
                         q.toPrimary[o], c)

LEMMA FreeWas ==
  ASSUME NEW q, NEW re, NEW g, NEW l, GroupOK(q, l), \A o \in l.replicas : View(q, l, o) = "free"
  PROVE  WasFree(q, re, g, l)
BY DEF WasFree, GroupOK, PeerOK, Callback

LEMMA ReactRequestBackfill ==
  ASSUME NEW ps, NEW lo, NEW re, NEW g, NEW l, NEW p, NEW q, NEW w,
         Stage(ps, lo, re, g, l, p, q, w), q.state[p] \in {"Activating", "NotBackfilling"},
         NoOwn(q, p), NoRetry(q.timers, q.epoch[p]), "recovery" \notin q.todo,
         WasFree(q, re, g, l)
  PROVE  Reacts(ps, lo, re, g, p, WaitLocalBackfillReserved(w, g, p))
<1>0. /\ q = ps[g] /\ q \in PGRecord /\ p \in OSD /\ l = lay[g] /\ p = l.primary /\ IsLayout(l)
      /\ GroupOK(q, l) /\ q.epoch[p] \in Nat
      /\ Handled(w, q, p, q.state[p], q.it, q.timers, q.toReplica, lo[p], re[p])
  BY StageIs
<1>1. NoGrant(q, p, g, lo[p])
  BY NoGrantIs
<1>2. q.state[p] \notin LocalHolders
  BY DEF LocalHolders
<1>3. ASSUME NEW x, Turned(x, q, p, "WaitLocalBackfillReserved", q.it, q.timers, q.toReplica)
      PROVE  PeersOrderly(q, re, g, l, x)
  <2>1. PICK s : s = "WaitLocalBackfillReserved"
    OBVIOUS
  <2>2. s \in States /\ s \in FreeStates /\ Turned(x, q, l.primary, s, q.it, q.timers, q.toReplica)
    BY <1>0, <1>3, <2>1 DEF States, FreeStates
  <2>3. x.state[l.primary] = s
    BY <1>0, <2>2 DEF Turned, PGRecord
  <2>4. \A o \in l.replicas : View(x, l, o) = "free"
    BY <2>2, <2>3, ViewIs
  <2>5. ASSUME NEW o \in l.replicas
        PROVE  /\ PeerOK(x, l, o)
               /\ \A c \in Context : Holds(re[o], c) /\ c.pg = g /\ Callback(q, l, o, c) =>
                                     Callback(x, l, o, c)
    <3>1. PICK u : u = View(x, l, o)
      OBVIOUS
    <3>2. u = "free"
      BY <2>4, <3>1
    <3>3. /\ PeerOK(x, l, o) <=>
               PairOK(u, q.epoch[l.primary], q.epoch[o], q.state[o], q.toReplica[o], q.toPrimary[o])
          /\ \A c : Callback(x, l, o, c) <=>
               CallbackOK(u, q.epoch[l.primary], q.epoch[o], q.state[o], q.toReplica[o],
                          q.toPrimary[o], c)
      BY <1>0, <2>2, <3>1, PeerTurn
    <3> QED
      BY <3>2, <3>3 DEF WasFree
  <2> QED
    BY <2>5 DEF PeersOrderly
<1> QED
  BY <1>0, <1>1, <1>2, <1>3, AskBackfill

----------------------------------------------------------------------------
(* The primary takes an event.                                              *)

LEMMA ReactDiscard ==
  ASSUME NEW ps, NEW lo, NEW re, NEW g, NEW l, NEW p, NEW q, NEW w,
         Stage(ps, lo, re, g, l, p, q, w), NEW P, P
  PROVE  Reacts(ps, lo, re, g, p, Asserts(w, P)) /\ Reacts(ps, lo, re, g, p, w)
<1>0. /\ AllOK(ps, lo, re) /\ q = ps[g] /\ q \in PGRecord /\ p \in OSD /\ g \in PG
      /\ Handled(w, q, p, q.state[p], q.it, q.timers, q.toReplica, lo[p], re[p])
      /\ w.p = q /\ w.l = lo[p] /\ w.r = re[p] /\ ~w.bad
  BY StageIs
<1>1. PICK x : x = Asserts(w, P)
  OBVIOUS
<1>2. Handled(x, q, p, q.state[p], q.it, q.timers, q.toReplica, lo[p], re[p]) /\ x.p = w.p
  BY <1>0, <1>1, HandledAsserts
<1>3. x.l = lo[p] /\ x.r = re[p] /\ ~x.bad
  BY <1>2 DEF Handled
<1>4. Reacts(ps, lo, re, g, p, x)
  BY <1>0, <1>2, <1>3, ReactSame
<1>5. Reacts(ps, lo, re, g, p, w)
  BY <1>0, ReactSame
<1> QED
  BY <1>1, <1>4, <1>5

LEMMA TakeDoRecovery ==
  ASSUME NEW ps, NEW lo, NEW re, NEW g, NEW l, NEW p, NEW q, NEW w,
         Stage(ps, lo, re, g, l, p, q, w), NEW full \in BOOLEAN,
         q.state[p] # "Peering",
         q.state[p] \in {"Activating", "NotRecovering", "Clean"} => NoOwn(q, p)
  PROVE  Reacts(ps, lo, re, g, p, Primary_react(w, g, p, "DoRecovery", full))
<1>0. w.p = q /\ q.state[p] \in ActiveStates
  BY StageIs
<1>1. CASE q.state[p] \in {"Activating", "NotRecovering", "Clean"}
  <2>1. Primary_react(w, g, p, "DoRecovery", full) = WaitLocalRecoveryReserved(w, g, p, full)
    BY <1>0, <1>1 DEF Primary_react
  <2> QED
    BY <1>1, <2>1, ReactDoRecovery
<1>2. CASE q.state[p] \notin {"Activating", "NotRecovering", "Clean"}
  <2>1. PICK P : P = (<<q.state[p], "DoRecovery">> \in Discarded)
    OBVIOUS
  <2>2. P
    BY <1>0, <2>1 DEF Discarded
  <2>3. Primary_react(w, g, p, "DoRecovery", full) = Asserts(w, <<q.state[p], "DoRecovery">> \in Discarded)
    BY <1>0, <1>2 DEF Primary_react
  <2> QED
    BY <2>1, <2>2, <2>3, ReactDiscard
<1> QED
  BY <1>1, <1>2

LEMMA TakeRequestBackfill ==
  ASSUME NEW ps, NEW lo, NEW re, NEW g, NEW l, NEW p, NEW q, NEW w,
         Stage(ps, lo, re, g, l, p, q, w), NEW full \in BOOLEAN,
         q.state[p] \in {"Activating", "NotBackfilling", "Recovering"},
         NoOwn(q, p), NoRetry(q.timers, q.epoch[p]), "recovery" \notin q.todo,
         q.state[p] # "Recovering" => WasFree(q, re, g, l)
  PROVE  Reacts(ps, lo, re, g, p, Primary_react(w, g, p, "RequestBackfill", full))
<1>0. w.p = q
  BY StageIs
<1>1. CASE q.state[p] # "Recovering"
  <2>1. Primary_react(w, g, p, "RequestBackfill", full) = WaitLocalBackfillReserved(w, g, p)
    BY <1>0, <1>1 DEF Primary_react
  <2> QED
    BY <1>1, <2>1, ReactRequestBackfill
<1>2. CASE q.state[p] = "Recovering"
  <2>1. Primary_react(w, g, p, "RequestBackfill", full) =
            WaitLocalBackfillReserved(
                Asserts(Leave(cancel_local(release_reservations(w, g, p), g), p, "Recovering"),
                        ~Needs(w, "recovery")), g, p)
    BY <1>0, <1>2 DEF Primary_react
  <2> QED
    BY <1>2, <2>1, ReactToBackfill
<1> QED
  BY <1>1, <1>2

LEMMA TakeAllRecovered ==
  ASSUME NEW ps, NEW lo, NEW re, NEW g, NEW l, NEW p, NEW q, NEW w,
         Stage(ps, lo, re, g, l, p, q, w), NEW full \in BOOLEAN,
         q.state[p] \in {"Activating", "Recovering"}, NoOwn(q, p), "recovery" \notin q.todo
  PROVE  Reacts(ps, lo, re, g, p, Primary_react(w, g, p, "AllReplicasRecovered", full))
<1>0. w.p = q
  BY StageIs
<1>1. CASE q.state[p] = "Activating"
  <2>1. Primary_react(w, g, p, "AllReplicasRecovered", full) = Recovered(w, p)
    BY <1>0, <1>1 DEF Primary_react
  <2> QED
    BY <1>1, <2>1, ReactAllRecovered
<1>2. CASE q.state[p] = "Recovering"
  <2>1. Primary_react(w, g, p, "AllReplicasRecovered", full) =
            Recovered(cancel_local(release_reservations(w, g, p), g), p)
    BY <1>0, <1>2 DEF Primary_react
  <2> QED
    BY <1>2, <2>1, ReactAllRecovered
<1> QED
  BY <1>1, <1>2

LEMMA TakeBackfilled ==
  ASSUME NEW ps, NEW lo, NEW re, NEW g, NEW l, NEW p, NEW q, NEW w,
         Stage(ps, lo, re, g, l, p, q, w), NEW full \in BOOLEAN, q.state[p] # "Peering"
  PROVE  Reacts(ps, lo, re, g, p, Primary_react(w, g, p, "Backfilled", full))
<1>0. w.p = q /\ q.state[p] \in ActiveStates
  BY StageIs
<1>1. CASE q.state[p] = "Backfilling"
  <2>1. Primary_react(w, g, p, "Backfilled", full) =
            Recovered(backfill_release_reservations(w, g, p), p)
    BY <1>0, <1>1 DEF Primary_react
  <2> QED
    BY <1>1, <2>1, ReactBackfilled
<1>2. CASE q.state[p] # "Backfilling"
  <2>1. PICK P : P = (<<q.state[p], "Backfilled">> \in Discarded)
    OBVIOUS
  <2>2. P
    BY <1>0, <2>1 DEF Discarded
  <2>3. Primary_react(w, g, p, "Backfilled", full) = Asserts(w, <<q.state[p], "Backfilled">> \in Discarded)
    BY <1>0, <1>2 DEF Primary_react
  <2> QED
    BY <2>1, <2>2, <2>3, ReactDiscard
<1> QED
  BY <1>1, <1>2

LEMMA TakeLocalReserved ==
  ASSUME NEW ps, NEW lo, NEW re, NEW g, NEW l, NEW p, NEW q, NEW w,
         Stage(ps, lo, re, g, l, p, q, w), NEW full \in BOOLEAN, NoGrant(q, p, g, lo[p])
  PROVE  /\ q.state[p] = "WaitLocalRecoveryReserved" =>
               Reacts(ps, lo, re, g, p, Primary_react(w, g, p, "LocalRecoveryReserved", full))
         /\ q.state[p] = "WaitLocalBackfillReserved" =>
               Reacts(ps, lo, re, g, p, Primary_react(w, g, p, "LocalBackfillReserved", full))
<1>0. w.p = q
  BY StageIs
<1>1. ASSUME q.state[p] = "WaitLocalRecoveryReserved"
      PROVE  Reacts(ps, lo, re, g, p, Primary_react(w, g, p, "LocalRecoveryReserved", full))
  <2>1. Primary_react(w, g, p, "LocalRecoveryReserved", full) =
            WaitRemoteReserved(w, g, p, "recovery")
    BY <1>0, <1>1 DEF Primary_react
  <2>2. PICK k : k = "recovery"
    OBVIOUS
  <2>3. k \in Kinds /\ q.state[p] = WaitLocal(k)
    BY <1>1, <2>2 DEF Kinds, WaitLocal
  <2> QED
    BY <2>1, <2>2, <2>3, ReactLocalReserved
<1>2. ASSUME q.state[p] = "WaitLocalBackfillReserved"
      PROVE  Reacts(ps, lo, re, g, p, Primary_react(w, g, p, "LocalBackfillReserved", full))
  <2>1. Primary_react(w, g, p, "LocalBackfillReserved", full) =
            WaitRemoteReserved(w, g, p, "backfill")
    BY <1>0, <1>2 DEF Primary_react
  <2>2. PICK k : k = "backfill"
    OBVIOUS
  <2>3. k \in Kinds /\ q.state[p] = WaitLocal(k)
    BY <1>2, <2>2 DEF Kinds, WaitLocal
  <2> QED
    BY <2>1, <2>2, <2>3, ReactLocalReserved
<1> QED
  BY <1>1, <1>2

LEMMA TakeDeferRecovery ==
  ASSUME NEW ps, NEW lo, NEW re, NEW g, NEW l, NEW p, NEW q, NEW w,
         Stage(ps, lo, re, g, l, p, q, w), NEW full \in BOOLEAN, q.state[p] # "Peering"
  PROVE  Reacts(ps, lo, re, g, p, Primary_react(w, g, p, "DeferRecovery", full))
<1>0. w.p = q /\ q.state[p] \in ActiveStates
  BY StageIs
<1>1. CASE q.state[p] = "Recovering"
  <2>1. Primary_react(w, g, p, "DeferRecovery", full) =
            IF ~q.working THEN w
            ELSE schedule_event_after(
                     Leave(release_reservations(cancel_local(w, g), g, p), p, "NotRecovering"),
                     p, "DoRecovery", "none")
    BY <1>0, <1>1 DEF Primary_react
  <2>2. CASE q.working
    BY <1>1, <2>1, <2>2, ReactDeferRecovery
  <2>3. CASE ~q.working
    BY <2>1, <2>3, ReactDiscard
  <2> QED
    BY <2>2, <2>3
<1>2. CASE q.state[p] # "Recovering"
  <2>1. PICK P : P = (<<q.state[p], "DeferRecovery">> \in Discarded)
    OBVIOUS
  <2>2. P
    BY <1>0, <2>1 DEF Discarded
  <2>3. Primary_react(w, g, p, "DeferRecovery", full) = Asserts(w, <<q.state[p], "DeferRecovery">> \in Discarded)
    BY <1>0, <1>2 DEF Primary_react
  <2> QED
    BY <2>1, <2>2, <2>3, ReactDiscard
<1> QED
  BY <1>1, <1>2

LEMMA TakeDeferBackfill ==
  ASSUME NEW ps, NEW lo, NEW re, NEW g, NEW l, NEW p, NEW q, NEW w,
         Stage(ps, lo, re, g, l, p, q, w), NEW full \in BOOLEAN, q.state[p] # "Peering"
  PROVE  /\ Reacts(ps, lo, re, g, p, Primary_react(w, g, p, "DeferBackfill", full))
         /\ Reacts(ps, lo, re, g, p, Primary_react(w, g, p, "RemoteReservationRevokedTooFull", full))
<1>0. w.p = q /\ q.state[p] \in ActiveStates
  BY StageIs
<1>1. CASE q.state[p] = "Backfilling"
  <2>1. Primary_react(w, g, p, "DeferBackfill", full) =
            schedule_event_after(Leave(cancel_backfill(w, g, p), p, "NotBackfilling"),
                                 p, "RequestBackfill", "none")
    BY <1>0, <1>1 DEF Primary_react
  <2>2. Primary_react(w, g, p, "RemoteReservationRevokedTooFull", full) =
            schedule_event_after(Leave(cancel_backfill(w, g, p), p, "NotBackfilling"),
                                 p, "RequestBackfill", "retry")
    BY <1>0, <1>1 DEF Primary_react
  <2>3. Reacts(ps, lo, re, g, p, Primary_react(w, g, p, "DeferBackfill", full))
    BY <1>1, <2>1, ReactSuspend
  <2>4. Reacts(ps, lo, re, g, p, Primary_react(w, g, p, "RemoteReservationRevokedTooFull", full))
    BY <1>1, <2>2, ReactSuspend
  <2> QED
    BY <2>3, <2>4
<1>2. CASE q.state[p] # "Backfilling"
  <2>1. PICK P, Q : /\ P = (<<q.state[p], "DeferBackfill">> \in Discarded)
                    /\ Q = (<<q.state[p], "RemoteReservationRevokedTooFull">> \in Discarded)
    OBVIOUS
  <2>2. P /\ Q
    BY <1>0, <2>1 DEF Discarded
  <2>3. Primary_react(w, g, p, "DeferBackfill", full) = Asserts(w, <<q.state[p], "DeferBackfill">> \in Discarded)
    BY <1>0, <1>2 DEF Primary_react
  <2>4. Primary_react(w, g, p, "RemoteReservationRevokedTooFull", full) =
            Asserts(w, <<q.state[p], "RemoteReservationRevokedTooFull">> \in Discarded)
    BY <1>0, <1>2 DEF Primary_react
  <2>5. Reacts(ps, lo, re, g, p, Asserts(w, P)) /\ Reacts(ps, lo, re, g, p, Asserts(w, Q))
    BY <2>2, ReactDiscard
  <2> QED
    BY <2>1, <2>3, <2>4, <2>5
<1> QED
  BY <1>1, <1>2

LEMMA TakeRevoked ==
  ASSUME NEW ps, NEW lo, NEW re, NEW g, NEW l, NEW p, NEW q, NEW w,
         Stage(ps, lo, re, g, l, p, q, w), NEW full \in BOOLEAN, q.state[p] # "Peering"
  PROVE  Reacts(ps, lo, re, g, p, Primary_react(w, g, p, "RemoteReservationRevoked", full))
<1>0. w.p = q /\ q.state[p] \in ActiveStates
  BY StageIs
<1>1. CASE q.state[p] = "Backfilling"
  <2>1. Primary_react(w, g, p, "RemoteReservationRevoked", full) =
            IF Needs(w, "backfill")
            THEN WaitLocalBackfillReserved(Leave(cancel_backfill(w, g, p), p, "Backfilling"), g, p)
            ELSE cancel_backfill(w, g, p)
    BY <1>0, <1>1 DEF Primary_react
  <2>2. Needs(w, "backfill") <=> "backfill" \in q.todo
    BY <1>0 DEF Needs
  <2> QED
    BY <1>1, <2>1, <2>2, ReactRevoked
<1>2. CASE q.state[p] = "WaitRemoteBackfillReserved"
  <2>1. Primary_react(w, g, p, "RemoteReservationRevoked", full) =
            Leave(retry(w, g, p), p, "NotBackfilling")
    BY <1>0, <1>2 DEF Primary_react
  <2> QED
    BY <1>2, <2>1, ReactRetry
<1>3. CASE q.state[p] \notin {"Backfilling", "WaitRemoteBackfillReserved"}
  <2>1. PICK P : P = (<<q.state[p], "RemoteReservationRevoked">> \in Discarded)
    OBVIOUS
  <2>2. P
    BY <1>0, <2>1 DEF Discarded
  <2>3. Primary_react(w, g, p, "RemoteReservationRevoked", full) =
            Asserts(w, <<q.state[p], "RemoteReservationRevoked">> \in Discarded)
    BY <1>0, <1>3 DEF Primary_react
  <2> QED
    BY <2>1, <2>2, <2>3, ReactDiscard
<1> QED
  BY <1>1, <1>2, <1>3

LEMMA TakeRejected ==
  ASSUME NEW ps, NEW lo, NEW re, NEW g, NEW l, NEW p, NEW q, NEW w,
         Stage(ps, lo, re, g, l, p, q, w), NEW full \in BOOLEAN,
         q.state[p] \in {"WaitRemoteBackfillReserved", "NotBackfilling"}
  PROVE  Reacts(ps, lo, re, g, p, Primary_react(w, g, p, "RemoteReservationRejectedTooFull", full))
<1>0. w.p = q
  BY StageIs
<1>2. CASE q.state[p] = "WaitRemoteBackfillReserved"
  <2>1. Primary_react(w, g, p, "RemoteReservationRejectedTooFull", full) =
            Leave(retry(w, g, p), p, "NotBackfilling")
    BY <1>0, <1>2 DEF Primary_react
  <2> QED
    BY <1>2, <2>1, ReactRetry
<1>3. CASE q.state[p] = "NotBackfilling"
  <2>1. PICK P : P = (<<q.state[p], "RemoteReservationRejectedTooFull">> \in Discarded)
    OBVIOUS
  <2>2. P
    BY <1>3, <2>1 DEF Discarded
  <2>3. Primary_react(w, g, p, "RemoteReservationRejectedTooFull", full) =
            Asserts(w, <<q.state[p], "RemoteReservationRejectedTooFull">> \in Discarded)
    BY <1>0, <1>3 DEF Primary_react
  <2> QED
    BY <2>1, <2>2, <2>3, ReactDiscard
<1> QED
  BY <1>2, <1>3

LEMMA TakeRemoteReserved ==
  ASSUME NEW ps, NEW lo, NEW re, NEW g, NEW l, NEW p, NEW q, NEW w,
         Stage(ps, lo, re, g, l, p, q, w), NEW full \in BOOLEAN,
         NEW a \in l.replicas, Counts(q, l, a), View(q, l, a) \in Asks
  PROVE  /\ q.state[p] = "WaitRemoteRecoveryReserved" =>
               Reacts(ps, lo, re, g, p, Primary_react(w, g, p, "RemoteRecoveryReserved", full))
         /\ q.state[p] = "WaitRemoteBackfillReserved" =>
               Reacts(ps, lo, re, g, p, Primary_react(w, g, p, "RemoteBackfillReserved", full))
<1>0. w.p = q
  BY StageIs
<1>1. ASSUME q.state[p] = "WaitRemoteRecoveryReserved"
      PROVE  Reacts(ps, lo, re, g, p, Primary_react(w, g, p, "RemoteRecoveryReserved", full))
  <2>1. Primary_react(w, g, p, "RemoteRecoveryReserved", full) = AskNext(w, g, p, "recovery")
    BY <1>0, <1>1 DEF Primary_react
  <2>2. PICK k : k = "recovery"
    OBVIOUS
  <2>3. k \in Kinds /\ q.state[p] = WaitState(k)
    BY <1>1, <2>2 DEF Kinds, WaitState
  <2> QED
    BY <2>1, <2>2, <2>3, ReactRemoteReserved
<1>2. ASSUME q.state[p] = "WaitRemoteBackfillReserved"
      PROVE  Reacts(ps, lo, re, g, p, Primary_react(w, g, p, "RemoteBackfillReserved", full))
  <2>1. Primary_react(w, g, p, "RemoteBackfillReserved", full) = AskNext(w, g, p, "backfill")
    BY <1>0, <1>2 DEF Primary_react
  <2>2. PICK k : k = "backfill"
    OBVIOUS
  <2>3. k \in Kinds /\ q.state[p] = WaitState(k)
    BY <1>2, <2>2 DEF Kinds, WaitState
  <2> QED
    BY <2>1, <2>2, <2>3, ReactRemoteReserved
<1> QED
  BY <1>1, <1>2

LEMMA TakeLateReserved ==
  ASSUME NEW ps, NEW lo, NEW re, NEW g, NEW l, NEW p, NEW q, NEW w,
         Stage(ps, lo, re, g, l, p, q, w), NEW full \in BOOLEAN, q.state[p] = "NotBackfilling"
  PROVE  Reacts(ps, lo, re, g, p, Primary_react(w, g, p, "RemoteBackfillReserved", full))
<1>0. w.p = q
  BY StageIs
<1>1. PICK P : P = (<<q.state[p], "RemoteBackfillReserved">> \in Discarded)
  OBVIOUS
<1>2. P
  BY <1>1 DEF Discarded
<1>3. Primary_react(w, g, p, "RemoteBackfillReserved", full) =
          Asserts(w, <<q.state[p], "RemoteBackfillReserved">> \in Discarded)
  BY <1>0 DEF Primary_react
<1> QED
  BY <1>1, <1>2, <1>3, ReactDiscard
=============================================================================
