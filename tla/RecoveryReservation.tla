------------------------- MODULE RecoveryReservation -------------------------
(* Recovery and backfill reservations (osd/PeeringState.cc): the substates  *)
(* of Active on the primary of each placement group and of ReplicaActive on *)
(* its peers, composed with the local and the remote AsyncReserver of every *)
(* OSD (Reservations.tla).  A primary takes a slot of its own OSD, then one *)
(* of each peer in order of OSD number; grants and preemptions come back    *)
(* through the Finisher, and MRecoveryReserve and MBackfillReserve carry    *)
(* them between OSDs.  All of these race with each other, with timers, and  *)
(* with a new interval, which every OSD learns of at its own time.          *)
(* An event that no state reacts to takes the state machine to Crashed,     *)
(* which aborts the OSD.                                                    *)
(*                                                                          *)
(* Peering itself is a single step (Activate).  Left out: unfound objects,  *)
(* forced priorities, peers without RECOVERY_RESERVATION_2.                 *)
EXTENDS Reservations

CONSTANTS OSD,          \* OSD numbers, in their order
          Layouts,      \* the placements a behaviour may start from
          MaxBackfills, \* osd_max_backfills
          MaxInterval,  \* bound: intervals of a placement group
          MaxScans,     \* bound: ranges of a backfill that are scanned
          MaxFull       \* bound: times an OSD is found too full

VARIABLES lay,     \* pg -> its primary, its replicas, the backfill targets among them,
                   \*       the work to do and its priorities, and what may happen
                   \*       to it in the model: "scan", "full", "interval"
          pgs,     \* pg -> what its instances on the OSDs know, and its messages
          local,   \* osd -> its local_reserver
          remote,  \* osd -> its remote_reserver
          fulls,   \* times an OSD was too full so far
          crashed, \* an OSD aborted
          hasty    \* history: a backfill was tried again too soon (TooSoon)

vars == <<lay, pgs, local, remote, fulls, crashed, hasty>>

PG == Item

States == {"Peering", "Activating", "WaitLocalRecoveryReserved",
           "WaitRemoteRecoveryReserved", "Recovering", "NotRecovering",
           "WaitLocalBackfillReserved", "WaitRemoteBackfillReserved", "Backfilling",
           "NotBackfilling", "Clean",
           "Stray", "RepNotRecovering", "RepWaitRecoveryReserved",
           "RepWaitBackfillReserved", "RepRecovering"}

Events == {"DoRecovery", "RequestBackfill", "AllReplicasRecovered", "Backfilled",
           "LocalRecoveryReserved", "DeferRecovery",
           "LocalBackfillReserved", "DeferBackfill",
           "RequestRecoveryPrio", "RequestBackfillPrio", "RecoveryDone",
           "RemoteReservationCanceled", "RemoteRecoveryReserved",
           "RemoteBackfillReserved", "RemoteRecoveryPreempted",
           "RemoteBackfillPreempted", "BackfillTooFull",
           "RemoteReservationRejectedTooFull", "RemoteReservationRevoked",
           "RemoteReservationRevokedTooFull"}

Interval == 1 .. MaxInterval

ASSUME RecoveryReservationAssumption ==
    /\ OSD \subseteq Nat
    /\ IsFiniteSet(OSD)
    /\ MaxBackfills \in Nat \ {0}
    /\ MaxInterval \in Nat \ {0}
    /\ MaxScans \in Nat
    /\ MaxFull \in Nat
    /\ Context = [pg : PG, ev : Events, epoch : Interval]
    /\ \A l \in Layouts : \A g \in PG :
          /\ l[g].primary \in OSD
          /\ l[g].replicas \subseteq OSD \ {l[g].primary}
          /\ l[g].targets \subseteq l[g].replicas
          /\ l[g].todo \subseteq {"recovery", "backfill"}
          /\ l[g].targets # {} <=> "backfill" \in l[g].todo
          /\ l[g].may \subseteq {"scan", "full", "interval"}
          /\ l[g].recovery \in Prio
          /\ l[g].backfill \in Prio

Primary(g) == lay[g].primary

IsPrimary(g, o) == o = Primary(g)

(* The peers in the order of set<pg_shard_t>: the k-th has k - 1 before it. *)
Ordered(S) ==
    [k \in 1 .. Cardinality(S) |-> CHOOSE x \in S : Cardinality({y \in S : y < x}) = k - 1]

(* Mutant: the peers in the order of each group's acting set.               *)
Remotes_acting(g, kind) ==
    LET s == Ordered(IF kind = "recovery" THEN lay[g].replicas ELSE lay[g].targets) IN
    IF g % 2 = 1 THEN s ELSE [k \in 1 .. Len(s) |-> s[Len(s) + 1 - k]]

Remotes(g, kind) ==
    Ordered(IF kind = "recovery" THEN lay[g].replicas ELSE lay[g].targets)

----------------------------------------------------------------------------
(* do_queues to its end: the lock is not given up between its iterations.   *)
(* An iteration takes an item off in_progress or off its queue, so neither  *)
(* loop has more iterations than there are items; once a loop has ended,    *)
(* further iterations change nothing.                                       *)
Rounds == Cardinality(Item)

shed(r) == IF MustShed(r) THEN preempt_one(r) ELSE r

serve(r) ==
    IF ~MayServe(r) THEN r
    ELSE LET s == IF Outranked(r) THEN preempt_one(r) ELSE r IN
         IF Full(s) THEN s ELSE grant(s)

do_shed(r) ==
    LET s[n \in 0 .. Rounds] == IF n = 0 THEN r ELSE shed(s[n - 1]) IN s[Rounds]

do_serve(r) ==
    LET s[n \in 0 .. Rounds] == IF n = 0 THEN r ELSE serve(s[n - 1]) IN s[Rounds]

do_queues(r) == do_serve(do_shed(r))

----------------------------------------------------------------------------
(* A handler works on w = [p, l, r, bad]: the placement group and the two   *)
(* reservers of the OSD o it runs on.                                       *)
To(w, o, s) == [w EXCEPT !.p.state[o] = s]

Tell(w, S, ev, o) ==
    [w EXCEPT !.p.toReplica = [x \in OSD |-> IF x \in S
                                             THEN Append(@[x], [ev |-> ev, epoch |-> w.p.epoch[o]])
                                             ELSE @[x]]]

Reply(w, o, ev) ==
    [w EXCEPT !.p.toPrimary[o] = Append(@, [ev |-> ev, epoch |-> w.p.epoch[o]])]

schedule_event_after(w, o, ev, delay) ==
    [w EXCEPT !.p.timers = @ \cup {[ev |-> ev, epoch |-> w.p.epoch[o], delay |-> delay]}]

(* request_reservation asserts that the item has no reservation.            *)
request_local(w, g, o, prio, on_grant, on_preempt) ==
    LET C(ev) == [pg |-> g, ev |-> ev, epoch |-> w.p.epoch[o]] IN
    IF HasReservation(w.l, g) THEN [w EXCEPT !.bad = TRUE]
    ELSE [w EXCEPT !.l = do_queues(request_reservation(@, g, C(on_grant), prio, C(on_preempt)))]

request_remote(w, g, o, prio, on_grant, on_preempt) ==
    LET C(ev) == [pg |-> g, ev |-> ev, epoch |-> w.p.epoch[o]] IN
    IF HasReservation(w.r, g) THEN [w EXCEPT !.bad = TRUE]
    ELSE [w EXCEPT !.r = do_queues(request_reservation(@, g, C(on_grant), prio, C(on_preempt)))]

cancel_local(w, g) == [w EXCEPT !.l = do_queues(cancel_reservation(@, g))]

cancel_remote(w, g) == [w EXCEPT !.r = do_queues(cancel_reservation(@, g))]

----------------------------------------------------------------------------
(* The primary.                                                             *)
WaitLocalRecoveryReserved(w, g, o, full) ==
    IF full
    THEN schedule_event_after(To(w, o, "NotRecovering"), o, "DoRecovery", "retry")
    ELSE request_local(To(w, o, "WaitLocalRecoveryReserved"), g, o, lay[g].recovery,
                       "LocalRecoveryReserved", "DeferRecovery")

WaitLocalBackfillReserved(w, g, o) ==
    request_local(To(w, o, "WaitLocalBackfillReserved"), g, o, lay[g].backfill,
                  "LocalBackfillReserved", "DeferBackfill")

(* Each grant asks the next peer; the last one starts the work.             *)
AskNext(w, g, o, kind) ==
    LET peers == Remotes(g, kind) IN
    IF w.p.it < Len(peers)
    THEN [Tell(w, {peers[w.p.it + 1]},
               IF kind = "recovery" THEN "RequestRecoveryPrio" ELSE "RequestBackfillPrio", o)
          EXCEPT !.p.it = @ + 1]
    ELSE [To(w, o, IF kind = "recovery" THEN "Recovering" ELSE "Backfilling")
          EXCEPT !.p.working = TRUE]

WaitRemoteReserved(w, g, o, kind) ==
    AskNext([To(w, o, IF kind = "recovery" THEN "WaitRemoteRecoveryReserved"
                      ELSE "WaitRemoteBackfillReserved") EXCEPT !.p.it = 0], g, o, kind)

release_reservations(w, g, o) == Tell(w, lay[g].replicas, "RecoveryDone", o)

backfill_release_reservations(w, g, o) ==
    Tell(cancel_local(w, g), lay[g].targets, "RemoteReservationCanceled", o)

cancel_backfill(w, g, o) ==
    [backfill_release_reservations(w, g, o) EXCEPT !.p.waiting_on_backfill = {}]

(* Leaving Recovering or Backfilling clears the flag that recovery work     *)
(* looks at.                                                                *)
Leave(w, o, s) == [To(w, o, s) EXCEPT !.p.it = 0, !.p.working = FALSE]

Needs(w, kind) == kind \in w.p.todo

Asserts(w, P) == [w EXCEPT !.bad = @ \/ ~P]

Recovered(w, o) == Asserts(Leave(w, o, "Clean"), ~Needs(w, "recovery"))

(* Mutant: the primary keeps its own slot while it waits.                   *)
retry_unreleased(w, g, o) ==
    LET peers == Remotes(g, "backfill") IN
    schedule_event_after(
        Tell(w, {peers[k] : k \in 1 .. w.p.it}, "RemoteReservationCanceled", o),
        o, "RequestBackfill", "retry")

retry(w, g, o) ==
    LET peers == Remotes(g, "backfill") IN
    schedule_event_after(
        Tell(cancel_local(w, g), {peers[k] : k \in 1 .. w.p.it},
             "RemoteReservationCanceled", o),
        o, "RequestBackfill", "retry")

(* Reactions that discard the event: those of Active and ReplicaActive      *)
(* stand for all of their substates that do not react themselves.           *)
ActiveStates ==
    {"Activating", "WaitLocalRecoveryReserved", "WaitRemoteRecoveryReserved", "Recovering",
     "NotRecovering", "WaitLocalBackfillReserved", "WaitRemoteBackfillReserved",
     "Backfilling", "NotBackfilling", "Clean"}

ReplicaStates ==
    {"RepNotRecovering", "RepWaitRecoveryReserved", "RepWaitBackfillReserved", "RepRecovering"}

(* Mutant: without "my reservation completion raced with a RELEASE".        *)
Discarded_unraced ==
    (ActiveStates \X {"Backfilled", "DeferRecovery", "DeferBackfill", "DoRecovery",
                      "RemoteReservationRevoked", "RemoteReservationRevokedTooFull"})
    \cup ({"NotBackfilling"} \X {"RemoteBackfillReserved", "RemoteReservationRejectedTooFull"})
    \cup (ReplicaStates \X {"RecoveryDone", "DeferRecovery", "DeferBackfill",
                            "RemoteRecoveryPreempted", "RemoteBackfillPreempted"})
    \cup {<<"RepNotRecovering", "RemoteReservationCanceled">>, <<"Stray", "RecoveryDone">>}

Discarded ==
    (ActiveStates \X {"Backfilled", "DeferRecovery", "DeferBackfill", "DoRecovery",
                      "RemoteReservationRevoked", "RemoteReservationRevokedTooFull"})
    \cup ({"NotBackfilling"} \X {"RemoteBackfillReserved", "RemoteReservationRejectedTooFull"})
    \cup {<<"WaitLocalBackfillReserved", "RemoteBackfillReserved">>}
    \cup (ReplicaStates \X {"RecoveryDone", "DeferRecovery", "DeferBackfill",
                            "RemoteRecoveryPreempted", "RemoteBackfillPreempted"})
    \cup ({"RepNotRecovering"} \X {"RemoteReservationCanceled", "RemoteRecoveryReserved",
                                   "RemoteReservationRejectedTooFull", "RemoteBackfillReserved"})
    \cup {<<"Stray", "RecoveryDone">>}

(* The reactions of the primary: the new w for an event in a state.  full:  *)
(* some OSD of the group is over the full ratio.                            *)
Primary_react(w, g, o, ev, full) ==
    LET s == w.p.state[o] IN
    CASE ev = "DoRecovery" /\ s \in {"Activating", "NotRecovering", "Clean"} ->
            WaitLocalRecoveryReserved(w, g, o, full)
      [] ev = "LocalRecoveryReserved" /\ s = "WaitLocalRecoveryReserved" ->
            WaitRemoteReserved(w, g, o, "recovery")
      [] ev = "RemoteRecoveryReserved" /\ s = "WaitRemoteRecoveryReserved" ->
            AskNext(w, g, o, "recovery")
      [] ev = "AllReplicasRecovered" /\ s = "Activating" -> Recovered(w, o)
      [] ev = "AllReplicasRecovered" /\ s = "Recovering" ->
            Recovered(cancel_local(release_reservations(w, g, o), g), o)
      [] ev = "RequestBackfill" /\ s = "Recovering" ->
            WaitLocalBackfillReserved(
                Asserts(Leave(cancel_local(release_reservations(w, g, o), g), o, s),
                        ~Needs(w, "recovery")), g, o)
      [] ev = "DeferRecovery" /\ s = "Recovering" ->
            IF ~w.p.working THEN w
            ELSE schedule_event_after(
                     Leave(release_reservations(cancel_local(w, g), g, o), o, "NotRecovering"),
                     o, "DoRecovery", "none")
      [] ev = "RequestBackfill" /\ s \in {"Activating", "NotBackfilling"} ->
            WaitLocalBackfillReserved(w, g, o)
      [] ev = "LocalBackfillReserved" /\ s = "WaitLocalBackfillReserved" ->
            WaitRemoteReserved(w, g, o, "backfill")
      [] ev = "RemoteBackfillReserved" /\ s = "WaitRemoteBackfillReserved" ->
            AskNext(w, g, o, "backfill")
      [] ev \in {"RemoteReservationRejectedTooFull", "RemoteReservationRevoked"}
            /\ s = "WaitRemoteBackfillReserved" -> Leave(retry(w, g, o), o, "NotBackfilling")
      [] ev = "Backfilled" /\ s = "Backfilling" ->
            Recovered(backfill_release_reservations(w, g, o), o)
      [] ev = "DeferBackfill" /\ s = "Backfilling" ->
            schedule_event_after(
                Leave(cancel_backfill(w, g, o), o, "NotBackfilling"),
                o, "RequestBackfill", "none")
      [] ev \in {"RemoteReservationRevokedTooFull", "RemoteReservationRejectedTooFull"}
            /\ s = "Backfilling" ->
            schedule_event_after(
                Leave(cancel_backfill(w, g, o), o, "NotBackfilling"),
                o, "RequestBackfill", "retry")
      [] ev = "RemoteReservationRevoked" /\ s = "Backfilling" ->
            IF Needs(w, "backfill")
            THEN WaitLocalBackfillReserved(
                     Leave(cancel_backfill(w, g, o), o, s), g, o)
            ELSE cancel_backfill(w, g, o)
      [] OTHER -> Asserts(w, <<s, ev>> \in Discarded)

(* The reactions of a peer.  A preempted peer says so and stays where it is *)
(* until the primary releases it.                                           *)
Replica_react(w, g, o, ev, full) ==
    LET s == w.p.state[o] IN
    CASE ev = "RequestRecoveryPrio" /\ s = "RepNotRecovering" ->
            request_remote(To(w, o, "RepWaitRecoveryReserved"), g, o, lay[g].recovery,
                           "RemoteRecoveryReserved", "RemoteRecoveryPreempted")
      [] ev = "RequestBackfillPrio" /\ s = "RepNotRecovering" ->
            IF full
            THEN cancel_remote(Reply(w, o, "RemoteReservationRejectedTooFull"), g)
            ELSE request_remote(To(w, o, "RepWaitBackfillReserved"), g, o, lay[g].backfill,
                                "RemoteBackfillReserved", "RemoteBackfillPreempted")
      [] ev = "RemoteRecoveryReserved" /\ s = "RepWaitRecoveryReserved" ->
            Reply(To(w, o, "RepRecovering"), o, "RemoteRecoveryReserved")
      [] ev = "RemoteBackfillReserved" /\ s = "RepWaitBackfillReserved" ->
            Reply(To(w, o, "RepRecovering"), o, "RemoteBackfillReserved")
      [] ev = "RemoteReservationCanceled"
            /\ s \in {"RepWaitRecoveryReserved", "RepWaitBackfillReserved", "RepRecovering"} ->
            cancel_remote(To(w, o, "RepNotRecovering"), g)
      [] ev = "RecoveryDone" /\ s = "RepRecovering" ->
            cancel_remote(To(w, o, "RepNotRecovering"), g)
      [] ev = "RemoteRecoveryPreempted" /\ s = "RepRecovering" -> Reply(w, o, "DeferRecovery")
      [] ev = "RemoteBackfillPreempted" /\ s = "RepRecovering" ->
            Reply(w, o, "RemoteReservationRevoked")
      [] ev = "BackfillTooFull" /\ s = "RepRecovering" ->
            Reply(w, o, "RemoteReservationRevokedTooFull")
      [] OTHER -> Asserts(w, <<s, ev>> \in Discarded)

----------------------------------------------------------------------------
(* Mutant: no event is old.                                                 *)
old_peering_evt_never(q, o, e) == FALSE

old_peering_evt(q, o, e) == e.epoch < q.epoch[o]

(* do_peering_event: an event of an earlier interval is dropped.  q, l, r:  *)
(* the group and the reservers of o without the event.                      *)
do_peering_event(g, o, e, q, l, r, full) ==
    LET w == [p |-> q, l |-> l, r |-> r, bad |-> FALSE]
        x == IF old_peering_evt(q, o, e) THEN w
             ELSE IF IsPrimary(g, o) THEN Primary_react(w, g, o, e.ev, full)
             ELSE Replica_react(w, g, o, e.ev, full) IN
    /\ e.epoch <= q.epoch[o]
    /\ full => /\ "full" \in lay[g].may
               /\ fulls < MaxFull
               /\ e.ev \in {"DoRecovery", "RequestBackfillPrio"}
    /\ pgs' = [pgs EXCEPT ![g] = x.p]
    /\ local' = [local EXCEPT ![o] = x.l]
    /\ remote' = [remote EXCEPT ![o] = x.r]
    /\ fulls' = IF full THEN fulls + 1 ELSE fulls
    /\ crashed' = (crashed \/ x.bad)
    /\ UNCHANGED lay

(* The Finisher completes a callback of one of the reservers.  The callback *)
(* only queues the event; the model handles it in the same step, since the  *)
(* group's queue keeps the order and what the event meets is decided when   *)
(* it is handled.                                                           *)
FinishLocal(o) ==
    LET c == Head(local[o].f) IN
    /\ local[o].f # <<>>
    /\ do_peering_event(c.pg, o, c, pgs[c.pg], [local[o] EXCEPT !.f = Tail(@)],
                        remote[o], FALSE)
    /\ UNCHANGED hasty

FinishRemote(o) ==
    LET c == Head(remote[o].f) IN
    /\ remote[o].f # <<>>
    /\ do_peering_event(c.pg, o, c, pgs[c.pg], local[o],
                        [remote[o] EXCEPT !.f = Tail(@)], FALSE)
    /\ UNCHANGED hasty

(* A message arrives; one of an interval its receiver does not know yet     *)
(* waits until it does.                                                     *)
ToReplica(g, o, full) ==
    /\ pgs[g].toReplica[o] # <<>>
    /\ do_peering_event(g, o, Head(pgs[g].toReplica[o]),
                        [pgs[g] EXCEPT !.toReplica[o] = Tail(@)], local[o], remote[o], full)
    /\ UNCHANGED hasty

ToPrimary(g, o) ==
    /\ pgs[g].toPrimary[o] # <<>>
    /\ do_peering_event(g, Primary(g), Head(pgs[g].toPrimary[o]),
                        [pgs[g] EXCEPT !.toPrimary[o] = Tail(@)],
                        local[Primary(g)], remote[Primary(g)], FALSE)
    /\ UNCHANGED hasty

(* An event the instance on o queued for itself.                            *)
Own(g, o, full) ==
    /\ pgs[g].own[o] # <<>>
    /\ do_peering_event(g, o, Head(pgs[g].own[o]),
                        [pgs[g] EXCEPT !.own[o] = Tail(@)], local[o], remote[o], full)
    /\ UNCHANGED hasty

(* A peer has still to answer a request of the present interval: the        *)
(* request or the answer is on its way, the peer waits for its slot, or its *)
(* grant is with the Finisher.                                              *)
BackfillAnswers == {"RemoteBackfillReserved", "RemoteReservationRejectedTooFull"}

OwesAnswer(g, o) ==
    LET q == pgs[g]
        now == q.epoch[Primary(g)]
        Of(E, m) == m.ev \in E /\ m.epoch = now IN
    \/ \E m \in Elems(q.toReplica[o]) : Of({"RequestBackfillPrio"}, m)
    \/ \E m \in Elems(q.toPrimary[o]) : Of(BackfillAnswers, m)
    \/ \E c \in Elems(remote[o].f) : c.pg = g /\ Of(BackfillAnswers, c)
    \/ q.state[o] = "RepWaitBackfillReserved" /\ q.epoch[o] = now

(* The time that retry() leaves before the next attempt has passed although *)
(* an answer to the last one is still to come.  Nothing in the code rules   *)
(* this out but the length of osd_backfill_retry_interval, 30 seconds, and  *)
(* an answer that comes after it counts for the new attempt.                *)
TooSoon(g, t) ==
    /\ t.ev = "RequestBackfill" /\ t.delay = "retry"
    /\ t.epoch = pgs[g].epoch[Primary(g)]
    /\ \E o \in lay[g].replicas : OwesAnswer(g, o)

(* A scheduled event comes due.                                             *)
Timer(g, t, full) ==
    /\ t \in pgs[g].timers
    /\ do_peering_event(g, Primary(g), t, [pgs[g] EXCEPT !.timers = @ \ {t}],
                        local[Primary(g)], remote[Primary(g)], full)
    /\ hasty' = (hasty \/ TooSoon(g, t))

----------------------------------------------------------------------------
(* The work itself.                                                         *)
Change(g, q) == pgs' = [pgs EXCEPT ![g] = q] /\ UNCHANGED <<lay, local, remote, crashed, hasty>>

Kind(s) == IF s = "Recovering" THEN "recovery" ELSE "backfill"

AtWork(g) == pgs[g].state[Primary(g)] \in {"Recovering", "Backfilling"} /\ pgs[g].working

(* recover_backfill and what follows it wait for the scans.                 *)
Scanning(g) == pgs[g].state[Primary(g)] = "Backfilling" /\ pgs[g].waiting_on_backfill # {}

(* The last object is recovered, or the last target is complete.  Targets   *)
(* complete together here: the RecoveryDone with which a complete target    *)
(* gives back its own slot, on OP_BACKFILL_FINISH, is left out, and its     *)
(* slot goes with the RELEASE of the primary.                               *)
LastObject(g) ==
    LET k == Kind(pgs[g].state[Primary(g)]) IN
    /\ AtWork(g)
    /\ ~Scanning(g)
    /\ k \in pgs[g].todo
    /\ Change(g, [pgs[g] EXCEPT !.todo = @ \ {k}])
    /\ UNCHANGED fulls

(* start_recovery_ops finds nothing left to do: it clears the flag and      *)
(* queues the event that moves the state machine on.                        *)
start_recovery_ops(g) ==
    LET o == Primary(g)
        k == Kind(pgs[g].state[o])
        ev == IF k = "backfill" THEN "Backfilled"
              ELSE IF "backfill" \in pgs[g].todo THEN "RequestBackfill"
              ELSE "AllReplicasRecovered" IN
    /\ AtWork(g)
    /\ ~Scanning(g)
    /\ k \notin pgs[g].todo
    /\ Change(g, [pgs[g] EXCEPT !.working = FALSE,
                                !.own[o] = Append(@, [ev |-> ev, epoch |-> pgs[g].epoch[o]])])
    /\ UNCHANGED fulls

(* recover_backfill asks some of the targets to scan a range.  Scans are    *)
(* ordinary operations: peering events overtake them.  Bound: one request   *)
(* and one digest are on their way to and from a target.                    *)
send_scan(g, S) ==
    LET q == pgs[g] IN
    /\ "scan" \in lay[g].may
    /\ AtWork(g)
    /\ q.state[Primary(g)] = "Backfilling"
    /\ q.waiting_on_backfill = {}
    /\ "backfill" \in q.todo
    /\ \A o \in S : q.scan[o] = 0 /\ q.digest[o] = 0
    /\ q.scans < MaxScans
    /\ Change(g, [q EXCEPT !.scan = [o \in OSD |-> IF o \in S THEN q.epoch[Primary(g)] ELSE @[o]],
                           !.waiting_on_backfill = S,
                           !.scans = @ + 1])
    /\ UNCHANGED fulls

(* The target scans and answers, or finds itself too full and does not.     *)
do_scan(g, o, full) ==
    LET q == pgs[g] IN
    /\ q.scan[o] \in 1 .. q.epoch[o]
    /\ full => fulls < MaxFull /\ q.scan[o] = q.epoch[o]
    /\ Change(g, [q EXCEPT !.scan[o] = 0,
                           !.digest[o] = IF full \/ q.scan[o] < q.epoch[o] THEN 0 ELSE q.epoch[o],
                           !.own[o] = IF full
                                      THEN Append(@, [ev |-> "BackfillTooFull",
                                                      epoch |-> q.epoch[o]])
                                      ELSE @])
    /\ fulls' = IF full THEN fulls + 1 ELSE fulls

scan_digest(g, o) ==
    LET q == pgs[g]
        p == Primary(g) IN
    /\ q.digest[o] \in 1 .. q.epoch[p]
    /\ Change(g, [q EXCEPT !.digest[o] = 0,
                           !.waiting_on_backfill = IF q.digest[o] = q.epoch[p] THEN @ \ {o} ELSE @])
    /\ UNCHANGED fulls

----------------------------------------------------------------------------
(* A new interval, and the instance on o learning of it: leaving Active     *)
(* or ReplicaActive cancels the reservation.                                *)
NewInterval(g) ==
    /\ "interval" \in lay[g].may
    /\ pgs[g].interval < MaxInterval
    /\ Change(g, [pgs[g] EXCEPT !.interval = @ + 1])
    /\ UNCHANGED fulls

NeedsReset(g, o) ==
    o \in {Primary(g)} \cup lay[g].replicas /\ pgs[g].epoch[o] < pgs[g].interval

Reset(g, o) ==
    LET q == pgs[g]
        w == [p |-> [q EXCEPT !.epoch[o] = q.interval], l |-> local[o], r |-> remote[o],
              bad |-> FALSE]
        x == IF IsPrimary(g, o) THEN [cancel_local(Leave(w, o, "Peering"), g) EXCEPT !.p.waiting_on_backfill = {}]
             ELSE cancel_remote(To(w, o, "Stray"), g) IN
    /\ NeedsReset(g, o)
    /\ pgs' = [pgs EXCEPT ![g] = x.p]
    /\ local' = [local EXCEPT ![o] = x.l]
    /\ remote' = [remote EXCEPT ![o] = x.r]
    /\ UNCHANGED <<lay, fulls, crashed, hasty>>

(* Peering, as a single step: every instance is in the same interval; the   *)
(* peers are activated and the primary queues what the group needs.         *)
Activate(g) ==
    LET q == pgs[g]
        o == Primary(g)
        ev == IF "recovery" \in q.todo THEN "DoRecovery"
              ELSE IF "backfill" \in q.todo THEN "RequestBackfill"
              ELSE "AllReplicasRecovered" IN
    /\ q.state[o] = "Peering"
    /\ \A x \in lay[g].replicas : q.state[x] = "Stray" /\ q.epoch[x] = q.epoch[o]
    /\ Change(g, [q EXCEPT !.state = [x \in OSD |-> IF x = o THEN "Activating"
                                                    ELSE IF x \in lay[g].replicas
                                                    THEN "RepNotRecovering" ELSE @[x]],
                           !.own[o] = Append(@, [ev |-> ev, epoch |-> q.epoch[o]])])
    /\ UNCHANGED fulls

----------------------------------------------------------------------------
NewPG(l) ==
    [state |-> [o \in OSD |-> IF o = l.primary THEN "Peering" ELSE "Stray"],
     epoch |-> [o \in OSD |-> 1], interval |-> 1, it |-> 0, working |-> FALSE,
     todo |-> l.todo, timers |-> {}, waiting_on_backfill |-> {}, scans |-> 0,
     scan |-> [o \in OSD |-> 0], digest |-> [o \in OSD |-> 0],
     toReplica |-> [o \in OSD |-> <<>>], toPrimary |-> [o \in OSD |-> <<>>],
     own |-> [o \in OSD |-> <<>>]]

Init == /\ lay \in Layouts
        /\ pgs = [g \in PG |-> NewPG(lay[g])]
        /\ local = [o \in OSD |-> NewReserver(MaxBackfills, 0)]
        /\ remote = [o \in OSD |-> NewReserver(MaxBackfills, 0)]
        /\ fulls = 0
        /\ crashed = FALSE
        /\ hasty = FALSE

Finish(o) == FinishLocal(o) \/ FinishRemote(o)

Deliver(g, o) ==
    \/ ToPrimary(g, o) \/ scan_digest(g, o)
    \/ \E full \in BOOLEAN : ToReplica(g, o, full) \/ Own(g, o, full) \/ do_scan(g, o, full)

Due(g) == \E t \in pgs[g].timers, full \in BOOLEAN : Timer(g, t, full)

Work(g) == LastObject(g) \/ start_recovery_ops(g) \/ Activate(g)

Progress == /\ ~crashed
            /\ \/ \E o \in OSD : Finish(o)
               \/ \E g \in PG, o \in OSD : Deliver(g, o) \/ Reset(g, o)
               \/ \E g \in PG : Due(g) \/ Work(g)

Next == \/ Progress
        \/ /\ ~crashed
           /\ \E g \in PG : NewInterval(g) \/ \E S \in (SUBSET lay[g].targets) \ {{}} : send_scan(g, S)

(* When Progress is enabled, which TLC finds too slowly by itself.          *)
Arrived(g, s, o) == s # <<>> /\ Head(s).epoch <= pgs[g].epoch[o]

CanActivate(g) ==
    /\ pgs[g].state[Primary(g)] = "Peering"
    /\ \A x \in lay[g].replicas :
          pgs[g].state[x] = "Stray" /\ pgs[g].epoch[x] = pgs[g].epoch[Primary(g)]

CanProgress ==
    /\ ~crashed
    /\ \/ \E o \in OSD : local[o].f # <<>> \/ remote[o].f # <<>>
       \/ \E g \in PG, o \in OSD :
             \/ pgs[g].own[o] # <<>>
             \/ Arrived(g, pgs[g].toReplica[o], o)
             \/ Arrived(g, pgs[g].toPrimary[o], Primary(g))
             \/ pgs[g].scan[o] \in 1 .. pgs[g].epoch[o]
             \/ pgs[g].digest[o] \in 1 .. pgs[g].epoch[Primary(g)]
             \/ NeedsReset(g, o)
       \/ \E g \in PG : pgs[g].timers # {} \/ (AtWork(g) /\ ~Scanning(g)) \/ CanActivate(g)

(* The Finisher and the worker threads run, messages arrive, timers come    *)
(* due and recovery work ends: as long as one of these can happen, one      *)
(* does.  This is WF_vars(Progress) with CanProgress for ENABLED.           *)
Fairness == []<>~CanProgress \/ []<><<Progress>>_vars

Spec == Init /\ [][Next]_vars /\ Fairness

----------------------------------------------------------------------------
Event == [ev : Events, epoch : Interval]

PGRecord ==
    [state : [OSD -> States], epoch : [OSD -> Interval], interval : Interval,
     it : 0 .. Cardinality(OSD), working : BOOLEAN, todo : SUBSET {"recovery", "backfill"},
     timers : SUBSET [ev : {"DoRecovery", "RequestBackfill"}, epoch : Interval,
                      delay : {"none", "retry"}],
     waiting_on_backfill : SUBSET OSD, scans : 0 .. MaxScans,
     scan : [OSD -> 0 .. MaxInterval], digest : [OSD -> 0 .. MaxInterval],
     toReplica : [OSD -> Seq(Event)], toPrimary : [OSD -> Seq(Event)], own : [OSD -> Seq(Event)]]

TypeOK ==
    /\ lay \in Layouts
    /\ pgs \in [PG -> PGRecord]
    /\ local \in [OSD -> Reserver]
    /\ remote \in [OSD -> Reserver]
    /\ fulls \in 0 .. MaxFull
    /\ crashed \in BOOLEAN
    /\ hasty \in BOOLEAN

(* No OSD aborts: no event reaches a state that has no reaction to it       *)
(* ("we got a bad state machine event"), no slot is requested twice, and    *)
(* no group is taken for recovered while it misses objects; in any order of *)
(* grants, preemptions, releases, rejections and new intervals in which no  *)
(* backfill was tried again too soon.  The condition is an assumption on    *)
(* time: the code waits osd_backfill_retry_interval and checks nothing.     *)
(* Without it the second of two rejections of one attempt finds the primary *)
(* at the next one, in WaitLocalBackfillReserved, which has no reaction to  *)
(* it.                                                                      *)
NoCrash == hasty \/ ~crashed

(* No slot is lost: a reservation belongs to an instance that will release  *)
(* it, on the primary from WaitLocal... to the end of the work, on a peer   *)
(* from its request until it is released.  A slot kept in any other state   *)
(* would never be freed and would block every other group of the OSD.       *)
NoLeak ==
    \A g \in PG, o \in OSD :
        /\ HasReservation(local[o], g) =>
              IsPrimary(g, o) /\ pgs[g].state[o] \in
                  {"WaitLocalRecoveryReserved", "WaitRemoteRecoveryReserved", "Recovering",
                   "WaitLocalBackfillReserved", "WaitRemoteBackfillReserved", "Backfilling"}
        /\ HasReservation(remote[o], g) =>
              o \in lay[g].replicas /\ pgs[g].state[o] \in
                  {"RepWaitRecoveryReserved", "RepWaitBackfillReserved", "RepRecovering"}

(* A primary that has objects to recover or to copy works only while every  *)
(* peer it counts on has granted it a slot in this interval and was not     *)
(* released.  The grants carry no sender and no attempt: one of an earlier  *)
(* interval, of a request that was cancelled or preempted, or of another    *)
(* peer must not be taken for the one waited for.  One of an earlier        *)
(* attempt is, when the next attempt starts before it has come: that is     *)
(* what hasty leaves out, here as in NoCrash.  (A peer that already is in a *)
(* newer interval will make the primary start over.)                        *)
GrantsAreReal ==
    hasty \/ \A g \in PG :
        LET k == Kind(pgs[g].state[Primary(g)]) IN
        AtWork(g) /\ k \in pgs[g].todo => \A o \in Elems(Remotes(g, k)) :
            \/ pgs[g].epoch[o] > pgs[g].epoch[Primary(g)]
            \/ pgs[g].state[o] = "RepRecovering"

(* "We always grab the local reservation first, to prevent a circular       *)
(* dependency.  We grab remote reservations in order of OSD number for the  *)
(* same reason": every group gets all its slots in the end and is clean,    *)
(* unless a backfill is tried again too soon.                               *)
AllClean ==
    []~(hasty \/ crashed) =>
        <>[](\A g \in PG : pgs[g].state[Primary(g)] = "Clean" /\ pgs[g].todo = {})
=============================================================================
