------------------------------ MODULE Peering ------------------------------
(***************************************************************************)
(* Peering of one placement group of a replicated pool                     *)
(* (osd/PeeringState.cc, osd/PGLog.cc, PastIntervals in osd/osd_types.cc): *)
(* after every change of the acting set its primary finds out what earlier *)
(* intervals may have acknowledged, chooses an authoritative log, brings   *)
(* the replicas in line with it and goes active.                           *)
(*                                                                         *)
(* maps is the history of OSD maps the monitors have published.  pg[o] is  *)
(* the group on OSD o: Durable names the fields that are written to disk,  *)
(* disk[o] is what the store has committed of them, the others are lost in *)
(* a crash.  net[i][j] is the session from i to j.  acked are the writes   *)
(* that have been acknowledged to clients, with the epoch it was done in;  *)
(* left is the cluster, with what is left of its bounds.                   *)
(*                                                                         *)
(* A log is the set of its entries' versions <<epoch, version>>.  Logs are *)
(* never trimmed and objects are not modelled, so nothing is backfilled    *)
(* and the chosen acting set is the up set.                                *)
(***************************************************************************)
EXTENDS Integers, Sequences, FiniteSets, FiniteSetsExt, TLC

CONSTANTS
    OSD,         \* the OSDs, numbers
    Size,        \* pool size
    Scenarios    \* the clusters to look at

(* A cluster has its OSDs, those that are up at first, those that have an  *)
(* old copy of the group, the pool's min_size, and bounds: the changes, of *)
(* which the n-th takes one of the n-th set of OSDs down or up; the number *)
(* of writes and of crashes; and how far an OSD may be behind when the     *)
(* next map is published.                                                  *)
ASSUME PeeringAssumption ==
    /\ OSD \subseteq Nat /\ IsFiniteSet(OSD) /\ Size \in Nat \ {0}
    /\ \A c \in Scenarios : /\ c.up \union c.old \subseteq c.osds /\ c.osds \subseteq OSD
                            /\ Cardinality(c.up) >= Size
                            /\ c.min_size \in 1 .. Size
                            /\ c.changes \in Seq(SUBSET OSD)
                            /\ {c.writes, c.crashes, c.lag} \subseteq Nat

VARIABLES maps, pg, disk, net, acked, left
vars == <<maps, pg, disk, net, acked, left>>

----------------------------------------------------------------------------
(* Versions, and the OSD map as the group sees it.                         *)

Zero == <<0, 0>>
Less(a, b) == a[1] < b[1] \/ (a[1] = b[1] /\ a[2] < b[2])
Newest(S) == IF S = {} THEN Zero ELSE CHOOSE a \in S : \A b \in S : ~Less(a, b)
Larger(a, b) == Newest({a, b})

Latest == Len(maps)
Up(e) == maps[e].up

(* The placement function, in place of CRUSH: the first Size OSDs that are *)
(* up.                                                                     *)
Placed(up) == {o \in up : Cardinality({q \in up : q < o}) < Size}

Acting(e) == maps[e].acting
IsPrimary(o, e) == o \in Acting(e) /\ \A q \in Acting(e) : o <= q

is_new_interval(e) == Acting(e) # Acting(e - 1)

(* same_interval_since: the first epoch of the interval of epoch e.        *)
Since(e) == maps[e].since

(* The incarnation inc of o is up in map e.                                *)
IsUp(o, inc, e) == o \in Up(e) /\ maps[e].up_from[o] = inc

----------------------------------------------------------------------------
(* The group on one OSD.                                                   *)

Durable == {"exists", "epoch", "log", "last_update", "les", "hles", "lec",
            "intervals", "participants"}
OnDisk(s) == [f \in Durable |-> s[f]]

(* No group, at epoch e.                                                   *)
NoPG(e) ==
    [exists |-> FALSE, epoch |-> e, log |-> {}, last_update |-> Zero, les |-> 0,
     hles |-> 0, lec |-> 0, intervals |-> {}, participants |-> {}]

(* The volatile state after Reset.                                         *)
Idle(inc) ==
    [incarnation |-> inc, st |-> "reset", infos |-> <<>>, requested |-> {}, probe |-> {},
     down |-> {}, need_up_thru |-> FALSE, auth |-> 0, activated |-> {},
     clean |-> FALSE, purged |-> {}, waiting |-> {}, untold |-> <<>>]

Off == [Idle(0) EXCEPT !.st = "off"]

Peers(o, s) == Acting(s.epoch) \ {o}
Info(s) ==
    [last_update |-> s.last_update, les |-> s.les, hles |-> s.hles, lec |-> s.lec,
     exists |-> s.exists]

clear_past_intervals(s) == [s EXCEPT !.intervals = {}, !.participants = {}]

update_history(s, h) ==
    LET t == [s EXCEPT !.hles = Max({@, h.hles}), !.lec = Max({@, h.lec})] IN
    IF t.lec >= Since(t.epoch) THEN clear_past_intervals(t) ELSE t

----------------------------------------------------------------------------
(* PastIntervals.                                                          *)

(* Mutant: the primary must have been seen alive after the first epoch.    *)
maybe_went_rw_late(e, lec) ==
    LET first == Since(e) IN
    /\ Acting(e) # {} /\ Cardinality(Acting(e)) >= left.min_size
    /\ \/ \E p \in Acting(e) :
            /\ IsPrimary(p, e)
            /\ maps[e].up_thru[p] > first /\ maps[e].up_from[p] <= first
       \/ lec \in first .. e

(* The acting set of the interval that ends with epoch e may have accepted *)
(* writes: it was large enough, and its primary was known to be alive in   *)
(* it or the group has been clean in it.                                   *)
maybe_went_rw(e, lec) ==
    LET first == Since(e) IN
    /\ Acting(e) # {} /\ Cardinality(Acting(e)) >= left.min_size
    /\ \/ \E p \in Acting(e) :
            /\ IsPrimary(p, e)
            /\ maps[e].up_thru[p] >= first /\ maps[e].up_from[p] <= first
       \/ lec \in first .. e

(* Only the interval with the smaller acting set is kept.                  *)
check_new_interval(s, e) ==
    LET i == [first |-> Since(e - 1), last |-> e - 1, acting |-> Acting(e - 1)] IN
    [s EXCEPT !.participants = @ \union i.acting,
              !.intervals = IF maybe_went_rw(e - 1, s.lec)
                            THEN {j \in @ : ~(i.acting \subseteq j.acting)} \union {i}
                            ELSE @]

(* An interval that may have accepted writes has nobody left who is up.    *)
pg_down(s) ==
    \E i \in s.intervals : i.last >= s.hles /\ i.acting \intersect Up(s.epoch) = {}

build_prior(o, s) ==
    [s EXCEPT !.probe = Acting(s.epoch) \union (s.participants \intersect Up(s.epoch)),
              !.down = s.participants \ Up(s.epoch),
              !.need_up_thru = maps[s.epoch].up_thru[o] < Since(s.epoch)]

affected_by_map(s, e) == ~(s.probe \subseteq Up(e)) \/ s.down \intersect Up(e) # {}

----------------------------------------------------------------------------
(* PGLog.                                                                  *)

(* The entries after v, and the last one before them.                      *)
copy_after(log, v) ==
    LET new == {a \in log : Less(v, a)} IN [log |-> new, tail |-> Newest(log \ new)]

rewind_divergent_log(s, newhead) ==
    [s EXCEPT !.log = {a \in @ : ~Less(newhead, a)}, !.last_update = newhead]

(* Mutant: divergent entries stay in the log.                              *)
merge_log_divergent(s, olog, head) ==
    IF Less(head, s.last_update) THEN rewind_divergent_log(s, head)
    ELSE [s EXCEPT !.last_update = head, !.log = @ \union olog.log]

(* The log olog (log, tail) with this head is merged into that of s.       *)
merge_log(s, olog, head) ==
    IF Less(head, s.last_update) THEN rewind_divergent_log(s, head)
    ELSE IF Less(s.last_update, head)
         THEN LET cut == Newest({olog.tail} \union
                                {a \in olog.log : ~Less(s.last_update, a)})
              IN  [s EXCEPT !.last_update = head,
                            !.log = {a \in @ : ~Less(cut, a)} \union
                                    {a \in olog.log : Less(cut, a)}]
         ELSE s

(* The last version a peer, whose log ends with olog and head, shares with *)
(* the authoritative log.                                                  *)
proc_replica_log(log, last_update, olog, head) ==
    LET shared == Newest({a \in log : ~Less(head, a)}) IN
    IF head = last_update THEN head
    ELSE IF Less(Larger(shared, olog.tail), head) THEN Larger(shared, olog.tail) ELSE head

----------------------------------------------------------------------------
(* The primary's states, entered one from another within one event.        *)

(* Activation epoch and messages: see Activation.                          *)
activate(o, s) ==
    [s EXCEPT !.st = "activating", !.need_up_thru = FALSE, !.activated = {},
              !.les = IF Cardinality(Acting(s.epoch)) >= left.min_size THEN s.epoch ELSE @]

WaitUpThru(o, s) ==
    IF s.need_up_thru THEN [s EXCEPT !.st = "waitupthru"] ELSE activate(o, s)

(* Peers that have a log other than ours are asked for it.                 *)
GetMissing(o, s) ==
    LET ask == {q \in Peers(o, s) : s.infos[q].last_update \notin {Zero, s.last_update}} IN
    IF ask = {} THEN WaitUpThru(o, s) ELSE [s EXCEPT !.st = "getmissing", !.requested = ask]

(* The best of the infos and our own: of those that took part in the last  *)
(* interval known to have started, the one with the longest log.           *)
find_best_info(o, s) ==
    LET all == [q \in DOMAIN s.infos \union {o} |->
                   IF q = o THEN Info(s) ELSE s.infos[q]]
        started == Max(UNION {{all[q].hles, all[q].les} : q \in DOMAIN all})
        current == {q \in DOMAIN all : all[q].les >= started}
    IN  {q \in current : \A r \in current : ~Less(all[q].last_update, all[r].last_update)}

(* choose_acting, with the acting set it is given; among equals it prefers *)
(* the primary.                                                            *)
GetLog(o, s) ==
    LET best == find_best_info(o, s) IN
    IF best = {} THEN [s EXCEPT !.st = "incomplete"]
    ELSE IF o \in best THEN GetMissing(o, s)
    ELSE [s EXCEPT !.st = "getlog", !.auth = Min(best)]

get_infos(o, s) ==
    {q \in s.probe \ {o} : q \notin DOMAIN s.infos /\ q \in Up(s.epoch)}

GetInfo(o, s) ==
    LET b == build_prior(o, s)
        g == [b EXCEPT !.requested = get_infos(o, b)]
    IN  IF pg_down(g) THEN [g EXCEPT !.st = "down"]
        ELSE IF g.requested = {} THEN GetLog(o, g)
        ELSE [g EXCEPT !.st = "getinfo"]

Peering == {"getinfo", "getlog", "getmissing", "waitupthru", "down", "incomplete"}
Primary == {"activating", "active", "peered"}

(* Started: a member of the map becomes primary or stray.                  *)
Started(o, s) ==
    IF ~s.exists THEN [s EXCEPT !.st = "none"]
    ELSE IF ~IsUp(o, s.incarnation, s.epoch) THEN [s EXCEPT !.st = "reset"]
    ELSE IF IsPrimary(o, s.epoch) THEN GetInfo(o, s)
    ELSE [s EXCEPT !.st = "stray"]

----------------------------------------------------------------------------
(* Messages carry the sender's epoch and are dropped by a receiver that    *)
(* has entered a later interval.                                           *)

Message(s, type, body) ==
    [type |-> type, epoch |-> s.epoch, since |-> Since(s.epoch), body |-> body]

(* activate: a peer with our log gets the info alone; one without the      *)
(* group also what it needs to create it.                                  *)
Activation(o, s, q) ==
    LET pi == s.infos[q] IN
    IF pi.last_update = s.last_update /\ s.last_update # Zero
    THEN Message(s, "info", [head |-> s.last_update, les |-> s.les])
    ELSE Message(s, "log", [head |-> s.last_update, les |-> s.les,
                            olog |-> copy_after(s.log, pi.last_update),
                            create |-> [OnDisk(s) EXCEPT !.log = {}, !.last_update = Zero,
                                                         !.les = 0]])

(* Mutant: messages of an earlier interval are taken.                      *)
Takes_old(q, m) == pg[q].st # "off" /\ IsUp(q, pg[q].incarnation, m.epoch)

(* A message is taken by the incarnation it goes to, in the interval it is *)
(* of (old_peering_msg, can_discard_replica_op).                           *)
Takes(q, m) ==
    /\ pg[q].st # "off" /\ IsUp(q, pg[q].incarnation, m.epoch)
    /\ Since(pg[q].epoch) <= m.since

(* The messages of o to every q for which there are some.                  *)
Send(n, o, messages) ==
    [n EXCEPT ![o] = [q \in OSD |->
        IF q \in DOMAIN messages
        THEN n[o][q] \o SelectSeq(messages[q], LAMBDA m : Takes(q, m))
        ELSE n[o][q]]]

(* The network once o has come to the state s: activate sends to the       *)
(* replicas, and o drops what was sent to it in earlier intervals          *)
(* (old_peering_msg).                                                      *)
Sent(o, s) ==
    LET n == [i \in OSD |-> [net[i] EXCEPT
                 ![o] = SelectSeq(@, LAMBDA m : m.since >= Since(s.epoch))]]
    IN  IF s.st = "activating" /\ pg[o].st # "activating"
        THEN Send(n, o, [q \in Peers(o, s) |-> <<Activation(o, s, q)>>])
        ELSE n

Become(o, s) ==
    /\ pg' = [pg EXCEPT ![o] = s]
    /\ net' = Sent(o, s)
    /\ UNCHANGED <<maps, acked, left>>

(* Losing a map or the primary's history in a crash is like not having got *)
(* it yet, so with nothing else to commit they are on disk at once.        *)
AtOnce(o, s) ==
    IF OnDisk(pg[o]) = disk[o] /\ s.les = pg[o].les THEN [disk EXCEPT ![o] = OnDisk(s)]
    ELSE disk

Advance(o, s) == Become(o, s) /\ disk' = AtOnce(o, s)

----------------------------------------------------------------------------
(* The monitors.                                                           *)

MayPublish == \A o \in OSD : pg[o].st = "off" \/ Latest - pg[o].epoch <= left.lag
MayChange(o) == left.changes # <<>> /\ o \in Head(left.changes)
Publish(m) ==
    LET acting == Placed(m.up)
        since == IF acting = Acting(Latest) THEN m.since ELSE Latest + 1
    IN  MayPublish /\ maps' = Append(maps, [m EXCEPT !.acting = acting, !.since = since])

(* An OSD is reported down, rightly or not.                                *)
mark_down(o) ==
    /\ o \in Up(Latest) /\ MayChange(o)
    /\ left' = [left EXCEPT !.changes = Tail(@)]
    /\ Publish([maps[Latest] EXCEPT !.up = @ \ {o}])
    /\ UNCHANGED <<pg, disk, net, acked>>

(* A restarted OSD, or one that has found itself down, boots.              *)
boot(o) ==
    LET s == pg[o] IN
    /\ o \in left.osds \ Up(Latest) /\ MayChange(o)
    /\ left' = [left EXCEPT !.changes = Tail(@)]
    /\ s.st = "off" \/ o \notin Up(s.epoch)
    /\ Publish([maps[Latest] EXCEPT !.up = @ \union {o}, !.up_from[o] = Latest + 1])
    /\ pg' = [pg EXCEPT ![o] = IF s.st = "off" THEN disk[o] @@ Idle(Latest + 1)
                               ELSE [s EXCEPT !.incarnation = Latest + 1]]
    /\ net' = [i \in OSD |-> [net[i] EXCEPT ![o] = <<>>]]
    /\ UNCHANGED <<disk, acked>>

(* An OSD that waits for it has its up_thru set to the map the group has.  *)
(* (The OSD itself may have a later one; a smaller up_thru promises less.) *)
WantsUpThru(o) ==
    /\ pg[o].need_up_thru /\ IsUp(o, pg[o].incarnation, Latest)
    /\ maps[Latest].up_thru[o] < Since(pg[o].epoch)

alive(o) ==
    /\ WantsUpThru(o)
    /\ Publish([maps[Latest] EXCEPT !.up_thru[o] = pg[o].epoch])
    /\ UNCHANGED <<pg, disk, net, acked, left>>

----------------------------------------------------------------------------
(* An OSD takes the next map.                                              *)

remove_down_peer_info(s, e) ==
    LET up == DOMAIN s.infos \intersect Up(e) IN
    [s EXCEPT !.infos = [q \in up |-> s.infos[q]], !.purged = @ \intersect Up(e)]

(* Mutant: the writes in progress are not dropped.                         *)
start_peering_interval_writing(s, e) ==
    LET c == IF is_new_interval(e) THEN check_new_interval(s, e) ELSE s IN
    OnDisk([c EXCEPT !.epoch = e]) @@ [Idle(s.incarnation) EXCEPT !.waiting = s.waiting]

(* Everything volatile goes; the interval that is over is recorded.        *)
start_peering_interval(s, e) ==
    LET c == IF is_new_interval(e) THEN check_new_interval(s, e) ELSE s IN
    OnDisk([c EXCEPT !.epoch = e]) @@ Idle(s.incarnation)

(* Mutant: off by one.                                                     *)
adjust_need_up_thru_late(o, s) ==
    [s EXCEPT !.need_up_thru = @ /\ maps[s.epoch].up_thru[o] <= Since(s.epoch)]

adjust_need_up_thru(o, s) ==
    [s EXCEPT !.need_up_thru = @ /\ maps[s.epoch].up_thru[o] < Since(s.epoch)]

should_restart_peering(o, e) ==
    is_new_interval(e) \/ (o \notin Up(e - 1) /\ o \in Up(e))

(* Every map is followed by its ActMap (Started); the code may advance     *)
(* over several maps first.                                                *)
Behind(o) == pg[o].st # "off" /\ pg[o].epoch < Latest

AdvMap(o) ==
    LET s == pg[o]
        e == s.epoch + 1
        t == remove_down_peer_info([s EXCEPT !.epoch = e], e)
        u == adjust_need_up_thru(o, t)
        restart == s.exists /\ should_restart_peering(o, e)
        affected == affected_by_map(s, e) \/ (s.st = "getlog" /\ s.auth \notin Up(e))
    IN  /\ Behind(o)
        /\ \/ restart /\ Advance(o, Started(o, start_peering_interval(s, e)))
           \/ ~restart /\ s.st \notin Peering \union {"reset"} /\ Advance(o, t)
           \/ ~restart /\ s.st = "reset" /\ Advance(o, Started(o, t))
           \/ ~restart /\ s.st \in Peering /\ affected /\ Advance(o, Started(o, t))
           \/ ~restart /\ s.st \in Peering \ {"waitupthru"} /\ ~affected /\ Advance(o, u)
           \/ ~restart /\ s.st = "waitupthru" /\ ~affected /\ Advance(o, WaitUpThru(o, u))

----------------------------------------------------------------------------
(* Queries.  A peer in the same interval answers from what it has, as it   *)
(* does not change until the asker activates it, and learns the asker's    *)
(* history from the query.                                                 *)

Answers(p, q) ==
    /\ pg[q].st # "off" /\ pg[q].epoch >= pg[p].epoch
    /\ Since(pg[q].epoch) = Since(pg[p].epoch)
    /\ IsUp(q, pg[q].incarnation, pg[p].epoch)

Queried(p, q) == IF pg[q].exists THEN update_history(pg[q], pg[p]) ELSE pg[q]

(* p becomes s, q becomes t.                                               *)
Exchange(p, s, q, t) ==
    /\ pg' = [pg EXCEPT ![p] = s, ![q] = t]
    /\ net' = Sent(p, s)
    /\ disk' = AtOnce(q, t)
    /\ UNCHANGED <<maps, acked, left>>

proc_replica_info(s, q, i) == update_history([s EXCEPT !.infos = (q :> i) @@ @], i)

(* The peers outside the acting set are told to remove the group.          *)
purge_strays(o, s) ==
    LET strays == DOMAIN s.infos \ Acting(s.epoch) IN
    /\ pg' = [pg EXCEPT ![o] = [s EXCEPT
                 !.infos = [q \in DOMAIN s.infos \ strays |-> s.infos[q]], !.purged = @ \union strays]]
    /\ net' = Send(net, o, [q \in strays \intersect Up(s.epoch) |-> <<Message(s, "remove", Zero)>>])
    /\ UNCHANGED <<maps, disk, acked, left>>

(* GetInfo::react(MNotifyRec): a larger last_epoch_started makes it build  *)
(* the prior set again.                                                    *)
GetInfo_notify(p, s, q, i) ==
    LET t == proc_replica_info([s EXCEPT !.requested = @ \ {q}], q, i)
        b == build_prior(p, t)
        r == [b EXCEPT !.requested = (@ \intersect b.probe) \union get_infos(p, b)]
        u == IF t.hles > s.hles THEN r ELSE t
    IN  IF u.requested = {} /\ ~pg_down(u) THEN GetLog(p, u) ELSE u

(* Down::react(MNotifyRec).                                                *)
Down_notify(p, s, q, i) ==
    LET t == update_history(s, i) IN IF t.hles > s.hles THEN GetInfo(p, t) ELSE t

(* The answer to a query for the info, or a stray's own notify, that tells *)
(* p or q something.  A stray's notify that comes between GetInfo and      *)
(* activation, which only adds an info, is taken when p is active.         *)
Notifies(p, q) ==
    LET s == pg[p]
        t == Queried(p, q)
    IN  /\ p # q /\ Answers(p, q) /\ q \notin DOMAIN s.infos
        /\ \/ s.st \in {"getinfo", "down"} /\ q \in s.requested
           \/ s.st \in {"getinfo", "down"} \union Primary /\ t.exists
        /\ s.st = "down" => Down_notify(p, s, q, Info(t)) # s \/ t # pg[q]
        /\ s.st \in Primary => q \notin s.purged

notify(p, q) ==
    LET s == pg[p]
        t == Queried(p, q)
        u == proc_replica_info(s, q, Info(pg[q]))
    IN  /\ Notifies(p, q)
        /\ \/ s.st = "getinfo" /\ Exchange(p, GetInfo_notify(p, s, q, Info(t)), q, t)
           \/ s.st = "down" /\ Exchange(p, Down_notify(p, s, q, Info(t)), q, t)
           \/ s.st \in Primary /\ u.clean /\ purge_strays(p, u)
           \/ s.st \in Primary /\ ~u.clean /\ Become(p, u) /\ UNCHANGED disk

(* A primary that does not have the group gets it from a stray's notify.   *)
Creates(p, q) ==
    /\ p # q /\ pg[p].st = "none" /\ Answers(p, q) /\ pg[q].st = "stray"
    /\ IsUp(p, pg[p].incarnation, pg[p].epoch) /\ IsPrimary(p, pg[p].epoch)

handle_pg_create_info(p, q) ==
    LET s == pg[p]
        c == [OnDisk(pg[q]) EXCEPT !.log = {}, !.last_update = Zero, !.les = 0,
                                   !.epoch = s.epoch]
    IN  /\ Creates(p, q)
        /\ Become(p, Started(p, c @@ Idle(s.incarnation)))
        /\ UNCHANGED disk

(* GetLog: the authoritative log arrives; proc_master_log.                 *)
proc_master_log(s, q, t) ==
    LET m == merge_log(s, copy_after(t.log, s.last_update), t.last_update) IN
    update_history([m EXCEPT !.infos = (q :> Info(t)) @@ @, !.les = Max({@, t.les})], t)

HasLog(p) == pg[p].st = "getlog" /\ Answers(p, pg[p].auth)

GotLog(p) ==
    LET s == pg[p]
        q == s.auth
        t == Queried(p, q)
    IN  /\ HasLog(p)
        /\ Exchange(p, GetMissing(p, proc_master_log(s, q, t)), q, t)

(* GetMissing: the end of a peer's log arrives.                            *)
HasMissing(p, q) == pg[p].st = "getmissing" /\ q \in pg[p].requested /\ Answers(p, q)

GotMissing(p, q) ==
    LET s == pg[p]
        t == Queried(p, q)
        lu == proc_replica_log(s.log, s.last_update,
                               copy_after(t.log, <<s.infos[q].les, 0>>), t.last_update)
        m == [s EXCEPT !.requested = @ \ {q},
                       !.infos = (q :> [Info(t) EXCEPT !.last_update = lu]) @@ @]
    IN  /\ HasMissing(p, q)
        /\ Exchange(p, IF m.requested = {} THEN WaitUpThru(p, m) ELSE m, q, t)

----------------------------------------------------------------------------
(* Activation, and the writes.                                             *)

share_pg_info(n, o, s) ==
    Send(n, o, [q \in Peers(o, s) |-> <<Message(s, "share", [hles |-> s.hles, lec |-> s.lec])>>])

(* Mutant: the first to have committed is enough.                          *)
all_activated_and_committed_first(s) ==
    IF s.st = "activating" /\ s.activated # {}
    THEN [s EXCEPT !.hles = s.les,
                   !.st = IF Cardinality(Acting(s.epoch)) < left.min_size THEN "peered" ELSE "active"]
    ELSE s

(* AllReplicasActivated: history.last_epoch_started only moves now that    *)
(* every replica has the result of peering on disk.                        *)
all_activated_and_committed(s) ==
    IF s.st = "activating" /\ s.activated = Acting(s.epoch)
    THEN [s EXCEPT !.hles = s.les,
                   !.st = IF Cardinality(Acting(s.epoch)) < left.min_size THEN "peered" ELSE "active"]
    ELSE s

(* Stray: the log, or the info, from the primary activates a replica.      *)
ReplicaActive(s, les) ==
    [s EXCEPT !.st = "replica", !.les = Max({@, les}),
              !.untold = Append(@, [type |-> "activated", body |-> Zero])]

Stray_MLogRec(s, b) ==
    LET t == IF s.exists THEN s
             ELSE [b.create EXCEPT !.epoch = s.epoch] @@ Idle(s.incarnation)
    IN  ReplicaActive(merge_log(t, b.olog, b.head), b.les)

Stray_MInfoRec(s, b) ==
    ReplicaActive(IF Less(b.head, s.last_update) THEN rewind_divergent_log(s, b.head) ELSE s,
                  b.les)

do_repop(s, v) ==
    [s EXCEPT !.log = @ \union {v}, !.last_update = v,
              !.untold = Append(@, [type |-> "reply", body |-> v])]

(* Started::react(DeleteStart).                                            *)
Delete(s) == NoPG(s.epoch) @@ [Idle(s.incarnation) EXCEPT !.st = "none"]

(* What the message m from i makes of the group of its receiver.           *)
Handle(s, i, m) ==
    CASE m.type = "log"       -> Stray_MLogRec(s, m.body)
      [] m.type = "info"      -> Stray_MInfoRec(s, m.body)
      [] m.type = "activated" -> all_activated_and_committed([s EXCEPT !.activated = @ \union {i}])
      [] m.type = "share"     -> update_history(s, m.body)
      [] m.type = "repop"     -> do_repop(s, m.body)
      [] m.type = "reply"     -> [s EXCEPT !.waiting = @ \ {<<m.body, i>>}]
      [] m.type = "remove"    -> IF s.exists THEN Delete(s) ELSE s

Outstanding(s) == {w[1] : w \in s.waiting}

(* o comes to the state s by a message or a commit: writes that nobody is  *)
(* waiting for any more are acknowledged.                                  *)
Progressed(o, s, n) ==
    /\ pg' = [pg EXCEPT ![o] = s]
    /\ net' = IF s.st # pg[o].st /\ s.st \in {"active", "peered"} THEN share_pg_info(n, o, s) ELSE n
    /\ acked' = acked \union ((Outstanding(pg[o]) \ Outstanding(s)) \X {s.epoch})
    /\ UNCHANGED <<maps, left>>

(* An event waits until its receiver has the map it was sent in.           *)
Arrived(i, j) == net[i][j] # <<>> /\ pg[j].st # "off" /\ Head(net[i][j]).epoch <= pg[j].epoch

Deliver(i, j) ==
    LET s == pg[j]
        m == Head(net[i][j])
    IN  /\ Arrived(i, j)
        /\ Progressed(j, Handle(s, i, m), [net EXCEPT ![i][j] = Tail(@)])
        /\ disk' = IF m.type = "share" THEN AtOnce(j, Handle(s, i, m)) ELSE disk

(* The store commits all that o has queued: a replica tells the primary,   *)
(* the primary counts itself.                                              *)
Committed(o) ==
    [pg[o] EXCEPT !.untold = <<>>, !.waiting = {w \in @ : w[2] # o},
                  !.activated = IF pg[o].st = "activating" THEN @ \union {o} ELSE @]

Uncommitted(o) == pg[o].st # "off" /\ (disk[o] # OnDisk(pg[o]) \/ Committed(o) # pg[o])

commit(o) ==
    LET s == pg[o]
        told == [k \in DOMAIN s.untold |-> Message(s, s.untold[k].type, s.untold[k].body)]
    IN  /\ Uncommitted(o)
        /\ disk' = [disk EXCEPT ![o] = OnDisk(s)]
        /\ Progressed(o, all_activated_and_committed(Committed(o)),
                      Send(net, o, [q \in {p \in OSD : IsPrimary(p, s.epoch)} |-> told]))

(* Mutant: the primary's own commit is not waited for.                     *)
Write_remote(p) ==
    LET s == pg[p]
        v == <<s.epoch, s.last_update[2] + 1>>
    IN  /\ s.st = "active" /\ left.writes > 0
        /\ left' = [left EXCEPT !.writes = @ - 1]
        /\ pg' = [pg EXCEPT ![p].log = @ \union {v}, ![p].last_update = v,
                            ![p].waiting = @ \union ({v} \X Peers(p, s))]
        /\ net' = Send(net, p, [q \in Peers(p, s) |-> <<Message(s, "repop", v)>>])
        /\ UNCHANGED <<maps, disk, acked>>

(* A client's write (issue_repop).                                         *)
Write(p) ==
    LET s == pg[p]
        v == <<s.epoch, s.last_update[2] + 1>>
    IN  /\ s.st = "active" /\ left.writes > 0
        /\ left' = [left EXCEPT !.writes = @ - 1]
        /\ pg' = [pg EXCEPT ![p].log = @ \union {v}, ![p].last_update = v,
                            ![p].waiting = @ \union ({v} \X Acting(s.epoch))]
        /\ net' = Send(net, p, [q \in Peers(p, s) |-> <<Message(s, "repop", v)>>])
        /\ UNCHANGED <<maps, disk, acked>>

(* A client sends again a write whose answer it did not get: an entry of   *)
(* the log that no earlier write holds up is acknowledged as it stands.    *)
already_complete(p) ==
    \E v \in {u \in pg[p].log : \A a \in acked : a[1] # u} :
        /\ pg[p].st = "active" /\ \A w \in Outstanding(pg[p]) : Less(v, w)
        /\ acked' = acked \union {<<v, pg[p].epoch>>}
        /\ UNCHANGED <<maps, pg, disk, net, left>>

(* All objects have been recovered.                                        *)
try_mark_clean(p) ==
    LET s == pg[p]
        t == [clear_past_intervals(s) EXCEPT !.lec = s.epoch, !.clean = TRUE]
    IN  /\ s.st = "active" /\ ~s.clean /\ Cardinality(Acting(s.epoch)) = Size
        /\ pg' = [pg EXCEPT ![p] = t]
        /\ net' = share_pg_info(net, p, t)
        /\ UNCHANGED <<maps, disk, acked, left>>

(* The transaction that marked the group clean is on disk.                 *)
_finish_recovery(p) ==
    LET s == pg[p] IN
    /\ s.clean /\ disk[p].lec = s.lec /\ DOMAIN s.infos \ Acting(s.epoch) # {}
    /\ purge_strays(p, s)

crash(o) ==
    /\ pg[o].st # "off" /\ left.crashes > 0
    /\ left' = [left EXCEPT !.crashes = @ - 1]
    /\ pg' = [pg EXCEPT ![o] = disk[o] @@ Off]
    /\ net' = [i \in OSD |-> [net[i] EXCEPT ![o] = <<>>]]
    /\ UNCHANGED <<maps, disk, acked>>

----------------------------------------------------------------------------
(* In the first map the group, still empty, is active and clean on its     *)
(* acting set.  An old copy is of an interval before that.                 *)
InitDisk(o) ==
    IF o \in Acting(1)
    THEN [NoPG(1) EXCEPT !.exists = TRUE, !.les = 1, !.hles = 1, !.lec = 1]
    ELSE [NoPG(1) EXCEPT !.exists = o \in left.old]

Init ==
    /\ left \in Scenarios
    /\ maps = <<[up |-> left.up, acting |-> Placed(left.up), since |-> 1,
               up_from |-> [o \in OSD |-> 1], up_thru |-> [o \in OSD |-> 1]]>>
    /\ disk = [o \in OSD |-> InitDisk(o)]
    /\ pg = [o \in OSD |-> InitDisk(o) @@
                [Idle(1) EXCEPT
                    !.st = IF o \notin left.up THEN "off"
                           ELSE IF IsPrimary(o, 1) THEN "active"
                           ELSE IF o \in Acting(1) THEN "replica"
                           ELSE IF o \in left.old THEN "stray" ELSE "none",
                    !.clean = IsPrimary(o, 1),
                    !.activated = IF IsPrimary(o, 1) THEN Acting(1) ELSE {},
                    !.infos = IF IsPrimary(o, 1)
                              THEN [q \in Acting(1) \ {o} |-> Info(InitDisk(q))] ELSE <<>>]]
    /\ net = [i \in OSD |-> [j \in OSD |-> <<>>]]
    /\ acked = {}

Next ==
    \/ \E o \in OSD : AdvMap(o)
    \/ \E o \in OSD : alive(o)
    \/ \E o \in OSD : GotLog(o)
    \/ \E o \in OSD : commit(o)
    \/ \E p, q \in OSD : notify(p, q)
    \/ \E p, q \in OSD : handle_pg_create_info(p, q)
    \/ \E p, q \in OSD : GotMissing(p, q)
    \/ \E i, j \in OSD : Deliver(i, j)
    \/ \E o \in OSD : mark_down(o)
    \/ \E o \in OSD : boot(o)
    \/ \E o \in OSD : crash(o)
    \/ \E p \in OSD : Write(p)
    \/ \E p \in OSD : already_complete(p)
    \/ \E p \in OSD : try_mark_clean(p)
    \/ \E p \in OSD : _finish_recovery(p)

Spec == Init /\ [][Next]_vars

----------------------------------------------------------------------------
(* Properties.                                                             *)

Versions == (1 .. Latest) \X (Nat \ {0})

(* Types; a message never comes from a map its receiver cannot get.        *)
TypeOK ==
    /\ \A o \in OSD :
        LET s == pg[o] IN
        /\ s.epoch \in 1 .. Latest /\ s.incarnation \in 0 .. Latest /\ s.exists \in BOOLEAN
        /\ s.log \subseteq Versions /\ s.last_update \in Versions \union {Zero}
        /\ {s.les, s.hles, s.lec} \subseteq 0 .. s.epoch
        /\ s.st \in Peering \union Primary \union {"none", "off", "reset", "stray", "replica"}
        /\ s.activated \union s.probe \union s.requested \union DOMAIN s.infos \subseteq OSD
        /\ s.waiting \subseteq s.log \X Acting(s.epoch)
    /\ acked \subseteq Versions \X (1 .. Latest)
    /\ \A i, j \in OSD : \A k \in DOMAIN net[i][j] : net[i][j][k].epoch <= Latest

(* A write acknowledged to a client is in the log of every primary that    *)
(* finishes peering later, whatever crashed or was marked down between     *)
(* (build_prior, find_best_info and the log merges together).              *)
AckedSurvive ==
    \A p \in OSD : pg[p].st \in Primary =>
        \A a \in acked : Since(a[2]) <= Since(pg[p].epoch) => a[1] \in pg[p].log

(* What last_epoch_started means (last_epoch_started.rst), in memory and   *)
(* on disk: the log reflects every write acknowledged in the interval it   *)
(* names or before, and none of a later interval.                          *)
LesReflectsWrites ==
    \A o \in OSD : \A s \in {pg[o], disk[o]} :
        s.exists /\ s.les > 0 =>
            /\ \A a \in acked : Since(a[2]) <= Since(s.les) => a[1] \in s.log
            /\ \A v \in s.log : Since(v[1]) <= Since(s.les)

(* A primary that is not waiting for an OSD that is down always finds a    *)
(* log to start from.                                                      *)
NeverIncomplete == \A p \in OSD : pg[p].st # "incomplete"

(* The replicas of an active group have the primary's log up to the writes *)
(* still on their way to them.                                             *)
LogsAgree ==
    \A p, q \in OSD :
        LET s == pg[p]
            t == pg[q]
        IN  s.st \in {"active", "peered"} /\ q \in Acting(s.epoch) /\ t.st = "replica"
            /\ Since(t.epoch) = Since(s.epoch) =>
               /\ t.log = {v \in s.log : ~Less(t.last_update, v)}
               /\ s.log \ t.log \subseteq Outstanding(s)

(* The assertions of build_prior, activate, proc_master_log, merge_log and *)
(* of the replica's reactions to the primary's log and info.               *)
AssertsHold ==
    /\ \A o \in OSD :
        LET s == pg[o] IN
        /\ s.last_update = Newest(s.log)
        /\ \A q \in DOMAIN s.infos : s.infos[q].hles <= s.hles
        /\ s.st \in Peering \ {"getinfo", "getlog", "down"} => s.les >= s.hles
    /\ \A i, j \in OSD :
        LET m == Head(net[i][j])
            t == pg[j]
        IN  net[i][j] # <<>> /\ m.epoch <= t.epoch /\ t.st # "off" =>
            /\ m.type = "info" => t.st = "stray" /\ ~Less(t.last_update, m.body.head)
            /\ m.type = "log" => /\ t.st \in {"stray", "none"}
                                 /\ ~Less(t.last_update, m.body.olog.tail)
            /\ m.type \in {"repop", "share"} => t.st = "replica"
            /\ m.type \in {"activated", "reply"} => t.st \in Primary
            /\ m.type = "remove" => t.st \in {"stray", "none"}

(* Peering does not get stuck: when the OSDs that are up answer and there  *)
(* is nothing left to deliver, to commit, to ask for or to publish, the    *)
(* primary is active, or peered, or waits for an OSD that is down, or no   *)
(* OSD that is up has the group.                                           *)
Quiet ==
    /\ \A o \in Up(Latest) : IsUp(o, pg[o].incarnation, Latest) /\ pg[o].st # "off"
    /\ \A o \in OSD : ~Behind(o) /\ ~WantsUpThru(o) /\ ~HasLog(o) /\ ~Uncommitted(o)
    /\ \A p, q \in OSD : ~(Notifies(p, q) \/ Creates(p, q) \/ HasMissing(p, q) \/ Arrived(p, q))
NeverStuck ==
    Quiet => \A p \in OSD : IsPrimary(p, Latest) =>
        \/ pg[p].st \in {"active", "peered"}
        \/ pg[p].st = "down" /\ pg[p].down # {}
        \/ pg[p].st = "none" /\ \A q \in Up(Latest) : ~pg[q].exists
============================================================================
