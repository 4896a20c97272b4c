------------------------------- MODULE MonSync -------------------------------
(***************************************************************************)
(* Store synchronisation between monitors (Monitor.cc).  A monitor that    *)
(* has fallen behind what its peers still hold copies the store of one of  *)
(* them, in chunks: all of it ("full") or only the log ("recent").  It may *)
(* crash between any two store transactions, its provider may crash, trim  *)
(* its log or forget the session, and the cluster goes on committing.      *)
(*                                                                         *)
(* Paxos and the elections are seen from outside: versions are committed   *)
(* by a majority of the monitors in the quorum (Commit), the others follow *)
(* (Learn), and a quorum forms from the monitors that ask for one.         *)
(***************************************************************************)
EXTENDS Integers, Sequences, FiniteSets

CONSTANTS Mon,          \* the monitors
          Keys,         \* the services own the keys 1 .. Keys
          MaxVersion,   \* bound on the versions committed
          MaxFaults,    \* bound on crashes, early timeouts and expired sessions
          MaxReplies,   \* bound on the answers to a monitor's probes under way
          Crashers,     \* the monitors that may crash
          Forced,       \* the monitors that the operator may order to synchronise
          Drift,        \* paxos_max_join_drift
          NoMon,        \* no monitor
          InitLog,      \* the trim points of the versions committed so far
          InitLast,     \* the last version of each monitor
          InitQuorum    \* the monitors that are in the quorum

ASSUME SyncAssumption ==
    /\ IsFiniteSet(Mon) /\ NoMon \notin Mon /\ Crashers \cup Forced \subseteq Mon
    /\ {Keys, MaxVersion, MaxFaults, MaxReplies, Drift} \subseteq Nat
    /\ InitLog \in Seq(Nat) /\ InitLast \in [Mon -> 0 .. Len(InitLog)]
    /\ InitQuorum \subseteq Mon

VARIABLES store,    \* store[m]: the store of m, which survives a crash
          mem,      \* mem[m]: the memory of m
          session,  \* session[p]: the synchronisations p provides, by cookie
          net,      \* net[i][j]: the messages from i to j, in order
          log,      \* log[v]: the trim point that version v's transaction sets, or 0
          faults,   \* faults so far
          asserts   \* FALSE once a ceph_assert has failed

vars == <<store, mem, session, net, log, faults, asserts>>

IsMajority(Q) == 2 * Cardinality(Q) > Cardinality(Mon)

----------------------------------------------------------------------------
(* The store: the keys that are copied, numbered in the order in which an  *)
(* iterator visits them (the services' prefixes, then the versions and the *)
(* ends of the log), with 0 for a key that is absent; and the two keys     *)
(* under "mon_sync".                                                       *)
ServiceKey(v) == 1 + (v % Keys)
PaxosKey(v) == Keys + v
First == Keys + MaxVersion + 1
Last == Keys + MaxVersion + 2
Names == 1 .. Last

Store == [kv : [Names -> 0 .. MaxVersion], inSync : BOOLEAN, force : BOOLEAN,
          floor : 0 .. MaxVersion]

(* MonitorDBStore::clear of the prefixes of Paxos and of the services.     *)
clear(st) == [st EXCEPT !.kv = [n \in Names |-> 0]]

(* get_synchronizer: a snapshot of the keys present.                       *)
Snapshot(kv) ==
    LET present(n) == kv[n] # 0
        keys == SelectSeq([n \in Names |-> n], present)
    IN  [i \in 1 .. Len(keys) |-> [key |-> keys[i], val |-> kv[keys[i]]]]

(* A transaction that puts these keys.                                     *)
Put(kv, puts) ==
    [n \in Names |-> IF \E p \in puts : p.key = n
                     THEN (CHOOSE p \in puts : p.key = n).val ELSE kv[n]]

(* The transaction of version v: the services' changes and, when it trims, *)
(* the new first_committed and the erasure of what is before it.           *)
Replay(kv, v, l) ==
    [n \in Names |->
        CASE n = ServiceKey(v) -> v
          [] n = First /\ l[v] > 0 -> l[v]
          [] n > Keys /\ n < PaxosKey(l[v]) -> 0
          [] OTHER -> kv[n]]

(* Paxos::read_and_prepare_transactions, then put of last_committed.       *)
read_and_prepare(kv, first, last, l) ==
    LET R[v \in Nat] == IF v < first THEN kv ELSE Replay(R[v - 1], v, l)
    IN  [R[last] EXCEPT ![Last] = last]

(* What it asserts: it finds each of the versions in the store.            *)
CanRead(kv, first, last) == \A v \in first .. last : v > 0 /\ kv[PaxosKey(v)] # 0

(* A store that was built by the versions 1 .. last, in order.             *)
Built(last, l) ==
    LET B[v \in Nat] ==
            IF v = 0 THEN [n \in Names |-> 0]
            ELSE [Replay(B[v - 1], v, l) EXCEPT ![PaxosKey(v)] = 1, ![Last] = v]
    IN  B[last]

----------------------------------------------------------------------------
NoCookie == <<0, 0>>

(* Monitor::sync_reset_requester and the rest of bootstrap.                *)
bootstrap(m, r) ==
    [r EXCEPT !.state = "probing", !.provider = NoMon, !.cookie = NoCookie,
              !.full = FALSE, !.start = 0, !.outside = {m}]

(* Paxos::init: the versions are read back from the store.                 *)
init_paxos(r, kv) == [r EXCEPT !.first = kv[First], !.last = kv[Last]]

(* The memory of a process that has just started: preinit, with the store  *)
(* as it has left it.                                                      *)
Started(m, st, epoch) ==
    bootstrap(m, [state |-> "probing", first |-> st.kv[First], last |-> st.kv[Last],
                  floor |-> st.floor, provider |-> NoMon, cookie |-> NoCookie,
                  full |-> FALSE, start |-> 0, outside |-> {m}, epoch |-> epoch,
                  elector |-> FALSE, given |-> 0])

(* ElectionLogic::start and init: an odd epoch is an election's.           *)
Odd(e) == IF e % 2 = 0 THEN e + 1 ELSE e
Even(e) == IF e % 2 = 0 THEN e ELSE e + 1

Send(i, j, msg) == [net EXCEPT ![i][j] = Append(@, msg)]
Answer(i, j, msg) == [net EXCEPT ![j][i] = Tail(@), ![i][j] = Append(@, msg)]
Consume(i, j) == [net EXCEPT ![j][i] = Tail(@)]

(* m has made the changes 'images' to its store, one transaction after     *)
(* another, and ends the handler with memory r and the messages n; or it   *)
(* crashes after one of them but the last.                                 *)
Crashed(m) ==
    /\ m \in Crashers /\ faults < MaxFaults
    /\ faults' = faults + 1
    /\ mem' = [mem EXCEPT ![m] = [Started(m, store'[m], @.epoch) EXCEPT !.state = "down"]]
    /\ session' = [session EXCEPT ![m] = <<>>]
    /\ net' = [i \in Mon |-> [j \in Mon |-> IF m \in {i, j} THEN <<>> ELSE net[i][j]]]

Handled(m, images, r, n) ==
    \/ /\ store' = [store EXCEPT ![m] = images[Len(images)]]
       /\ mem' = [mem EXCEPT ![m] = r]
       /\ session' = [session EXCEPT ![m] = IF r.state = "synchronizing" THEN <<>> ELSE @]
       /\ net' = n
       /\ UNCHANGED faults
    \/ \E i \in 1 .. Len(images) - 1 :
          /\ store' = [store EXCEPT ![m] = images[i]]
          /\ Crashed(m)

----------------------------------------------------------------------------
(* Mutant: the version that is given up is not noted.                      *)
sync_start_unfloored(m, p, full) ==
    LET marked == [store[m] EXCEPT !.inSync = TRUE, !.floor = mem[m].floor]
        r == [mem[m] EXCEPT !.state = "synchronizing", !.full = full, !.provider = p]
    IN  IF full
        THEN Handled(m, <<marked, clear(marked)>>, init_paxos(r, clear(marked).kv),
                     Answer(m, p, [type |-> "GET_COOKIE", full |-> TRUE, last |-> 0]))
        ELSE Handled(m, <<store[m]>>, r,
                     Answer(m, p, [type |-> "GET_COOKIE", full |-> FALSE,
                                   last |-> mem[m].last]))

(* Mutant: no marker is left in the store.                                 *)
sync_start_unmarked(m, p, full) ==
    LET floor == IF mem[m].floor > mem[m].last THEN mem[m].floor ELSE mem[m].last
        noted == [store[m] EXCEPT !.floor = floor]
        r == [mem[m] EXCEPT !.state = "synchronizing", !.full = full, !.provider = p]
    IN  IF full
        THEN Handled(m, <<noted, clear(noted)>>,
                     [init_paxos(r, clear(noted).kv) EXCEPT !.floor = floor],
                     Answer(m, p, [type |-> "GET_COOKIE", full |-> TRUE, last |-> 0]))
        ELSE Handled(m, <<store[m]>>, r,
                     Answer(m, p, [type |-> "GET_COOKIE", full |-> FALSE,
                                   last |-> mem[m].last]))

(* Monitor::sync_start.                                                    *)
sync_start(m, p, full) ==
    LET floor == IF mem[m].floor > mem[m].last THEN mem[m].floor ELSE mem[m].last
        marked == [store[m] EXCEPT !.inSync = TRUE, !.floor = floor]
        r == [mem[m] EXCEPT !.state = "synchronizing", !.full = full, !.provider = p]
    IN  IF full
        THEN Handled(m, <<marked, clear(marked)>>,
                     [init_paxos(r, clear(marked).kv) EXCEPT !.floor = floor],
                     Answer(m, p, [type |-> "GET_COOKIE", full |-> TRUE, last |-> 0]))
        ELSE Handled(m, <<store[m]>>, r,
                     Answer(m, p, [type |-> "GET_COOKIE", full |-> FALSE,
                                   last |-> mem[m].last]))

(* The answers to m's probes that are under way.                           *)
Replies(m) == Cardinality({q \in Mon : \E i \in 1 .. Len(net[q][m]) : net[q][m][i].type = "REPLY"})

(* Monitor::handle_probe_probe: p answers a probe of m with its versions.  *)
(* A probe carries the first version 0 (only a reply sets it), so the      *)
(* comparison that would send p back to bootstrap when m is far ahead of   *)
(* it never succeeds.                                                      *)
handle_probe(p, m) ==
    /\ mem[m].state = "probing" /\ p # m /\ mem[p].state # "down"
    /\ Replies(m) < MaxReplies
    /\ net' = Send(p, m, [type |-> "REPLY", first |-> mem[p].first, last |-> mem[p].last,
                          quorum |-> mem[p].state = "active"])
    /\ UNCHANGED <<store, mem, session, log, faults, asserts>>

(* Mutant: a monitor behind the peer's last version starts from nothing.   *)
NeedsFull_any(r, msg) == msg.last >= r.floor /\ r.last < msg.last

(* Is a full, or a recent, synchronisation with a peer that holds first .. *)
(* last called for?                                                        *)
NeedsFull(r, msg) == /\ msg.last >= r.floor
                     /\ r.last < msg.first /\ msg.first > 1
NeedsRecent(r, msg) == /\ msg.last >= r.floor /\ ~ NeedsFull(r, msg)
                       /\ r.last + Drift < msg.last

handle_probe_reply(m, p, msg) ==
    LET outside == mem[m].outside \cup {p}
        electing == [mem[m] EXCEPT !.state = "electing", !.epoch = Odd(@), !.elector = TRUE]
    IN  /\ msg.type = "REPLY"
        /\ UNCHANGED <<log, asserts>>
        /\ IF mem[m].state # "probing"
           THEN Handled(m, <<store[m]>>, mem[m], Consume(m, p))
           ELSE CASE NeedsFull(mem[m], msg) -> sync_start(m, p, TRUE)
                  [] NeedsRecent(mem[m], msg) -> sync_start(m, p, FALSE)
                  [] OTHER ->
                       Handled(m, <<store[m]>>,
                               IF msg.quorum \/ IsMajority(outside)
                               THEN electing ELSE [mem[m] EXCEPT !.outside = outside],
                               Consume(m, p))

----------------------------------------------------------------------------
(* The provider.  The epoch of a cookie is the elector's, which is 0 in a  *)
(* process that has not called an election yet.                            *)
NewCookie(p) == <<IF mem[p].elector THEN mem[p].epoch ELSE 0, mem[p].given + 1>>

(* Monitor::handle_sync_get_cookie.                                        *)
handle_sync_get_cookie(p, m, msg) ==
    /\ msg.type = "GET_COOKIE"
    /\ UNCHANGED <<store, log, faults>>
    /\ IF mem[p].state = "synchronizing"
       THEN /\ net' = Answer(p, m, [type |-> "NO_COOKIE"])
            /\ UNCHANGED <<mem, session, asserts>>
       ELSE LET c == NewCookie(p)
                last == IF msg.full THEN mem[p].last ELSE msg.last
            IN  /\ asserts' = (asserts /\ c \notin DOMAIN session[p])
                /\ mem' = [mem EXCEPT ![p].given = @ + 1]
                /\ session' = [session EXCEPT ![p] =
                      [x \in DOMAIN @ \cup {c} |->
                         IF x = c THEN [to |-> m, last |-> last, full |-> msg.full,
                                        todo |-> IF msg.full THEN Snapshot(store[p].kv)
                                                 ELSE <<>>]
                         ELSE @[x]]]
                /\ net' = Answer(p, m, [type |-> "COOKIE", cookie |-> c, last |-> last])

(* The session without one cookie.                                         *)
Without(s, c) == [x \in DOMAIN s \ {c} |-> s[x]]

(* Mutant: the provider does not see that it has trimmed too far.          *)
Serves_any(p, c) == c \in DOMAIN session[p]

(* The requester has a session and has not fallen behind this log.         *)
Serves(p, c) ==
    /\ c \in DOMAIN session[p]
    /\ session[p][c].last >= mem[p].first \/ mem[p].first <= 1

(* Monitor::handle_sync_get_chunk.  The chunk has the versions after those *)
(* sent before, as many as there is room for, and then, if there is still  *)
(* room, the next keys of the snapshot, at least one.                      *)
ChunkOf(p, m, c) ==
    LET s == session[p][c]
        all == IF s.last > mem[p].last THEN s.last ELSE mem[p].last
    IN  \E last \in s.last .. all, n \in 0 .. Len(s.todo) :
          LET versions == {[key |-> PaxosKey(v), val |-> 1] : v \in s.last + 1 .. last}
              rest == SubSeq(s.todo, n + 1, Len(s.todo))
              final == rest = <<>> /\ last = all
          IN  /\ last > s.last \/ n > 0 \/ final
              /\ n > 0 => last = all
              /\ asserts' = (asserts /\ CanRead(store[p].kv, s.last + 1, last))
              /\ session' = [session EXCEPT ![p] =
                    IF final THEN Without(@, c)
                    ELSE [@ EXCEPT ![c].last = last, ![c].todo = rest]]
              /\ net' = Answer(p, m,
                    [type |-> "CHUNK", cookie |-> c, final |-> final, last |-> last,
                     puts |-> versions \cup {s.todo[i] : i \in 1 .. n}])

handle_sync_get_chunk(p, m, msg) ==
    /\ msg.type = "GET_CHUNK"
    /\ UNCHANGED <<store, mem, log, faults>>
    /\ IF Serves(p, msg.cookie)
       THEN ChunkOf(p, m, msg.cookie)
       ELSE /\ session' = [session EXCEPT ![p] = Without(@, msg.cookie)]
            /\ net' = Answer(p, m, [type |-> "NO_COOKIE"])
            /\ UNCHANGED asserts

(* Monitor::sync_trim_providers: a session that nobody has used in time.   *)
sync_trim_providers(p) ==
    \E c \in DOMAIN session[p] :
        /\ faults < MaxFaults
        /\ faults' = faults + 1
        /\ session' = [session EXCEPT ![p] = Without(@, c)]
        /\ UNCHANGED <<store, mem, net, log, asserts>>

----------------------------------------------------------------------------
(* The requester.                                                          *)

(* Monitor::handle_sync_cookie.                                            *)
handle_sync_cookie(m, p, msg) ==
    /\ msg.type = "COOKIE"
    /\ UNCHANGED <<store, session, log, faults, asserts>>
    /\ IF mem[m].cookie # NoCookie \/ mem[m].provider # p
       THEN net' = Consume(m, p) /\ UNCHANGED mem
       ELSE /\ mem' = [mem EXCEPT ![m].cookie = msg.cookie, ![m].start = msg.last]
            /\ net' = Answer(m, p, [type |-> "GET_CHUNK", cookie |-> msg.cookie])

(* Monitor::handle_sync_no_cookie.                                         *)
handle_sync_no_cookie(m, p, msg) ==
    /\ msg.type = "NO_COOKIE"
    /\ mem' = [mem EXCEPT ![m] = bootstrap(m, @)]
    /\ net' = Consume(m, p)
    /\ UNCHANGED <<store, session, log, faults, asserts>>

(* Monitor::sync_finish: the stores it leads to, one per transaction.      *)
sync_finish(m, st, last) ==
    LET finished == IF mem[m].full
                    THEN [st EXCEPT !.kv = read_and_prepare(@, mem[m].start, last, log)]
                    ELSE st
    IN  <<finished, [finished EXCEPT !.inSync = FALSE, !.force = FALSE, !.floor = 0]>>

(* Monitor::handle_sync_chunk.                                             *)
handle_sync_chunk(m, p, msg) ==
    /\ msg.type = "CHUNK"
    /\ UNCHANGED log
    /\ IF msg.cookie # mem[m].cookie \/ mem[m].provider # p
       THEN Handled(m, <<store[m]>>, mem[m], Consume(m, p)) /\ UNCHANGED asserts
       ELSE LET put == [store[m] EXCEPT !.kv = Put(@, msg.puts)]
                first == mem[m].last + 1
                recent == [put EXCEPT !.kv = read_and_prepare(@, first, msg.last, log)]
                images == IF mem[m].full THEN <<put>> ELSE <<put, recent>>
                st == images[Len(images)]
                all == IF msg.final THEN images \o sync_finish(m, st, msg.last) ELSE images
                r == IF mem[m].full THEN mem[m] ELSE init_paxos(mem[m], st.kv)
            IN  /\ asserts' =
                      (/\ asserts
                       /\ mem[m].state = "synchronizing"
                       /\ ~ mem[m].full => CanRead(put.kv, first, msg.last)
                       /\ mem[m].full /\ msg.final =>
                            CanRead(put.kv, mem[m].start, msg.last)
                       /\ msg.final \/ ~ mem[m].full =>
                            all[Len(all)].kv[First] <= all[Len(all)].kv[Last])
                /\ IF msg.final
                   THEN Handled(m, all, bootstrap(m, init_paxos(r, all[Len(all)].kv)),
                                Consume(m, p))
                   ELSE Handled(m, all, r,
                                Answer(m, p, [type |-> "GET_CHUNK", cookie |-> msg.cookie]))

(* Monitor::sync_timeout.  It is a fault of the network or of the provider *)
(* when an answer would still have come.                                   *)
AnswerDue(m) ==
    \E p \in Mon : p = mem[m].provider /\ (net[m][p] # <<>> \/ net[p][m] # <<>>)

(* Mutant: the timer is not armed again when the cookie comes.             *)
sync_timeout_once(m) ==
    /\ mem[m].state = "synchronizing" /\ mem[m].cookie = NoCookie
    /\ IF AnswerDue(m) THEN faults < MaxFaults /\ faults' = faults + 1 ELSE UNCHANGED faults
    /\ mem' = [mem EXCEPT ![m] = bootstrap(m, @)]
    /\ UNCHANGED <<store, session, net, log, asserts>>

sync_timeout(m) ==
    /\ mem[m].state = "synchronizing"
    /\ IF AnswerDue(m) THEN faults < MaxFaults /\ faults' = faults + 1 ELSE UNCHANGED faults
    /\ mem' = [mem EXCEPT ![m] = bootstrap(m, @)]
    /\ UNCHANGED <<store, session, net, log, asserts>>

----------------------------------------------------------------------------
(* Elections and Paxos, as the synchronisation sees them.                  *)
Electable == {m \in Mon : mem[m].state \in {"electing", "active"}}

(* A quorum forms.  Paxos brings its members together from what they hold; *)
(* a member that the others can no longer serve bootstraps again           *)
(* (Paxos::handle_collect, handle_last).                                   *)
Elect ==
    LET Q == Electable
        epoch == CHOOSE e \in {Even(mem[m].epoch) + 2 : m \in Q} :
                    \A m \in Q : Even(mem[m].epoch) + 2 <= e
        lost == {m \in Q : \E n \in Q : mem[m].last + 1 < mem[n].first}
    IN  /\ IsMajority(Q) /\ \E m \in Q : mem[m].state = "electing"
        /\ mem' = [m \in Mon |->
              CASE m \in lost -> bootstrap(m, [mem[m] EXCEPT !.epoch = Odd(@)])
                [] m \in Q \ lost /\ lost # {} -> [mem[m] EXCEPT !.state = "electing",
                                                                !.epoch = Odd(@)]
                [] m \in Q /\ lost = {} -> [mem[m] EXCEPT !.state = "active", !.epoch = epoch]
                [] OTHER -> mem[m]]
        /\ UNCHANGED <<store, session, net, log, faults, asserts>>

(* A monitor whose quorum is gone bootstraps (Paxos::lease_timeout); one   *)
(* that is electing keeps calling elections.                               *)
LoseQuorum(m) ==
    /\ mem[m].state = "active" /\ ~ IsMajority(Electable)
    /\ mem' = [mem EXCEPT ![m] = bootstrap(m, @)]
    /\ UNCHANGED <<store, session, net, log, faults, asserts>>

Active == {m \in Mon : mem[m].state = "active"}

(* m has committed the version after its last one.                         *)
Committed(st, l) ==
    LET v == st.kv[Last] + 1
    IN  [st EXCEPT !.kv = [Replay(@, v, l) EXCEPT ![PaxosKey(v)] = 1, ![Last] = v]]

(* The leader commits a version that all of the quorum has stored; it may  *)
(* trim the log up to the version before.                                  *)
Commit(leader) ==
    LET v == Len(log) + 1
    IN  /\ leader \in Active /\ IsMajority(Active) /\ v <= MaxVersion
        /\ \A m \in Active : mem[m].last = v - 1
        /\ \E trim \in {0, v - 1} : log' = Append(log, trim)
        /\ store' = [m \in Mon |->
              CASE m = leader -> Committed(store[m], log')
                [] m \in Active \ {leader} -> [store[m] EXCEPT !.kv[PaxosKey(v)] = 1]
                [] OTHER -> store[m]]
        /\ mem' = [mem EXCEPT ![leader] = init_paxos(@, store'[leader].kv)]
        /\ UNCHANGED <<session, net, faults, asserts>>

(* Another member of the quorum follows.                                   *)
Learn(m) ==
    /\ m \in Active
    /\ \E n \in Active : mem[n].last > mem[m].last /\ mem[n].first <= mem[m].last + 1
    /\ store' = [store EXCEPT ![m] = Committed(@, log)]
    /\ mem' = [mem EXCEPT ![m] = init_paxos(@, store'[m].kv)]
    /\ UNCHANGED <<session, net, log, faults, asserts>>

----------------------------------------------------------------------------
Crash(m) ==
    /\ mem[m].state # "down"
    /\ UNCHANGED <<store, log, asserts>>
    /\ Crashed(m)

(* Monitor::sync_force: the operator orders a synchronisation at the next  *)
(* restart.                                                                *)
sync_force(m) ==
    /\ m \in Forced /\ mem[m].state # "down" /\ ~ store[m].force
    /\ store' = [store EXCEPT ![m].force = TRUE]
    /\ UNCHANGED <<mem, session, net, log, faults, asserts>>

(* Monitor::preinit: a store with the marker, or with the operator's       *)
(* order, is cleared.                                                      *)
preinit(st) == IF st.inSync \/ st.force THEN clear(st) ELSE st

Restart(m) ==
    /\ mem[m].state = "down"
    /\ store' = [store EXCEPT ![m] = preinit(@)]
    /\ mem' = [mem EXCEPT ![m] = Started(m, store'[m], Even(@.epoch))]
    /\ UNCHANGED <<session, net, log, faults, asserts>>

Deliver(m, p) ==
    /\ net[p][m] # <<>>
    /\ LET msg == Head(net[p][m])
       IN  \/ handle_probe_reply(m, p, msg)
           \/ handle_sync_get_cookie(m, p, msg)
           \/ handle_sync_get_chunk(m, p, msg)
           \/ handle_sync_cookie(m, p, msg)
           \/ handle_sync_no_cookie(m, p, msg)
           \/ handle_sync_chunk(m, p, msg)

Init ==
    /\ log = InitLog
    /\ store = [m \in Mon |->
                   [kv |-> Built(InitLast[m], InitLog), inSync |-> FALSE,
                    force |-> FALSE, floor |-> 0]]
    /\ mem = [m \in Mon |-> [Started(m, store[m], 2) EXCEPT
                  !.state = IF m \in InitQuorum THEN "active" ELSE @,
                  !.elector = m \in InitQuorum]]
    /\ session = [m \in Mon |-> <<>>]
    /\ net = [i \in Mon |-> [j \in Mon |-> <<>>]]
    /\ faults = 0
    /\ asserts = TRUE

Next ==
    \/ Elect
    \/ \E m \in Mon :
          \/ sync_trim_providers(m) \/ sync_timeout(m) \/ LoseQuorum(m)
          \/ Commit(m) \/ Learn(m) \/ Crash(m) \/ Restart(m) \/ sync_force(m)
          \/ \E p \in Mon : handle_probe(p, m) \/ Deliver(m, p)

(* Messages arrive, probes are answered, timers fire when no answer is     *)
(* due, a quorum forms when it can, and a monitor that stopped is started  *)
(* again.                                                                  *)
Fairness ==
    /\ WF_vars(Elect)
    /\ \A m \in Mon :
          /\ WF_vars(Restart(m)) /\ WF_vars(LoseQuorum(m)) /\ WF_vars(Learn(m))
          /\ WF_vars(~ AnswerDue(m) /\ sync_timeout(m))
          /\ WF_vars(\E p \in Mon : handle_probe(p, m))
          /\ \A p \in Mon : WF_vars(Deliver(m, p))

Spec == Init /\ [][Next]_vars /\ Fairness

----------------------------------------------------------------------------
TypeOK ==
    /\ store \in [Mon -> Store]
    /\ \A m \in Mon :
          /\ mem[m].state \in {"down", "probing", "synchronizing", "electing", "active"}
          /\ mem[m].provider # NoMon <=> mem[m].state = "synchronizing"
          /\ mem[m].last \in 0 .. Len(log) /\ mem[m].first \in 0 .. Len(log)
          /\ mem[m].state # "down" => mem[m].first <= mem[m].last

(* No ceph_assert of the synchronisation fails.                            *)
AssertsHold == asserts

(* Every store that is in use, or would be used after a restart, is        *)
(* exactly what the versions up to its last one make, wherever a crash has *)
(* cut the synchronisation.                                                *)
Whole(st) ==
    LET last == st.kv[Last]
        built == Built(last, log)
    IN  \A n \in Names \ (PaxosKey(last + 1) .. PaxosKey(MaxVersion)) : st.kv[n] = built[n]
WholeOrMarked ==
    \A m \in Mon : Whole(store[m]) \/ (store[m].inSync /\ mem[m].state # "active")

(* The newest version is on a majority of the stores that count, although  *)
(* monitors that had stored it may clear theirs.                           *)
Holds(m, v) ==
    /\ ~ store[m].inSync
    /\ store[m].kv[Last] >= v \/ (store[m].kv[Last] = v - 1 /\ store[m].kv[PaxosKey(v)] # 0)
LatestOnMajority == IsMajority({m \in Mon : Holds(m, Len(log))})

(* What m has, or has noted that it must have again before it counts.      *)
Promise(st) == IF st.inSync THEN st.floor ELSE st.kv[Last]

(* A crash in the middle of a synchronisation never takes a monitor back   *)
(* to before what it had committed, unless the operator has ordered it to  *)
(* start from nothing.                                                     *)
NeverForgets ==
    [][\A m \in Mon : store[m].force \/ Promise(store'[m]) >= Promise(store[m])]_vars

(* Every monitor ends up in the quorum, however far behind it was and      *)
(* wherever its synchronisation was cut.                                   *)
AllReturn == <>[](\A m \in Mon : mem[m].state = "active")
=============================================================================
