------------------------------- MODULE Paxos -------------------------------
(***************************************************************************)
(* The monitors' Paxos (Paxos.cc, Paxos.h) under the elections that        *)
(* MonElection promises: phase 1 (collect, last), phase 2 (begin, accept,  *)
(* commit), the asynchronous commit of the leader, leases, trimming, the   *)
(* timeouts, and crashes.                                                  *)
(*                                                                         *)
(* The functions of Paxos.cc call one another several levels deep.  They   *)
(* are operators on a call context c: the memory s and the store st of the *)
(* monitor that runs them, the epoch it is in and what it has sent so far. *)
(* A handler, which runs under the monitor's lock, is one action.          *)
(***************************************************************************)
EXTENDS Integers, Sequences, FiniteSets, FiniteSetsExt

CONSTANTS N,           \* monmap->size(): the ranks are 0 .. N-1
          paxos_min,   \* versions to keep
          paxos_trim_min, paxos_trim_max,
          MaxVersion,  \* bound on the versions proposed
          MaxEpoch,    \* bound on the election epochs
          MaxCrash,    \* bound on crashes
          MaxRenew     \* bound on lease renewals

ASSUME PaxosAssumption ==
    /\ N \in Nat \ {0, 1} /\ N <= 100
    /\ {paxos_min, paxos_trim_min, paxos_trim_max} \subseteq Nat
    /\ {MaxVersion, MaxEpoch, MaxCrash, MaxRenew} \subseteq Nat

VARIABLES epoch,     \* epoch[m]: the election epoch (durable)
          role,      \* Monitor::state: "probing", "electing", "leader" or "peon"
          flushing,  \* flushing[m]: m, the leader, joins an election: waits for its write
          leader, quorum,
          mem,       \* mem[m]: the fields of class Paxos
          store,     \* store[m]: the "paxos" keys of the store
          net,       \* net[i][j]: the session from i to j
          chosen,    \* history: the first value committed for each version
          budget     \* what is left of the bounded steps

vars == <<epoch, role, flushing, leader, quorum, mem, store, net, chosen, budget>>

Mon == 0 .. N - 1
IsMajority(q) == 2 * Cardinality(q) > N
None == -1

Version == 1 .. MaxVersion + 1
NoValue == [pn |-> 0, first |-> 0]
(* A transaction: who proposed it, and the first_committed it puts, if any. *)
Tx(pn, first) == [pn |-> pn, first |-> first]

Timer == {"collect", "accept", "lease_ack", "lease", "lease_renew"}
State == {"recovering", "active", "updating", "updating_previous",
          "writing", "writing_previous"}

Updating(s) == s.state \in {"updating", "updating_previous"}
Writing(s) == s.state \in {"writing", "writing_previous"}

----------------------------------------------------------------------------
(* Paxos::init: the fields as a starting process sets them.                *)
Loaded(st) ==
    [state |-> "recovering",
     accepted_pn |-> st.accepted_pn,
     last_committed |-> st.last_committed,
     first_committed |-> st.first_committed,
     uncommitted_v |-> 0, uncommitted_pn |-> 0, uncommitted_value |-> NoValue,
     num_last |-> 0,
     peer_last_committed |-> [p \in Mon |-> None],
     new_value |-> NoValue,
     accepted |-> {},
     lease |-> FALSE,          \* lease_expire is set (it may be over)
     acked_lease |-> {},
     timers |-> {},
     pending |-> FALSE]        \* there is a pending_proposal

(* Paxos::restart, leader_init, peon_init: what a monitor forgets when it  *)
(* changes roles.  accepted_pn and the committed versions stay.  (Fields   *)
(* that collect, begin and extend_lease set before they are read again are *)
(* reset here already.)                                                    *)
Reset(s) ==
    [Loaded([accepted_pn |-> 0, last_committed |-> s.last_committed,
             first_committed |-> s.first_committed])
         EXCEPT !.accepted_pn = s.accepted_pn]

EmptyStore ==
    [accepted_pn |-> 0, last_pn |-> 0, last_committed |-> 0, first_committed |-> 0,
     log |-> [v \in Version |-> NoValue], pending_v |-> 0, pending_pn |-> 0]

Init ==
    /\ epoch = [m \in Mon |-> 0]      \* nothing stored yet
    /\ role = [m \in Mon |-> "probing"]
    /\ flushing = [m \in Mon |-> FALSE]
    /\ leader = [m \in Mon |-> None]
    /\ quorum = [m \in Mon |-> {}]
    /\ store = [m \in Mon |-> EmptyStore]
    /\ mem = [m \in Mon |-> Loaded(EmptyStore)]
    /\ net = [i \in Mon |-> [j \in Mon |-> <<>>]]
    /\ chosen = <<>>
    /\ budget = [crash |-> MaxCrash, renew |-> MaxRenew]

----------------------------------------------------------------------------
(* Call contexts.                                                          *)

Call(m) == [s |-> mem[m], st |-> store[m], epoch |-> epoch[m], quorum |-> quorum[m],
            sent |-> [j \in Mon |-> <<>>]]

SendTo(c, dest, msg) ==
    [c EXCEPT !.sent = [j \in Mon |-> IF j \in dest THEN Append(@[j], msg) ELSE @[j]]]

Peers(m, c) == c.quorum \ {m}

(* Decode a transaction and apply it: it may erase the trimmed versions.   *)
apply(st, x) ==
    [st EXCEPT !.first_committed = IF x.first = 0 THEN @ ELSE x.first,
               !.log = [v \in Version |-> IF v < x.first THEN NoValue ELSE @[v]]]

(* The pn under which the value after last_committed was accepted.         *)
pending_pn(st, v, otherwise) ==
    IF st.pending_v = v /\ st.pending_pn # 0 THEN st.pending_pn ELSE otherwise

get_new_proposal_number(m, st, gt) == (Max({st.last_pn, gt}) \div 100 + 1) * 100 + m

----------------------------------------------------------------------------
(* Phase 1.                                                                *)

(* Mutant: an uncommitted value of one's own is not looked for. *)
collect_forgets(m, c, oldpn) ==
    LET pn == get_new_proposal_number(m, c.st, Max({c.s.accepted_pn, oldpn}))
        s == [c.s EXCEPT !.state = "recovering", !.uncommitted_v = 0, !.uncommitted_pn = 0,
                         !.uncommitted_value = NoValue,
                         !.peer_last_committed = [p \in Mon |-> None],
                         !.accepted_pn = pn, !.num_last = 1,
                         !.timers = @ \union {"collect"}]
    IN  SendTo([c EXCEPT !.s = s, !.st.last_pn = pn], Peers(m, c),
               [op |-> "collect", epoch |-> c.epoch, pn |-> pn,
                last_committed |-> s.last_committed, first_committed |-> s.first_committed])

collect(m, c, oldpn) ==
    LET v == c.s.last_committed + 1
        own == c.st.log[v] # NoValue
        pn == get_new_proposal_number(m, c.st, Max({c.s.accepted_pn, oldpn}))
        s == [c.s EXCEPT
                 !.state = "recovering",
                 !.uncommitted_v = IF own THEN v ELSE 0,
                 !.uncommitted_pn = IF own THEN pending_pn(c.st, v, c.s.accepted_pn) ELSE 0,
                 !.uncommitted_value = c.st.log[v],
                 !.peer_last_committed = [p \in Mon |-> None],
                 !.accepted_pn = pn,
                 !.num_last = 1,
                 !.timers = @ \union {"collect"}]
    IN  SendTo([c EXCEPT !.s = s, !.st.last_pn = pn], Peers(m, c),
               [op |-> "collect", epoch |-> c.epoch, pn |-> pn,
                last_committed |-> s.last_committed, first_committed |-> s.first_committed])

(* The committed versions after lc that the store holds.                   *)
share_state(c, lc) ==
    [v \in {w \in Version : w > lc /\ w <= c.s.last_committed /\ c.st.log[w] # NoValue}
        |-> c.st.log[v]]

(* Mutant: the accepted value that comes along is taken as committed too. *)
store_state_all(c, lc, values) ==
    LET new == {v \in DOMAIN values : v > c.s.last_committed}
        put == [c.st EXCEPT !.last_committed = Max(new),
                            !.log = [v \in Version |-> IF v \in new THEN values[v] ELSE @[v]]]
        st == apply(put, Tx(0, Max({values[v].first : v \in new})))
    IN  IF new = {} THEN c
        ELSE [c EXCEPT !.st = st,
                       !.s.last_committed = st.last_committed,
                       !.s.first_committed = st.first_committed]

(* Commit the values of a message, up to its last_committed, unless they   *)
(* start in the future.                                                    *)
store_state(c, lc, values) ==
    LET future == DOMAIN values # {} /\ Min(DOMAIN values) > c.s.last_committed + 1
        new == {v \in DOMAIN values : v > c.s.last_committed /\ v <= lc}
        put == [c.st EXCEPT !.last_committed = Max(new),
                            !.log = [v \in Version |-> IF v \in new THEN values[v] ELSE @[v]]]
        st == apply(put, Tx(0, Max({values[v].first : v \in new})))
        stale == c.s.uncommitted_v <= st.last_committed
    IN  IF future \/ new = {} THEN c
        ELSE [c EXCEPT !.st = st,
                       !.s.last_committed = st.last_committed,
                       !.s.first_committed = st.first_committed,
                       !.s.uncommitted_v = IF stale THEN 0 ELSE @,
                       !.s.uncommitted_pn = IF stale THEN 0 ELSE @,
                       !.s.uncommitted_value = IF stale THEN NoValue ELSE @]

----------------------------------------------------------------------------
(* Phase 2, leases, and the end of a round.                                *)

begin(m, c, x) ==
    LET v == c.s.last_committed + 1
        value == IF c.s.last_committed = 0 THEN Tx(x.pn, 1) ELSE x
    IN  SendTo([c EXCEPT !.s.accepted = {m}, !.s.new_value = value,
                         !.s.timers = @ \union {"accept"},
                         !.st.log[v] = value,
                         !.st.pending_v = v, !.st.pending_pn = c.s.accepted_pn],
               Peers(m, c),
               [op |-> "begin", epoch |-> c.epoch, pn |-> c.s.accepted_pn,
                last_committed |-> c.s.last_committed, value |-> value])

(* Mutant: the timers of the active state keep running. *)
propose_pending_timed(m, c, first) ==
    begin(m, [c EXCEPT !.s.state = "updating", !.s.pending = FALSE], Tx(c.s.accepted_pn, first))

(* propose_pending cancels all the timers.                                 *)
propose_pending(m, c, first) ==
    begin(m, [c EXCEPT !.s.state = "updating", !.s.pending = FALSE, !.s.timers = {}],
          Tx(c.s.accepted_pn, first))

(* Mutant: the lease is not renewed. *)
extend_lease_once(m, c) ==
    SendTo([c EXCEPT !.s.lease = TRUE, !.s.acked_lease = {m},
                     !.s.timers = @ \union {"lease_ack"}],
           Peers(m, c),
           [op |-> "lease", epoch |-> c.epoch, last_committed |-> c.s.last_committed])

extend_lease(m, c) ==
    SendTo([c EXCEPT !.s.lease = TRUE, !.s.acked_lease = {m},
                     !.s.timers = @ \union {"lease_ack", "lease_renew"}],
           Peers(m, c),
           [op |-> "lease", epoch |-> c.epoch, last_committed |-> c.s.last_committed])

(* The first version to keep if it is time to trim, or 0.                  *)
trim(s) ==
    LET end == Min({s.last_committed - paxos_min, s.first_committed + paxos_trim_max}) IN
    IF s.last_committed - s.first_committed > paxos_min + paxos_trim_min
       /\ s.first_committed < end
    THEN end ELSE 0

(* Mutant: what is pending is not proposed. *)
finish_round_idle(m, c) == [c EXCEPT !.s.state = "active"]

(* The leader is active again; it trims and proposes what has been queued. *)
finish_round(m, c) ==
    LET a == [c EXCEPT !.s.state = "active"]
        first == trim(c.s)
    IN  IF (c.s.pending \/ first # 0) /\ c.s.last_committed < MaxVersion
        THEN propose_pending(m, a, first) ELSE a

commit_start(c) ==
    [c EXCEPT !.s.state = IF @ = "updating" THEN "writing" ELSE "writing_previous",
              !.s.timers = @ \ {"accept"}]

commit_finish(m, c) ==
    LET v == c.s.last_committed + 1
        s == [c.s EXCEPT !.lease = FALSE, !.last_committed = v,
                         !.first_committed = c.st.first_committed,
                         !.new_value = NoValue]
        told == SendTo([c EXCEPT !.s = s], Peers(m, c),
                       [op |-> "commit", epoch |-> c.epoch, last_committed |-> v,
                        values |-> [w \in {v} |-> c.s.new_value]])
    IN  finish_round(m, extend_lease(m, told))

----------------------------------------------------------------------------
(* How an action ends.                                                     *)

Consumed(from, m) == [net EXCEPT ![from][m] = Tail(@)]

(* Whether a monitor of epoch e and role r listens to msg.                 *)
Heard(msg, e, r) == msg.epoch > e \/ (msg.epoch = e /\ r \in {"leader", "peon"})

(* The messages of the session q from the first one that is heard.         *)
Pending(q, e, r) ==
    LET heard == {k \in DOMAIN q : Heard(q[k], e, r)} IN
    IF heard = {} THEN <<>> ELSE SubSeq(q, Min(heard), Len(q))

(* A message of an epoch that its receiver has left will be dropped when   *)
(* it comes: it is dropped as soon as it is the first of its session.      *)
Prune(n) == [i \in Mon |-> [j \in Mon |-> Pending(n[i][j], epoch'[j], role'[j])]]

Sent(n, m, c) == [n EXCEPT ![m] = [j \in Mon |-> @[j] \o c.sent[j]]]

(* m stays in its quorum with the result of the calls c.                   *)
Return(m, c, n) ==
    /\ UNCHANGED <<epoch, role, flushing, leader, quorum>>
    /\ mem' = [mem EXCEPT ![m] = c.s]
    /\ store' = [store EXCEPT ![m] = c.st]
    /\ net' = Prune(Sent(n, m, c))

(* m leaves its quorum with the result of the calls c: Monitor::_reset.    *)
Leave(m, c, e, r, n) ==
    /\ e <= MaxEpoch
    /\ epoch' = [epoch EXCEPT ![m] = e]
    /\ role' = [role EXCEPT ![m] = r]
    /\ flushing' = [flushing EXCEPT ![m] = FALSE]
    /\ leader' = [leader EXCEPT ![m] = None]
    /\ quorum' = [quorum EXCEPT ![m] = {}]
    /\ mem' = [mem EXCEPT ![m] = Reset(c.s)]
    /\ store' = [store EXCEPT ![m] = c.st]
    /\ net' = Prune(Sent(n, m, c))

(* Monitor::bootstrap; it waits for a write in progress.                   *)
bootstrap(m, c, n) ==
    /\ ~Writing(mem[m])
    /\ Leave(m, c, epoch[m], "probing", n)

(* m enters the quorum q of leader l in epoch e, with memory s.            *)
Join(m, c, r, l, n) ==
    /\ c.epoch <= MaxEpoch
    /\ epoch' = [epoch EXCEPT ![m] = c.epoch]
    /\ role' = [role EXCEPT ![m] = r]
    /\ leader' = [leader EXCEPT ![m] = l]
    /\ quorum' = [quorum EXCEPT ![m] = c.quorum]
    /\ mem' = [mem EXCEPT ![m] = c.s]
    /\ store' = [store EXCEPT ![m] = c.st]
    /\ net' = Prune(Sent(n, m, c))
    /\ UNCHANGED flushing

----------------------------------------------------------------------------
(* The election: the steps of MonElection.                                 *)

NextOdd(e) == IF e % 2 = 0 THEN e + 1 ELSE e + 2

(* Monitor::start_election; it waits for a write in progress.              *)
start_election(m) ==
    /\ ~flushing[m] /\ ~Writing(mem[m])
    /\ Leave(m, Call(m), NextOdd(epoch[m]), "electing", net)
    /\ UNCHANGED <<chosen, budget>>

(* m hears a proposal of a later epoch.  bump_epoch enters the epoch first *)
(* and then waits for the write: commit_finish runs in the new epoch.      *)
join_election(m, p) ==
    /\ role[m] # "probing" /\ ~flushing[m]
    /\ role[p] = "electing" /\ epoch[p] > epoch[m]
    /\ \/ ~Writing(mem[m]) /\ Leave(m, Call(m), epoch[p], "electing", net)
       \/ /\ Writing(mem[m])
          /\ epoch' = [epoch EXCEPT ![m] = epoch[p]]
          /\ flushing' = [flushing EXCEPT ![m] = TRUE]
          /\ UNCHANGED <<role, leader, quorum, mem, store, net>>
    /\ UNCHANGED <<chosen, budget>>

(* Monitor::win_election and Paxos::leader_init.  The victory messages go  *)
(* out first; the metadata of the quorum is the first pending proposal.    *)
win_election(m) ==
    /\ role[m] = "electing"
    /\ \E q \in SUBSET {p \in Mon : p >= m /\ epoch[p] >= epoch[m]} :
        /\ m \in q /\ IsMajority(q)
        /\ LET c == [Call(m) EXCEPT !.s = Reset(@), !.epoch = @ + 1, !.quorum = q]
               v == SendTo(c, Peers(m, c), [op |-> "victory", epoch |-> c.epoch, quorum |-> q])
           IN  Join(m, [collect(m, v, 0) EXCEPT !.s.pending = TRUE], "leader", m, net)
    /\ UNCHANGED <<chosen, budget>>

(* ElectionLogic::receive_victory_claim, then Monitor::lose_election and   *)
(* Paxos::peon_init.  A probing monitor drops the message.  The victory of *)
(* an epoch m is already in (a second winner) makes it call an election.   *)
handle_victory(m, from, msg) ==
    LET n == Consumed(from, m) IN
    \/ /\ role[m] = "probing"
       /\ Return(m, Call(m), n)
    \/ /\ role[m] = "electing" /\ msg.epoch = epoch[m] + 1
       /\ Join(m, [Call(m) EXCEPT !.s = [Reset(mem[m]) EXCEPT !.timers = {"lease"}],
                                  !.epoch = msg.epoch, !.quorum = msg.quorum],
               "peon", from, n)
    \/ /\ role[m] # "probing" /\ msg.epoch # epoch[m] + 1
       /\ ~Writing(mem[m])
       /\ Leave(m, Call(m), NextOdd(msg.epoch), "electing", n)

----------------------------------------------------------------------------
(* Paxos::dispatch: one handler per message.                               *)

handle_collect(m, from, msg) ==
    LET c == Call(m)
        s == c.s
        n == Consumed(from, m)
        next == s.last_committed + 1
        accepts == msg.pn > s.accepted_pn
        pn == IF accepts THEN msg.pn ELSE s.accepted_pn
        uncommitted == msg.last_committed <= s.last_committed /\ c.st.log[next] # NoValue
        values == [v \in DOMAIN share_state(c, msg.last_committed)
                            \union (IF uncommitted THEN {next} ELSE {}) |-> c.st.log[v]]
        replied == [c EXCEPT !.s.state = "recovering", !.s.timers = @ \union {"lease"},
                             !.s.accepted_pn = pn,
                             !.st.accepted_pn = IF accepts THEN pn ELSE @]
    IN  \/ /\ msg.first_committed > next
           /\ bootstrap(m, c, n)
        \/ /\ msg.first_committed <= next
           /\ Return(m, SendTo(replied, {from},
                  [op |-> "last", epoch |-> c.epoch, pn |-> pn,
                   last_committed |-> s.last_committed,
                   first_committed |-> s.first_committed, values |-> values,
                   uncommitted_pn |-> IF uncommitted
                                      THEN pending_pn(c.st, next, s.accepted_pn) ELSE 0]), n)

(* The peers that have answered and miss committed versions are sent them, *)
(* in rank order, again with every answer.                                 *)
TooLow(s, p) == s.peer_last_committed[p] # None
                /\ s.peer_last_committed[p] + 1 < s.first_committed /\ s.first_committed > 1

Behind(s, p) == s.peer_last_committed[p] # None
                /\ s.peer_last_committed[p] < s.last_committed

(* Mutant: a peer that lags behind is not told. *)
update_peers_silent(c) == c

update_peers(c) ==
    LET told == {p \in Mon : Behind(c.s, p) /\ \A q \in 0 .. p : ~TooLow(c.s, q)}
    IN  [c EXCEPT !.sent = [p \in Mon |->
            IF p \in told
            THEN Append(@[p], [op |-> "commit", epoch |-> c.epoch,
                               last_committed |-> c.s.last_committed,
                               values |-> share_state(c, c.s.peer_last_committed[p])])
            ELSE @[p]]]

(* Mutant: an uncommitted value already known is never replaced. *)
learn_uncommitted_first(c, msg) ==
    IF c.s.uncommitted_pn = 0 /\ msg.uncommitted_pn # 0
       /\ msg.last_committed >= c.s.last_committed
    THEN [c EXCEPT !.s.uncommitted_v = msg.last_committed + 1,
                   !.s.uncommitted_pn = msg.uncommitted_pn,
                   !.s.uncommitted_value = msg.values[msg.last_committed + 1]]
    ELSE c

(* The value of the highest proposal number is the one to go on with.      *)
learn_uncommitted(c, msg) ==
    IF /\ msg.uncommitted_pn # 0
       /\ msg.uncommitted_pn >= c.s.uncommitted_pn
       /\ msg.last_committed >= c.s.last_committed
       /\ msg.last_committed + 1 >= c.s.uncommitted_v
    THEN [c EXCEPT !.s.uncommitted_v = msg.last_committed + 1,
                   !.s.uncommitted_pn = msg.uncommitted_pn,
                   !.s.uncommitted_value = msg.values[msg.last_committed + 1]]
    ELSE c

(* Everyone has answered: go on with an old value, or become active.       *)
collected(m, c) ==
    LET d == [c EXCEPT !.s.timers = @ \ {"collect"},
                       !.s.peer_last_committed = [p \in Mon |-> None]]
    IN  IF c.s.uncommitted_v = c.s.last_committed + 1
        THEN begin(m, [d EXCEPT !.s.state = "updating_previous"], c.s.uncommitted_value)
        ELSE finish_round(m, extend_lease(m, d))

(* Two monitors whose versions do not meet any more (one has trimmed what  *)
(* the other needs) cannot go on: bootstrap, to synchronize.               *)
handle_last(m, from, msg) ==
    LET n == Consumed(from, m)
        noted == [Call(m) EXCEPT !.s.peer_last_committed[from] = msg.last_committed]
        c == update_peers(store_state(noted, msg.last_committed, msg.values))
        l == learn_uncommitted([c EXCEPT !.s.num_last = @ + 1], msg)
        ahead == msg.first_committed > mem[m].last_committed + 1
        apart == ahead \/ \E p \in Mon : TooLow(c.s, p)
    IN  \/ /\ apart
           /\ bootstrap(m, IF ahead THEN noted ELSE c, n)
        \/ /\ ~apart
           /\ \/ msg.pn > c.s.accepted_pn /\ Return(m, collect(m, c, msg.pn), n)
              \/ msg.pn < c.s.accepted_pn /\ Return(m, c, n)
              \/ /\ msg.pn = c.s.accepted_pn
                 /\ Return(m, IF l.s.num_last = Cardinality(l.quorum)
                              THEN collected(m, l) ELSE l, n)

handle_begin(m, from, msg) ==
    LET c == Call(m)
        v == c.s.last_committed + 1
        accepted == [c EXCEPT !.s.state = "updating", !.s.lease = FALSE,
                              !.st.log[v] = msg.value,
                              !.st.pending_v = v, !.st.pending_pn = c.s.accepted_pn]
    IN  Return(m, IF msg.pn < c.s.accepted_pn THEN c
                  ELSE SendTo(accepted, {from},
                              [op |-> "accept", epoch |-> c.epoch, pn |-> c.s.accepted_pn,
                               last_committed |-> c.s.last_committed]),
               Consumed(from, m))

(* accept.last_committed is of this round, or of an old one.               *)
accept_counts(s, msg) ==
    /\ msg.pn = s.accepted_pn
    /\ s.last_committed > 0 => msg.last_committed >= s.last_committed - 1

(* Mutant: a majority of the quorum is enough. *)
handle_accept_majority(m, from, msg) ==
    LET c == [Call(m) EXCEPT !.s.accepted = @ \union {from}] IN
    Return(m, IF ~accept_counts(mem[m], msg) THEN Call(m)
              ELSE IF IsMajority(c.s.accepted) THEN commit_start(c) ELSE c,
           Consumed(from, m))

(* The leader commits only when the whole quorum has accepted.             *)
handle_accept(m, from, msg) ==
    LET c == [Call(m) EXCEPT !.s.accepted = @ \union {from}] IN
    Return(m, IF ~accept_counts(mem[m], msg) THEN Call(m)
              ELSE IF c.s.accepted = quorum[m] THEN commit_start(c) ELSE c,
           Consumed(from, m))

handle_commit(m, from, msg) ==
    Return(m, store_state(Call(m), msg.last_committed, msg.values), Consumed(from, m))

handle_lease(m, from, msg) ==
    LET c == Call(m)
        granted == [c EXCEPT !.s.lease = TRUE, !.s.state = "active",
                             !.s.timers = @ \union {"lease"}]
    IN  Return(m, IF role[m] = "peon" /\ c.s.last_committed = msg.last_committed
                  THEN SendTo(granted, {from}, [op |-> "lease_ack", epoch |-> c.epoch])
                  ELSE c,
               Consumed(from, m))

handle_lease_ack(m, from, msg) ==
    LET c == Call(m)
        acked == c.s.acked_lease \union {from}
    IN  Return(m, IF "lease_ack" \in c.s.timers
                  THEN [c EXCEPT !.s.acked_lease = acked,
                                 !.s.timers = IF acked = quorum[m] THEN @ \ {"lease_ack"} ELSE @]
                  ELSE c,
               Consumed(from, m))

(* Monitor::dispatch_op: a Paxos message of a later epoch means that m has *)
(* missed an election.                                                     *)
dispatch(m, from) ==
    LET msg == Head(net[from][m]) IN
    /\ net[from][m] # <<>> /\ ~flushing[m]
    /\ \/ msg.op = "victory" /\ handle_victory(m, from, msg)
       \/ /\ msg.op # "victory" /\ msg.epoch > epoch[m]
          /\ bootstrap(m, Call(m), Consumed(from, m))
       \/ /\ msg.epoch = epoch[m]
          /\ \/ msg.op = "collect" /\ handle_collect(m, from, msg)
             \/ msg.op = "last" /\ handle_last(m, from, msg)
             \/ msg.op = "begin" /\ handle_begin(m, from, msg)
             \/ msg.op = "accept" /\ handle_accept(m, from, msg)
             \/ msg.op = "commit" /\ handle_commit(m, from, msg)
             \/ msg.op = "lease" /\ handle_lease(m, from, msg)
             \/ msg.op = "lease_ack" /\ handle_lease_ack(m, from, msg)
    /\ UNCHANGED <<chosen, budget>>

----------------------------------------------------------------------------
(* The store applies the queued transaction of commit_start...             *)
apply_transaction(m) ==
    LET s == mem[m]
        v == s.last_committed + 1
    IN  /\ Writing(s) /\ store[m].last_committed = s.last_committed
        /\ store' = [store EXCEPT ![m] = apply([store[m] EXCEPT !.last_committed = v], s.new_value)]
        /\ chosen' = IF v = Len(chosen) + 1 THEN Append(chosen, s.new_value) ELSE chosen
        /\ UNCHANGED <<epoch, role, flushing, leader, quorum, mem, net, budget>>

(* ...and its completion takes the lock and runs commit_finish.  If the    *)
(* monitor was waiting for it, it then leaves the quorum.                  *)
committed(m) ==
    LET c == commit_finish(m, Call(m)) IN
    /\ Writing(mem[m]) /\ store[m].last_committed = mem[m].last_committed + 1
    /\ \/ ~flushing[m] /\ Return(m, c, net)
       \/ flushing[m] /\ Leave(m, c, epoch[m], "electing", net)
    /\ UNCHANGED <<chosen, budget>>

(* A service queues a transaction and triggers a proposal.                 *)
trigger_propose(m) ==
    LET c == Call(m) IN
    /\ role[m] = "leader" /\ ~flushing[m] /\ ~mem[m].pending
    /\ mem[m].last_committed < MaxVersion
    /\ Return(m, IF c.s.state = "active" THEN propose_pending(m, c, 0)
                 ELSE [c EXCEPT !.s.pending = TRUE], net)
    /\ UNCHANGED <<chosen, budget>>

(* The timer t fires, and the monitor gives up its quorum.                 *)
Expire(m, t) ==
    /\ t \in mem[m].timers /\ ~flushing[m]
    /\ bootstrap(m, Call(m), net)
    /\ UNCHANGED <<chosen, budget>>

collect_timeout(m) == Expire(m, "collect")
accept_timeout(m) == Expire(m, "accept")
lease_ack_timeout(m) == Expire(m, "lease_ack")
lease_timeout(m) == Expire(m, "lease")

lease_renew_timeout(m) ==
    /\ "lease_renew" \in mem[m].timers /\ ~flushing[m] /\ budget.renew > 0
    /\ Return(m, extend_lease(m, Call(m)), net)
    /\ budget' = [budget EXCEPT !.renew = @ - 1]
    /\ UNCHANGED chosen

(* m dies and starts again; what it had sent to the peers in lost is gone. *)
crash(m) ==
    /\ budget.crash > 0
    /\ budget' = [budget EXCEPT !.crash = @ - 1]
    /\ epoch' = epoch
    /\ role' = [role EXCEPT ![m] = "probing"]
    /\ flushing' = [flushing EXCEPT ![m] = FALSE]
    /\ leader' = [leader EXCEPT ![m] = None]
    /\ quorum' = [quorum EXCEPT ![m] = {}]
    /\ mem' = [mem EXCEPT ![m] = Loaded(store[m])]
    /\ \E lost \in SUBSET {j \in Mon : net[m][j] # <<>>} :
           net' = Prune([i \in Mon |-> [j \in Mon |->
                      IF j = m \/ (i = m /\ j \in lost) THEN <<>> ELSE net[i][j]]])
    /\ UNCHANGED <<store, chosen>>

Next ==
    \E m \in Mon :
        \/ start_election(m)
        \/ \E p \in Mon : join_election(m, p)
        \/ win_election(m)
        \/ \E from \in Mon : dispatch(m, from)
        \/ apply_transaction(m)
        \/ committed(m)
        \/ trigger_propose(m)
        \/ collect_timeout(m)
        \/ accept_timeout(m)
        \/ lease_ack_timeout(m)
        \/ lease_timeout(m)
        \/ lease_renew_timeout(m)
        \/ crash(m)

Spec == Init /\ [][Next]_vars

(* The messenger delivers and the store writes.  Nothing obliges a timer   *)
(* to fire, a service to propose or an election to take place.             *)
Progress ==
    \E m \in Mon :
        \/ \E from \in Mon : dispatch(m, from)
        \/ apply_transaction(m)
        \/ committed(m)

(* Some step of Progress can be taken.  (The second winner's victory in    *)
(* the last epoch would take its receiver beyond MaxEpoch.)                *)
CanProgress ==
    \E m \in Mon :
        \/ Writing(mem[m])
        \/ \E from \in Mon :
              /\ net[from][m] # <<>>
              /\ ~(Head(net[from][m]).op = "victory" /\ Head(net[from][m]).epoch = MaxEpoch
                   /\ epoch[m] = MaxEpoch)

(* Weak fairness of Progress, with its enabling condition written out.     *)
FairSpec == Spec /\ ([]<>~CanProgress \/ []<><<Progress>>_vars)

----------------------------------------------------------------------------
(* A transaction or NoValue. *)
Tx_ == [pn : Nat, first : 0 .. MaxVersion]

(* The variables keep their types. *)
TypeOK ==
    /\ epoch \in [Mon -> 0 .. MaxEpoch]
    /\ role \in [Mon -> {"probing", "electing", "leader", "peon"}]
    /\ flushing \in [Mon -> BOOLEAN]
    /\ leader \in [Mon -> Mon \union {None}]
    /\ quorum \in [Mon -> SUBSET Mon]
    /\ mem \in [Mon ->
        [state : State, accepted_pn : Nat, last_committed : Nat, first_committed : Nat,
         uncommitted_v : Nat, uncommitted_pn : Nat, uncommitted_value : Tx_,
         num_last : 0 .. N, peer_last_committed : [Mon -> Nat \union {None}],
         new_value : Tx_, accepted : SUBSET Mon, lease : BOOLEAN,
         acked_lease : SUBSET Mon, timers : SUBSET Timer, pending : BOOLEAN]]
    /\ store \in [Mon ->
        [accepted_pn : Nat, last_pn : Nat, last_committed : 0 .. MaxVersion,
         first_committed : 0 .. MaxVersion, log : [Version -> Tx_],
         pending_v : 0 .. MaxVersion, pending_pn : Nat]]
    /\ chosen \in Seq(Tx_)
    /\ budget \in [crash : 0 .. MaxCrash, renew : 0 .. MaxRenew]

(* The first message m is to hear from from is of its epoch.               *)
Hearing(m, from) ==
    /\ net[from][m] # <<>> /\ ~flushing[m]
    /\ Head(net[from][m]).epoch = epoch[m] /\ Head(net[from][m]).op # "victory"

(* The ceph_asserts of Paxos.cc on roles hold: the Paxos messages of an     *)
(* epoch come to a peon only from its one leader and to a leader only from *)
(* its peons, and a timer that fires finds the role it was armed in.       *)
RolesHold ==
    /\ \A m, from \in Mon : Hearing(m, from) =>
            IF Head(net[from][m]).op \in {"last", "accept", "lease_ack"}
            THEN role[m] = "leader" /\ from \in quorum[m] \ {m}
            ELSE role[m] = "peon" /\ from = leader[m]
    /\ \A m \in Mon : \A t \in mem[m].timers :
            role[m] = IF t = "lease" THEN "peon" ELSE "leader"

(* The ceph_asserts of Paxos.cc on rounds hold: a BEGIN finds the peon     *)
(* promised to that pn, an ACCEPT finds an update going on that it has not *)
(* been counted for, a timer finds the state it was armed in, begin finds  *)
(* a majority and no value in flight, and memory and store agree on        *)
(* last_committed unless a write is on its way.                            *)
RoundsHold ==
    /\ \A m, from \in Mon : Hearing(m, from) =>
            LET msg == Head(net[from][m])
                s == mem[m]
            IN  /\ msg.op = "begin" /\ msg.pn >= s.accepted_pn => msg.pn = s.accepted_pn
                /\ msg.op = "accept" /\ accept_counts(s, msg) =>
                       Updating(s) /\ from \notin s.accepted
    /\ \A m \in Mon :
        LET s == mem[m] IN
        /\ "accept" \in s.timers => Updating(s) \/ Writing(s)
        /\ "lease_ack" \in s.timers => s.state = "active"
        /\ ~Writing(s) => store[m].last_committed = s.last_committed
        /\ s.new_value # NoValue => Updating(s) \/ Writing(s)
        /\ Updating(s) /\ role[m] = "leader" => 2 * s.num_last > N

(* None of the ceph_asserts of Paxos.cc that a message or a timer meets    *)
(* fires, those on versions aside.                                         *)
AssertsHold == RolesHold /\ RoundsHold

(* Nor do those on versions: a BEGIN, and an ACCEPT that counts, find the  *)
(* receiver at the version the sender was at, or a leader that has just    *)
(* committed it.                                                           *)
VersionsHold ==
    \A m, from \in Mon : Hearing(m, from) =>
        LET msg == Head(net[from][m])
            s == mem[m]
        IN  /\ msg.op = "begin" /\ msg.pn >= s.accepted_pn =>
                   msg.last_committed = s.last_committed
            /\ msg.op = "accept" /\ accept_counts(s, msg) =>
                   msg.last_committed \in {s.last_committed, s.last_committed - 1}

(* Every monitor in a quorum waits for something that is bound to happen:  *)
(* a timer is armed, or its store is writing.                              *)
WaitsAreTimed ==
    \A m \in Mon :
        LET s == mem[m] IN
        /\ role[m] = "peon" => "lease" \in s.timers
        /\ role[m] = "leader" =>
               CASE s.state = "recovering" -> "collect" \in s.timers
                 [] Updating(s) -> "accept" \in s.timers
                 [] s.state = "active" -> "lease_renew" \in s.timers
                 [] OTHER -> Writing(s)

(* The committed part of every store is its copy of the log.               *)
Log == INSTANCE PaxosLog
    WITH Value <- Tx_, log <- chosen,
         copy <- [m \in Mon |->
                    [first |-> store[m].first_committed, last |-> store[m].last_committed,
                     entries |-> [v \in {w \in Version : w >= store[m].first_committed
                                            /\ w <= store[m].last_committed}
                                    |-> store[m].log[v]]]]

(* A version once committed has the same value everywhere, for ever, and   *)
(* versions are committed in order: across elections, crashes, a leader    *)
(* that dies between its own commit and the COMMIT messages, and leaders   *)
(* that forget the accepted_pn they never stored.  (True of three          *)
(* monitors; MCPaxosFive shows what such leaders can do to five.)          *)
ImplementsLog == Log!LogSpec

(* No two stores hold different committed values of a version.             *)
CopiesAgree == Log!CopiesAgree

(* Once committed anywhere a value is on the disks of a majority, accepted *)
(* or committed (a trimmed one was committed).                             *)
DurableOnMajority ==
    \A v \in DOMAIN chosen :
        IsMajority({m \in Mon : store[m].log[v] = chosen[v] \/ store[m].first_committed > v})

(* Paxos::is_readable, if the lease is not over.                           *)
is_readable(m) ==
    /\ role[m] \in {"leader", "peon"}
    /\ mem[m].state \in {"active", "updating", "writing"}
    /\ mem[m].last_committed > 0 /\ mem[m].lease

(* As long as nobody has left the quorum, a monitor that may be read has   *)
(* all that has ever been committed: handle_begin revokes the lease, and   *)
(* the leader commits only when the whole quorum has accepted.             *)
ReadsAreCurrent ==
    \A m \in Mon :
        (is_readable(m) /\ \A p \in quorum[m] : epoch[p] = epoch[m] /\ leader[p] = leader[m])
            => store[m].last_committed = Len(chosen)

(* Everyone in the quorum of the leader m follows it.                      *)
Intact(m) ==
    /\ role[m] = "leader" /\ ~flushing[m]
    /\ \A p \in quorum[m] : epoch[p] = epoch[m] /\ leader[p] = m

AllSettled(m) ==
    /\ mem[m].pending => mem[m].last_committed = MaxVersion
    /\ \A p \in quorum[m] :
           /\ mem[p].state = "active" /\ mem[p].lease
           /\ mem[p].last_committed = mem[m].last_committed

(* Once elections and crashes are over, the members of a quorum that is    *)
(* intact settle without a single timeout: recovery ends (also when it has *)
(* to retry with a higher pn or to finish an old proposal), what was       *)
(* pending is committed (up to the bound) and everyone holds a lease on it.*)
QuorumSettles == <>[](\A m \in Mon : Intact(m) => AllSettled(m))
============================================================================
