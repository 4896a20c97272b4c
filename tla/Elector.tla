------------------------------ MODULE Elector ------------------------------
(***************************************************************************)
(* The monitors' leader election as the code runs it: ElectionLogic.cc     *)
(* (the decisions), Elector.cc (messages, timer, persistence) and the      *)
(* hooks of Monitor.cc that they call (join_election, start_election,      *)
(* win_election, lose_election, bootstrap).                                *)
(*                                                                         *)
(* mon[m] is the state of the monitor of rank m.  The functions of the     *)
(* code that change it are operators from such a record to the new one,    *)
(* composed as the code nests its calls; every handler, which runs under   *)
(* the monitor's lock, is one action.                                      *)
(***************************************************************************)
EXTENDS Integers, Sequences, FiniteSets

CONSTANTS N,             \* monmap->size()
          LacksConn,     \* monitors without the required connection features or release
                         \* (handle_ack does not check the release)
          LacksMon,      \* monitors without the required mon_features
          Synchronous,   \* TRUE: time passes only once messages are delivered
          ElectionTimeout, \* mon_election_timeout, in ticks
          FirstBoot,     \* TRUE: a new cluster; FALSE: one that restarts after epoch 2
          MaxQueue,      \* bound on the messages in flight from one monitor to another
          MaxEpoch,      \* bound on election epochs
          MaxCrash,      \* bound on crashes
          MaxBootstrap,  \* bound on bootstraps asked for by Paxos
          MaxExit,       \* bound on "quorum exit" commands
          MaxFaults      \* bound on these three kinds of steps together

ASSUME NAssumption == N \in Nat \ {0, 1}
ASSUME BoundsAssumption ==
    /\ ElectionTimeout \in Nat \ {0}
    /\ {MaxQueue, MaxEpoch, MaxCrash, MaxBootstrap, MaxExit, MaxFaults} \subseteq Nat
    /\ MaxEpoch >= 2                     \* the epoch that a cluster restarts after
    /\ {Synchronous, FirstBoot} \subseteq BOOLEAN
    /\ LacksConn \union LacksMon \subseteq 0 .. N - 1

VARIABLES mon,      \* mon[m]: what ElectionLogic, Elector and Monitor keep
          net,      \* net[i][j]: the FIFO of election messages from i to j
          claims,   \* history: every victory declared
          follows,  \* history: every allegiance entered
          budget    \* what is left of the bounded environment steps

vars == <<mon, net, claims, follows, budget>>

Mon == 0 .. N - 1
None == -1                                   \* leader_acked: nobody
State == {"down", "probing", "electing", "leader", "peon"}

(* Mutant: half of the monitors are taken for a majority. *)
IsMajorityHalf(q) == Cardinality(q) >= N \div 2

(* quorum.size() must exceed half of the monmap *)
IsMajority(q) == Cardinality(q) > N \div 2

MonRecord ==
    [epoch : Nat,                \* ElectionLogic::epoch
     stored : Nat,               \* "election_epoch" in the store
     leader_acked : Mon \union {None},
     participating : BOOLEAN,
     electing_me : BOOLEAN,
     acked_me : SUBSET Mon,
     expire_event : 0 .. ElectionTimeout + 1,  \* ticks left on the election timer; 0: off
     state : State,              \* Monitor::state
     leader : Mon \union {None},
     quorum : SUBSET Mon,
     has_ever_joined : BOOLEAN]  \* also "joined" in the store

Message ==
    [op : {"propose", "ack", "nak"}, epoch : Nat]
        \union [op : {"victory"}, epoch : Nat, quorum : SUBSET Mon]

(* A monitor process comes up with what its store holds. *)
Boot(stored, joined) ==
    [epoch |-> 0, stored |-> stored, leader_acked |-> None,
     participating |-> TRUE, electing_me |-> FALSE, acked_me |-> {},
     expire_event |-> 0, state |-> "probing", leader |-> None,
     quorum |-> {}, has_ever_joined |-> joined]

(* exit(0) or a crash: the memory is gone, the store stays. *)
Exited(s) == [Boot(s.stored, s.has_ever_joined) EXCEPT !.state = "down"]

Init ==
    /\ mon = [m \in Mon |-> IF FirstBoot THEN Boot(0, FALSE) ELSE Boot(2, TRUE)]
    /\ net = [i \in Mon |-> [j \in Mon |-> <<>>]]
    /\ claims = {}
    /\ follows = {}
    /\ budget = [crash |-> MaxCrash, bootstrap |-> MaxBootstrap, exit |-> MaxExit,
                  all |-> MaxFaults]

----------------------------------------------------------------------------
(* ElectionLogic and the Monitor functions it calls, on one record s.      *)

(* Monitor::_reset leaves the quorum; join_election: STATE_ELECTING.       *)
join_election(s) == [s EXCEPT !.quorum = {}, !.state = "electing"]

init(s) ==
    IF s.stored = 0 THEN [s EXCEPT !.epoch = 1]
    ELSE IF s.stored % 2 = 1
         THEN [s EXCEPT !.epoch = s.stored + 1, !.stored = s.stored + 1]
         ELSE [s EXCEPT !.epoch = s.stored]

(* Mutant: the new epoch is not stored. *)
bump_epoch_volatile(s, e) ==
    join_election([s EXCEPT !.epoch = e, !.electing_me = FALSE, !.acked_me = {}])

bump_epoch(s, e) ==
    join_election([s EXCEPT !.epoch = e, !.stored = e,
                            !.electing_me = FALSE, !.acked_me = {}])

(* Mutant: the timer is not armed. *)
start_untimed(m, s) ==
    LET i == init(s)
        b == IF i.epoch % 2 = 0 THEN bump_epoch(i, i.epoch + 1) ELSE i
    IN  IF s.participating
        THEN [b EXCEPT !.electing_me = TRUE, !.acked_me = {m}, !.leader_acked = None]
        ELSE s

(* Mutant: a campaign does not open a new epoch. *)
start_same_epoch(m, s) ==
    IF s.participating
    THEN [init(s) EXCEPT !.electing_me = TRUE, !.acked_me = {m},
                         !.leader_acked = None, !.expire_event = ElectionTimeout]
    ELSE s

start(m, s) ==
    LET i == init(s)
        b == IF i.epoch % 2 = 0 THEN bump_epoch(i, i.epoch + 1) ELSE i
    IN  IF s.participating
        THEN [b EXCEPT !.electing_me = TRUE, !.acked_me = {m},
                       !.leader_acked = None, !.expire_event = ElectionTimeout]
        ELSE s

start_election(m, s) == start(m, join_election(s))

(* Mutant: the timer is not armed. *)
defer_untimed(s, who) ==
    [s EXCEPT !.electing_me = FALSE, !.acked_me = IF s.electing_me THEN {} ELSE @,
              !.leader_acked = who]
defer(s, who) ==
    [s EXCEPT !.electing_me = FALSE, !.acked_me = IF s.electing_me THEN {} ELSE @,
              !.leader_acked = who, !.expire_event = ElectionTimeout + 1]

win_election(m, s, q) == [s EXCEPT !.state = "leader", !.leader = m, !.quorum = q]

lose_election(s, q, l) == [s EXCEPT !.state = "peon", !.leader = l, !.quorum = q]

declare_victory(m, s) ==
    LET b == bump_epoch([s EXCEPT !.leader_acked = None, !.electing_me = FALSE],
                        s.epoch + 1)
    IN  win_election(m, [b EXCEPT !.expire_event = 0], s.acked_me)

bootstrap(s) == [s EXCEPT !.state = "probing", !.quorum = {}]

----------------------------------------------------------------------------
(* Messages.  Monitors talk over lossless FIFO sessions.                   *)

Propose(e) == [op |-> "propose", epoch |-> e]
Ack(e) == [op |-> "ack", epoch |-> e]
Nak(e) == [op |-> "nak", epoch |-> e]
Victory(e, q) == [op |-> "victory", epoch |-> e, quorum |-> q]

Consumed(from, m) == [net EXCEPT ![from][m] = Tail(@)]

(* With synchrony nothing waits for a monitor that is down.                *)
Sent(n, m, dests, msg) ==
    LET lost == {j \in Mon : Synchronous /\ mon[j].state = "down"} IN
    [n EXCEPT ![m] = [j \in Mon |-> IF j \in dests \ lost THEN Append(@[j], msg) ELSE @[j]]]

(* The bounds: every monitor stays within MaxEpoch and MaxQueue.           *)
WithinBounds(m) ==
    /\ mon'[m].epoch <= MaxEpoch
    /\ \A j \in Mon : Len(net'[m][j]) <= MaxQueue

NoHistory == UNCHANGED <<claims, follows>>

(* One of the environment's steps is taken, while there are any left.      *)
Spend(kind) ==
    /\ budget[kind] > 0 /\ budget.all > 0
    /\ budget' = [budget EXCEPT ![kind] = @ - 1, !.all = @ - 1]

(* m goes on as s and sends nothing; n is the network left by the handler. *)
Become(m, s, n) ==
    /\ mon' = [mon EXCEPT ![m] = s]
    /\ net' = n
    /\ WithinBounds(m)
    /\ NoHistory

(* m runs start(): ElectionOwner::propose_to_peers sends the new epoch.    *)
Campaign(m, s, n) ==
    Become(m, s, IF s.participating
                 THEN Sent(n, m, Mon \ {m}, Propose(s.epoch)) ELSE n)

(* m runs declare_victory() and message_victory() from the record s.       *)
DeclareVictory(m, s, n) ==
    LET w == declare_victory(m, s) IN
    /\ mon' = [mon EXCEPT ![m] = w]
    /\ net' = Sent(n, m, w.quorum \ {m}, Victory(w.epoch, w.quorum))
    /\ WithinBounds(m)
    /\ claims' = claims \union {[epoch |-> w.epoch, leader |-> m, quorum |-> w.quorum]}
    /\ follows' = follows \union {[mon |-> m, epoch |-> w.epoch, leader |-> m]}

----------------------------------------------------------------------------
(* ElectionLogic::receive_propose on the record s, with network n.         *)
receive_propose(m, from, mepoch, s, n) ==
    LET b == IF mepoch > s.epoch THEN bump_epoch(s, mepoch) ELSE s IN
    \/ /\ mepoch < s.epoch
       /\ \/ /\ s.epoch % 2 = 0 /\ from \notin s.quorum
             /\ Campaign(m, start_election(m, s), n)
          \/ /\ s.epoch % 2 = 1 \/ from \in s.quorum
             /\ Become(m, s, n)
    \/ /\ mepoch >= s.epoch /\ m < from
       /\ \/ /\ b.leader_acked < 0 /\ ~b.electing_me
             /\ Campaign(m, start_election(m, b), n)
          \/ /\ b.leader_acked >= 0 \/ b.electing_me
             /\ Become(m, b, n)
    \/ /\ mepoch >= s.epoch /\ m > from
       /\ \/ /\ b.leader_acked < 0 \/ b.leader_acked >= from
             /\ Become(m, defer(b, from), Sent(n, m, {from}, Ack(b.epoch)))
          \/ /\ b.leader_acked >= 0 /\ b.leader_acked < from
             /\ Become(m, b, n)

(* Elector::handle_propose.  A peer without the required connection        *)
(* features or release is NAKed and ignored; one without the required      *)
(* mon_features is NAKed, and its proposal is handled all the same.        *)
handle_propose(m, from) ==
    LET msg == Head(net[from][m])
        n == Consumed(from, m)
        naked == Sent(n, m, {from}, Nak(msg.epoch))
    IN  /\ msg.op = "propose"
        /\ \/ /\ from \in LacksConn
              /\ Become(m, mon[m], naked)
           \/ /\ from \notin LacksConn
              /\ receive_propose(m, from, msg.epoch, mon[m],
                                 IF from \in LacksMon THEN naked ELSE n)

(* ACK, VICTORY and NAK of an epoch that is over are dropped.              *)
drop_old(m, from) ==
    LET msg == Head(net[from][m]) IN
    /\ msg.op # "propose" /\ msg.epoch < mon[m].epoch
    /\ Become(m, mon[m], Consumed(from, m))

(* Elector::handle_ack and ElectionLogic::receive_ack: everyone acked is   *)
(* the shortcut to victory.                                                *)
handle_ack(m, from) ==
    LET msg == Head(net[from][m])
        n == Consumed(from, m)
        s == [mon[m] EXCEPT !.acked_me = @ \union {from}]
    IN  /\ msg.op = "ack" /\ msg.epoch >= mon[m].epoch
        /\ \/ /\ from \in LacksConn \union LacksMon \/ ~mon[m].electing_me
              /\ Become(m, mon[m], n)
           \/ /\ from \notin LacksConn \union LacksMon /\ mon[m].electing_me
              /\ IF s.acked_me = Mon THEN DeclareVictory(m, s, n) ELSE Become(m, s, n)

(* receive_victory_claim accepts the victory that closes its own election. *)
victory_expected(s, e) == e = s.epoch + 1

(* Elector::handle_victory and ElectionLogic::receive_victory_claim.       *)
handle_victory(m, from) ==
    LET msg == Head(net[from][m])
        n == Consumed(from, m)
        b == bump_epoch([mon[m] EXCEPT !.leader_acked = None], msg.epoch)
    IN  /\ msg.op = "victory" /\ msg.epoch >= mon[m].epoch
        /\ \/ /\ ~victory_expected(mon[m], msg.epoch)
              /\ Campaign(m, start(m, b), n)
           \/ /\ victory_expected(mon[m], msg.epoch)
              /\ mon' = [mon EXCEPT ![m] = [lose_election(b, msg.quorum, from)
                                               EXCEPT !.expire_event = 0]]
              /\ net' = n
              /\ follows' = follows \union
                     {[mon |-> m, epoch |-> msg.epoch, leader |-> from]}
              /\ UNCHANGED claims

(* Mutant: a NAK is ignored. *)
handle_nak_ignored(m, from) ==
    LET msg == Head(net[from][m]) IN
    /\ msg.op = "nak" /\ msg.epoch >= mon[m].epoch
    /\ Become(m, mon[m], Consumed(from, m))

(* Elector::handle_nak: exit(0).                                           *)
handle_nak(m, from) ==
    LET msg == Head(net[from][m]) IN
    /\ msg.op = "nak" /\ msg.epoch >= mon[m].epoch
    /\ Become(m, Exited(mon[m]), Consumed(from, m))

(* Monitor::dispatch_op drops election messages while probing,             *)
(* Elector::dispatch while not participating.                              *)
dispatches(m) == mon[m].state \in {"electing", "leader", "peon"} /\ mon[m].participating

dispatch(m, from) ==
    /\ net[from][m] # <<>>
    /\ mon[m].state # "down"
    /\ \/ /\ ~dispatches(m)
          /\ Become(m, mon[m], Consumed(from, m))
       \/ /\ dispatches(m)
          /\ \/ handle_propose(m, from)
             \/ drop_old(m, from)
             \/ handle_ack(m, from)
             \/ handle_victory(m, from)
             \/ handle_nak(m, from)
    /\ UNCHANGED budget

----------------------------------------------------------------------------
(* A probing monitor can call an election: it has heard of a quorum, or of *)
(* a majority of monitors that are up.                                     *)
ProbeAnswered(m) ==
    LET up == {p \in Mon : mon[p].state # "down"} IN
    /\ mon[m].state = "probing"
    /\ IsMajority(up) \/ \E p \in up \ {m} : mon[p].quorum # {}

Quiet ==
    /\ \A i, j \in Mon : net[i][j] = <<>> \/ mon[j].state = "down"
    /\ \A m \in Mon : ~ProbeAnswered(m)

Due(m) == mon[m].expire_event = 1 /\ mon[m].state # "down"

(* Time passes: all the election timers run at the same pace.  Without     *)
(* synchrony no timer is compared with another and time is not modelled.   *)
tick ==
    /\ Synchronous /\ Quiet
    /\ \E m \in Mon : mon[m].expire_event > 1
    /\ \A m \in Mon : ~Due(m)
    /\ mon' = [m \in Mon |-> [mon[m] EXCEPT !.expire_event = IF @ > 1 THEN @ - 1 ELSE @]]
    /\ UNCHANGED <<net, claims, follows, budget>>

(* The election timer fires: ElectionLogic::end_election_period.           *)
end_election_period(m) ==
    LET s == [mon[m] EXCEPT !.expire_event = 0] IN
    /\ mon[m].expire_event > 0 /\ mon[m].state # "down"
    /\ Synchronous => Quiet /\ Due(m)
    /\ \/ /\ s.electing_me /\ IsMajority(s.acked_me)
          /\ DeclareVictory(m, s, net)
       \/ /\ ~(s.electing_me /\ IsMajority(s.acked_me))
          /\ \/ s.has_ever_joined /\ Campaign(m, start(m, s), net)
             \/ ~s.has_ever_joined /\ Become(m, bootstrap(s), net)
    /\ UNCHANGED budget

(* Monitor::handle_probe_reply: a probing monitor learns of a quorum, or   *)
(* of enough monitors outside any quorum, and calls an election.           *)
probe_done(m) ==
    /\ ProbeAnswered(m)
    /\ Campaign(m, start_election(m, mon[m]), net)
    /\ UNCHANGED budget

(* Paxos gives up on the quorum: a leader misses the answer of a member    *)
(* (collect, accept or lease_ack timeout), a peon its leader's lease.      *)
paxos_timeout(m) ==
    LET s == mon[m]
        Follows(p) == mon[p].state = "peon" /\ mon[p].leader = m /\ mon[p].epoch = s.epoch
        Leads(p) == mon[p].state = "leader" /\ mon[p].epoch = s.epoch
    IN  /\ \/ s.state = "leader" /\ \E p \in s.quorum \ {m} : ~Follows(p)
           \/ s.state = "peon" /\ ~Leads(s.leader)
        /\ Synchronous => Quiet
        /\ Become(m, bootstrap(s), net)
        /\ UNCHANGED budget

(* A Paxos message of a later epoch, a newer monmap or a spurious timeout  *)
(* sends the monitor back to bootstrap(), at any time.                     *)
paxos_bootstrap(m) ==
    /\ Spend("bootstrap")
    /\ mon[m].state \in {"electing", "leader", "peon"}
    /\ Become(m, bootstrap(mon[m]), net)

(* MonmapMonitor::on_active: Paxos committed a monmap, which takes every   *)
(* member of the quorum; "joined" is stored.                               *)
on_active(m) ==
    LET s == mon[m] IN
    /\ s.state \in {"leader", "peon"} /\ ~s.has_ever_joined
    /\ \A p \in s.quorum : [mon |-> p, epoch |-> s.epoch, leader |-> s.leader] \in follows
    /\ Become(m, [s EXCEPT !.has_ever_joined = TRUE], net)
    /\ UNCHANGED budget

(* The admin commands "quorum exit", which campaigns once more before it   *)
(* stops participating, and "quorum enter".                                *)
quorum_exit(m) ==
    LET s == start_election(m, mon[m]) IN
    /\ Spend("exit") /\ mon[m].state # "down"
    /\ Become(m, [s EXCEPT !.participating = FALSE],
              IF s.participating THEN Sent(net, m, Mon \ {m}, Propose(s.epoch)) ELSE net)

quorum_enter(m) ==
    /\ ~mon[m].participating /\ mon[m].state # "down"
    /\ Campaign(m, start_election(m, [mon[m] EXCEPT !.participating = TRUE]), net)
    /\ UNCHANGED budget

(* The process dies: what it had sent to the peers in lost is gone too.    *)
crash(m) ==
    /\ Spend("crash")
    /\ mon[m].state # "down"
    /\ \E lost \in SUBSET (Mon \ {m}) :
           Become(m, Exited(mon[m]),
                  [net EXCEPT ![m] = [j \in Mon |-> IF j \in lost THEN <<>> ELSE @[j]]])

(* The process starts again.  The peers' sessions with it are new: what    *)
(* those in reset had queued for the old process is discarded.             *)
restart(m) ==
    /\ mon[m].state = "down"
    /\ \E reset \in SUBSET (Mon \ {m}) :
           Become(m, Boot(mon[m].stored, mon[m].has_ever_joined),
                  [i \in Mon |-> IF i \in reset THEN [net[i] EXCEPT ![m] = <<>>] ELSE net[i]])
    /\ UNCHANGED budget

----------------------------------------------------------------------------
(* What the monitors do by themselves... *)
Progress ==
    \/ tick
    \/ \E m \in Mon :
        \/ \E from \in Mon : dispatch(m, from)
        \/ end_election_period(m)
        \/ probe_done(m)
        \/ paxos_timeout(m)
        \/ on_active(m)

(* ...and what happens to them. *)
Environment ==
    \E m \in Mon :
        \/ paxos_bootstrap(m)
        \/ quorum_exit(m)
        \/ quorum_enter(m)
        \/ crash(m)
        \/ restart(m)

Next == Progress \/ Environment

Spec == Init /\ [][Next]_vars

(* The monitors do not stop while they can go on: the messenger delivers,  *)
(* the timers fire, probes are answered.  No order is imposed on them, and *)
(* nobody is obliged to restart a monitor or to let it enter the quorum.   *)
Fairness == WF_vars(Progress)

FairSpec == Spec /\ Fairness

----------------------------------------------------------------------------
(* The variables keep their types; no timer is armed for too long. *)
TypeOK ==
    /\ mon \in [Mon -> MonRecord]
    /\ \A i, j \in Mon : \A k \in DOMAIN net[i][j] : net[i][j][k] \in Message
    /\ claims \subseteq [epoch : Nat, leader : Mon, quorum : SUBSET Mon]
    /\ follows \subseteq [mon : Mon, epoch : Nat, leader : Mon]
    /\ budget \in [{"crash", "bootstrap", "exit", "all"} -> Nat]

(* None of the ceph_asserts on the way of a message fires, whatever was    *)
(* crashed, restarted, delayed or timed out before: an ACK is of the epoch *)
(* the monitor is in, and if it is no longer a candidate it has deferred;  *)
(* a victory comes from a better rank; a candidate is in an odd epoch.     *)
AssertsHold ==
    /\ \A m \in Mon : mon[m].electing_me => mon[m].epoch % 2 = 1
    /\ \A m, from \in Mon :
        (dispatches(m) /\ net[from][m] # <<>>) =>
            LET msg == Head(net[from][m])
                s == mon[m]
            IN  /\ msg.op = "propose" =>
                      /\ msg.epoch % 2 = 1
                      /\ (m < from /\ s.leader_acked >= 0) => s.leader_acked < from
                /\ msg.op = "ack" /\ msg.epoch >= s.epoch =>
                      /\ msg.epoch = s.epoch
                      /\ s.electing_me \/ s.leader_acked >= 0
                /\ msg.op = "victory" => from < m /\ msg.epoch % 2 = 0

(* A participating monitor that is electing has its timer armed, so it     *)
(* cannot wait for ever on a candidate that died: bump_epoch keeps the     *)
(* timer and the (possibly stale) leader_acked of the epoch before.        *)
ElectingHasTimer ==
    \A m \in Mon : mon[m].state = "electing" /\ mon[m].participating => mon[m].expire_event > 0

(* The abstract election: the epoch a monitor has reached is the stored    *)
(* one (a monitor with an empty store uses epoch 1 without storing it).    *)
Abstract == INSTANCE MonElection
    WITH epoch <- [m \in Mon |-> IF mon[m].stored = 0 THEN 1 ELSE mon[m].stored],
         role  <- [m \in Mon |-> IF mon[m].state \in {"leader", "peon"}
                                 THEN mon[m].state ELSE "out"]

(* The election implements its abstract specification, in particular: an   *)
(* epoch is never entered twice, victory takes a majority of monitors that *)
(* have all reached the epoch, and a victory is accepted only by a monitor *)
(* still in the election that it closes.                                   *)
ImplementsElection == Abstract!ElectionSpec

(* Of the victories of one epoch at most one is followed by its quorum.    *)
UniqueEffectiveLeader == Abstract!UniqueEffectiveLeader

(* A monitor that lacks required features neither leads others nor         *)
(* declares victory, although handle_propose lets its proposals through:   *)
(* the NAK precedes the ACK in the session and makes it exit before it can *)
(* win.  The victory of a new cluster's first election (epoch 2) is        *)
(* excepted: epoch 1 is not stored, so a candidate that went back to       *)
(* probing, where the NAK is dropped, campaigns in it again and counts the *)
(* old ACK.                                                                *)
LackingNeverLeads ==
    \A f \in follows : f.leader \in LacksConn \union LacksMon => f.epoch <= 2

Up == {m \in Mon : mon[m].state # "down" /\ mon[m].participating}

Settled ==
    \E l \in Up : \A m \in Up :
        /\ mon[m].epoch = mon[l].epoch
        /\ mon[m].leader = l /\ mon[m].quorum = Up
        /\ mon[m].state = IF m = l THEN "leader" ELSE "peon"

(* Once crashes and commands stop, the monitors that are up settle on one  *)
(* leader whose quorum is all of them, provided they are a majority.       *)
QuorumForms == <>[](IsMajority(Up) => Settled)
============================================================================
