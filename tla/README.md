# Verification of Ceph: monitors, peering and recovery

This project models the parts of `ceph-15.2.17` on which the safety of data rests:
the monitor cluster, which elects a leader, replicates one log of transactions
(every map of a Ceph cluster is built on it) and brings monitors that have fallen
behind up to date; and, in the OSDs, the peering of a placement group, by which
acknowledged writes survive every change of the set of OSDs that hold it, and
the reservations under which it then recovers. All paths below are relative to
`src/ceph-15.2.17/src/`.

## 1. Inventory

| component | state | operations | hard parts | what makes it correct |
|---|---|---|---|---|
| monitor election (`mon/ElectionLogic`, `mon/Elector`) | epoch (stored), `leader_acked`, `acked_me`, `electing_me`, `participating`, one timer | propose, ack, victory, NAK, timer, quorum enter and exit | two candidates per epoch, crash and restart, messages of old rounds, racing timers | one allegiance per monitor and epoch, one effective leader per epoch, an election ends |
| Paxos (`mon/Paxos`) | versions `first_committed..last_committed`, an uncommitted value, `accepted_pn`, a lease, five timers | collect, last, begin, accept, commit, lease, lease_ack, trim, timeouts | crash between commit and COMMIT, rival uncommitted values, asynchronous commit, two leaders | one log, durable, never rewritten; reads are current; no wait without a timer |
| monitor roles (`mon/Monitor`) | state, quorum, leader | bootstrap, start/join/win/lose election, epoch filter, flush of a pending write | the lock is dropped in the flush | roles and Paxos state fit together |
| store synchronisation (`mon/Monitor`) | sync providers, cookie, chunk state; `in_sync`, `force_sync` and the floor in the store | start, get cookie, get chunk, finish, timeout, expiry | crash between any two transactions, provider that trims or dies, messages of an earlier attempt | a store is whole or marked; nothing committed is lost; everyone returns |
| PaxosService (`mon/PaxosService`) | pending value, waiters, proposal timer | propose, refresh, trim, wait | election with a proposal under way | no update lost or applied twice |
| monitor services (`mon/*Monitor`) | maps | commands, ticks | mostly data | map invariants |
| monitor client (`mon/MonClient`) | sessions, hunting | connect, subscribe, command | races of two connections | one active session |
| peering (`osd/PeeringState`, `PastIntervals` in `osd/osd_types`) | per OSD: log, `last_epoch_started`, history, past intervals; on the primary: infos, prior set | map changes, queries, infos, logs, activation, purge of strays | maps, messages, crashes and commits in any order | acknowledged writes survive; logs agree; peering does not get stuck |
| PG log (`osd/PGLog`) | log, missing set | merge, rewind, proc_replica_log | divergent entries | logs agree after a merge |
| back ends (`osd/ReplicatedBackend`, `ECBackend`, `PrimaryLogPG`) | in-flight operations | submit, reply, recovery | order of replies, interval changes | an acknowledged write is on all |
| reservations (`common/AsyncReserver`) | queues by priority, reservations in progress, an index of those that can be preempted | request, cancel, update, limits | preemption racing cancellation, callbacks in another thread | every caller is told, limits kept, no callback lost or run twice |
| recovery and backfill reservation (substates of Active and ReplicaActive in `osd/PeeringState`) | a state per instance, local and remote slots | request, grant, reject, preempt, release, retry | late grants, releases that race with them, new intervals, circular waits | every group recovers in the end; no slot is lost; no unexpected event |
| watch/notify (`osd/Watch`), timers and throttles (`common/`), locks (`cls/lock`, `librbd/ManagedLock`) | small | callbacks, timeouts, preemption | callbacks racing cancellation | exactly one callback, bounds kept |
| messenger (`msg/async`) | sessions, sequence numbers | connect, reconnect, replay | connection races | ordered, lossless between monitors |
| MDS, BlueStore, CRUSH, RGW, client, journal, Objecter, manager | large | | | outside this project's first stages |

How the modelled parts interact: `Elector::dispatch` runs `ElectionLogic`, which
calls back into `Elector` (messages, timer, persistence) and `Monitor`
(`join_election`, `win_election`, `lose_election`); these call
`Paxos::leader_init`, `peon_init` and `restart`. Paxos in turn calls
`Monitor::bootstrap` when a lease, a lease ack, an accept or a LAST does not
arrive. Everything runs under one lock per monitor, except that the
store applies a leader's commit in a thread of its own and that
`wait_for_paxos_write` drops the lock.

A monitor whose probes show that its peers have trimmed what it lacks, or that
are further ahead than `paxos_max_join_drift`, synchronises with one of them before
it takes part in elections again.

An OSD follows the OSD maps one by one. A map that changes the acting set of a
placement group starts a new interval: the group resets, its primary peers with
everybody who may have served it since it was last active, activates the
replicas, and takes writes. Then it recovers, for which it needs a slot in the
`local_reserver` of its own OSD and one in the `remote_reserver` of each peer.
Reservers answer through a Finisher thread; between OSDs, messages carry the
epoch they were sent in and are dropped by a receiver that has entered
a later interval.

`PROJECT.json` lists the components, their status and, under `hazards`, the
places where this code can go wrong in a way that a test would hardly reach.

## 2. Modules

`MonElection` is what Paxos may rely on: monitors with an epoch that never
decreases, victories (`claims`) and allegiances (`follows`). `Leave`, `Win` and
`Follow` are its only actions. It says nothing of candidates, acks or messages.

`Elector` is the election as the code runs it. `mon[m]` holds the fields of
`ElectionLogic` and the few of `Elector` and `Monitor` that matter; operators
named after the code's functions map such a record to the next one and are
composed as the code nests its calls; each handler, timer or command is one action.
`net[i][j]` is a FIFO, as the messenger's lossless policy between monitors gives;
a crash loses any of what the dead process had sent, a restart any of what
was queued for it. `ImplementsElection` maps it to `MonElection` (the abstract
epoch is the *stored* one). A probe is answered when a majority is up.
Two modes: with `Synchronous = FALSE` a timer may fire at any time; with
`Synchronous = TRUE` ticks pass only when messages have been delivered, so that
`mon_election_timeout` and the extra second of the monitors that deferred
are really compared.

`PaxosLog` is what Paxos promises to the services: one append-only log of which
every monitor holds a stretch that grows at its end and is trimmed at its start.

`Paxos` is `Paxos.cc`. The functions that call one another inside one handler
(`collect`, `share_state`, `store_state`, `begin`, `commit_start`,
`commit_finish`, `extend_lease`, `finish_round`, `trim`, `propose_pending`) are
operators on a call context `c`: memory `c.s`, store `c.st`, epoch, quorum and
messages sent. A handler is one action. The exceptions are
those of the code: a leader's commit is `commit_start`, then the store's write
(`apply_transaction`), then `commit_finish` (`committed`), with other steps in
between; and `join_election` bumps the epoch, then waits for that write
(`flushing`) while other monitors go on. `epoch`, `role`, `leader` and `quorum`
follow the election: `start_election`, `join_election` and `win_election` are as
free as `MonElection` allows, so two monitors may both hold themselves for the
leader, in one epoch or in two, of which only one has the whole quorum behind it.
A value is the pair of the pn it was first proposed with and the
`first_committed` its transaction sets; both are all that the properties tell
apart. A lease is held or not held: that it may be over only takes rights away.
Messages of an epoch which the receiver has left are removed as soon as they are
first in their session (`Pending`, `Prune`), since `Monitor::dispatch_op` drops them unseen.

`MonSync` is the synchronisation of a monitor's store. A store is its key space in
the order an iterator visits it, so that a snapshot, a chunk and a partial
copy are what they are in the code; a version's transaction is replayed
(`read_and_prepare`), not assigned. A handler that makes several store
transactions (`sync_start`, `handle_sync_chunk` with `sync_finish`) may crash
after each of them (`Handled`). Elections and Paxos are one step each (`Elect`,
`Commit`, `Learn`): what matters here is what they commit and trim meanwhile.

`Reservations` has the data and the procedures of `AsyncReserver<T>` as operators;
two modules use them. `AsyncReserver` runs them from many threads, with the two
loops of `do_queues` as steps and the Finisher as a process of its own, and
accounts for the ownership of every callback. `RecoveryReservation` composes the
two reservers of every OSD with the state machines of placement groups:
`Primary_react` and `Replica_react` are the reactions of the substates of
`Active` and `ReplicaActive`, `Discarded` the events they ignore; every other
event is the state `Crashed`. Events come from the Finisher, from peers, from timers
and from the recovery work itself. Peering is one step there (`Activate`).

`Peering` is the peering of one placement group. `maps` is the history of OSD maps, `pg[o]`
the group on OSD `o`, `disk[o]` what its store has committed of it, `net[i][j]` a FIFO
session. The states the primary passes through within one event (`Started`, `GetInfo`,
`GetLog`, `GetMissing`, `WaitUpThru`, `activate`) are operators that call one another
as the state machine posts events. Queries and their answers are one step,
because a peer's log does not change between them: in the same interval only
the asker can change it, and an answer of an earlier interval is dropped. Messages that do change
something (activation, its acknowledgement, history, replicated writes,
removal) travel. A change is on disk when `commit` says so; only a map or a
history that a crash could equally have prevented from arriving is there at once
(`AtOnce`). Acknowledged writes are remembered with the epoch in which it was done.

`MonElection_proofs`, `PaxosLog_proofs`, `Elector_proofs`, `Paxos_proofs`,
`Reservations_proofs`, `AsyncReserver_proofs`, `RecoveryReactions_proofs` and
`RecoveryReservation_proofs` hold the theorems (section 4); the modules whose names begin with
`MC` are those TLC runs.

Definitions that follow the comment "Mutant:" are versions of the next definition with a
bug that the code could plausibly have. No specification uses them; they serve
to check that the properties can fail.

## 3. Runs

| run | bounds | what it shows |
|---|---|---|
| `mon_election` | 3 monitors, epochs up to 6 | the promises to Paxos hold of the abstract election |
| `elector_restart` | epochs 2–5, 2 messages per session, one crash, quorum exit or bootstrap | no assertion fails, an electing monitor has its timer armed, one effective leader per epoch, the abstract election is implemented |
| `elector_firstboot` | new stores, epochs up to 4, 2 messages per session; one monitor lacks connection features, one mon_features | a cluster whose first epoch is used before it is stored: monitors lacking features neither win nor are followed |
| `elector_live` | synchronous, one crash or quorum exit | `QuorumForms` |
| `paxos_crash` | 2 versions, epochs up to 4, one crash | assertions on roles, rounds and versions, timers, durability, current reads, refinement of the log, `QuorumSettles` |
| `paxos_histories` | 1 version, epochs up to 6; or 3 versions, epochs up to 4, `paxos_min` 0, one renewal (`Scope`) | rival uncommitted values over three rounds, trimming with lagging monitors, renewals racing updates: durability, current reads, refinement of the log |
| `paxos_five` | violation: 5 monitors, 1 version, 5 quorums of a schedule, two restarts | see findings |
| `sync_crash` | 3 monitors, 2 service keys, versions 4–5 and trimming, one fault (crash, early timeout or expired session), `sync_force` | whole or marked stores, no assertion fails, nothing committed is lost, all return |
| `reserver` | 3 items, 2 priorities, 3 requests, limits 1 and 2 | indexes agree, limits kept, callbacks owned once, callers told |
| `recovery` | 4 OSDs, 2 groups in 7 layouts, one slot per reserver, one new interval or one full OSD or two scans | no slot lost; with no retry too soon: no unexpected event, no work without grants, both groups clean in the end |
| `recovery_scan` | violation | see findings |
| `peering` | 8 clusters of 2 or 3 OSDs, pool size 2, 2–4 changes of the map by failures, up to 2 writes, up to one crash | acknowledged writes survive, logs agree, peering does not get stuck |

Three monitors are the smallest cluster that survives a failure and in which
quorums of two different compositions exist. Two rounds of elections let a second leader
recover what the first one left; three let two rival uncommitted values
meet. Epochs come in pairs (odd: electing, even: a quorum), hence 4 and 6. An
election of `elector_restart` from epoch 2 can be won, abandoned and
held again within epoch 5. Two messages per session let an old message wait before a new
one. `elector_live` has an epoch bound (30) that its runs do not reach: time is synchronous
there and a handful of rounds suffices. Trimming normally keeps 500 versions; with
`paxos_min` 0 it starts at the second. Deadlock is not checked: a
behaviour ends where its bounds on epochs, versions and crashes are used up.

In `sync_crash` one monitor is two versions behind: within reach of a recent
synchronisation until the quorum trims its log, then only of a full one. One
fault is enough to cut any of the transactions. In `reserver` three items on one or two
slots give a queue, a holder and a victim at once. Two groups with one slot per
OSD and common peers are the smallest case of a circular wait; the layouts have the same or different
primaries, and each has one disturbance, as their product is too large; where a new interval comes on top
of two different primaries, the second group only recovers (`Brief`). The
clusters of `peering` (`MCPeering`) each have one theme: a pair whose members wait
for each other, logs that diverge, copies to create and to remove, a new primary
without the group, an old copy coming back, a primary that was away while
others were active, a stray that dies while asked, and `min_size` 2. The
monitors publish as fast as they like, with OSDs one map behind
(`lag`) in most clusters.

Properties, in the order of the modules:

* `OneAllegiance`, `UniqueEffectiveLeader`, `OldQuorumBroken` (`MonElection`).
  Two monitors may declare victory in one epoch (an acker may defer twice), but
  only one victory can be followed by its whole quorum, and when it is, no
  older quorum is complete. This is why Paxos insists on acceptance by the *whole* quorum.
* `AssertsHold` (`Elector`, `Paxos`, `MonSync`, `Peering`) gathers the `ceph_assert`s
  that depend on the order of messages, timers and roles. In `Paxos` those on versions are a property of
  their own, `VersionsHold`: a BEGIN, and an ACCEPT that counts, find the receiver at the version the
  sender was at, although a peer may have been behind when the leader collected.
* `ElectingHasTimer`, `WaitsAreTimed`: nobody waits for a message without a timer.
* `LackingNeverLeads`: see observations.
* `ImplementsElection`, `ImplementsLog`: the refinements.
* `DurableOnMajority`: a committed value is on the disks of a majority.
* `CopiesAgree`: two stores never differ in a committed version.
* `ReadsAreCurrent`: while the quorum is together, a readable monitor has
  everything committed so far.
* `WholeOrMarked`: a store is exactly what its versions make, or it carries the
  marker that has it cleared; `LatestOnMajority`: clearing never leaves the newest
  version on a minority; `NeverForgets`: a crash in a synchronisation does
  not take a monitor back behind what it had committed.
* `Indexed`, `Settled`, `OneOwner`, `CallersAreTold` (`AsyncReserver`).
* `NoCrash`, `NoLeak`, `GrantsAreReal` (`RecoveryReservation`). The first and the last have a condition,
  `hasty`; see below.
* `AckedSurvive`: every primary that finishes peering has every write
  acknowledged so far. `LesReflectsWrites`: what
  `doc/dev/osd_internals/last_epoch_started.rst` says of it. `NeverIncomplete`: a primary
  that waits for nobody finds a log. `LogsAgree`: the replicas of an active
  group have the primary's log but for writes under way.
* `NeverStuck`: in every state in which nothing is left to deliver, to commit or to publish,
  the primary is active, or waits for an OSD that is down, or nobody up has the group.
* `QuorumForms`, `QuorumSettles`, `AllReturn`, `AllClean`: liveness.

Every module has a `TypeOK`. Those of `MonElection` and `Peering` are checked by the
runs (the latter also says that writes wait only for members of the present acting
set); those of `MonElection`, `Elector`, `AsyncReserver` and `RecoveryReservation` are proved (section 4); the
others document the state.

Fairness. `elector_live` assumes weak fairness of everything the monitors do by
themselves taken together: the messenger delivers, probes are answered, timers fire. The
assumption that messages are faster than timers is the one `mon_election_timeout`
(5 s) makes. Nothing obliges a monitor to restart or to enter the quorum.
`paxos_crash` assumes weak fairness of deliveries and of the store only, never of
a timer, a proposal or an election; `CanProgress` is the enabling condition
written out, as `ENABLED` of these nested operators is too slow for TLC.

In `sync_crash` messages arrive, probes are answered, a quorum forms from those who ask
for one, a stopped monitor is started again, and the timeout fires when no answer
is due; commits and trims owe nothing. In `recovery` the Finisher, the messenger, the timers
and the recovery work taken together make progress as long as they can; a new interval and a scan
owe nothing. `peering` assumes no fairness: it checks quiescent states
instead of liveness.

A condition on time. `retry` asks for a rejected backfill again after
`osd_backfill_retry_interval` (30 s), and nothing checks that every peer has answered the last
attempt by then. In the model the timer may come due at any moment. The history variable `hasty` records that one
did while a peer still owed an answer of the interval (`TooSoon`), and `NoCrash`, `GrantsAreReal` and
`AllClean` say nothing of what follows. They have to: when two targets reject one
attempt (one is too full, the slot the other had granted is preempted) and the
timer comes due between the two rejections, the second one finds the primary in
`WaitLocalBackfillReserved`, which has no reaction to it, and the OSD aborts (16 states, with TLC, on the layouts of
`recovery`); and a grant that comes after the timer is counted for the new attempt, so that a
primary copies to a peer whose slot it does not hold (23 states). Late grants, revocations and
rejections of every other kind (after a release, a preemption or a new interval, or of a
peer that is no longer asked) are in the behaviours these properties are about. `NoLeak` has no condition.

Findings:

1. `Paxos.cc:183`: a leader stores the proposal number it picks as `last_pn`, but not as its
   `accepted_pn`; a peon does. A leader that restarts and becomes a peon has forgotten its own
   promise. When a later quorum shares only that monitor with the earlier one, its
   leader can propose under a smaller number, and the order of proposal numbers is no
   longer the order of proposals, on which `handle_last` relies when it chooses among uncommitted
   values. `paxos_five` has a behaviour of five monitors in which two values are committed
   for one version (`CopiesAgree`): 2 leads {2,3,4}, stores w under 102 and restarts; 1 leads
   {1,3,4}, 3 accepts y under 201, 1 restarts; 0 leads {0,1,2} under 100, re-proposes y and has
   it accepted by 1 only; in the next epoch 0 finds w (102) newer than y (100), commits w under 200 and
   is cut off; 1 leads {1,2,3}, finds y (201) newer than w (200) and commits y. `MCPaxosFive` restricts
   the steps of `Paxos` to these quorums, as the space of five monitors is far beyond TLC;
   all other interleavings stay. Three monitors are too few for it (the runs with
   three pass). If `collect` stores `accepted_pn` too, the same schedule keeps the copies equal.
2. `PrimaryLogPG.cc:4147`: a backfill target that finds itself too full in a scan
   queues `BackfillTooFull`, to which only `RepRecovering` reacts. When the primary's
   RELEASE (its own slot was preempted) is handled first, the event finds the group in
   `RepNotRecovering`, and the state machine ends in `Crashed`
   ("we got a bad state machine event"). `RepNotRecovering` foresees this race for
   grants ("my reservation completion raced with a RELEASE from primary",
   `PeeringState.h:1106`) and not for this event. `recovery_scan` has the behaviour; the layouts
   of `recovery` scan only where nothing preempts, and keep all other disturbances.

Observations (documentation that the code contradicts, without a run of their own):

* `Elector.h:155` says that peers without the required features are ignored.
  The third branch of `handle_propose` (`Elector.cc:242`) NAKs a peer that
  lacks mon_features but does not return, so its proposal is handled and may be
  acked. The NAK precedes the ACK in the session and the peer exits before it can
  win, except in the first election of a new cluster, whose epoch 1 is not stored: a
  candidate that went back to probing drops the NAK, campaigns again in
  epoch 1 and counts the old ACK. `LackingNeverLeads` therefore excepts epoch 2.
* `Paxos.h:845` says of `handle_accept` that a value is committed when a majority
  has accepted. `Paxos.cc:799` waits for the whole quorum, which
  `ReadsAreCurrent` needs: with a majority only (`handle_accept_majority`) it is violated.
* `Paxos.h:51` says that the store holds nothing after `last_committed`; `begin`
  and `handle_begin` put the value there before it is committed, and recovery depends
  on it.
* `recovery_reservation.rst` says that the local reservation is held from recovery
  to backfill. `Recovering::react(RequestBackfill)` cancels it
  and asks again. It also says that a circular wait is prevented by the order of
  requests; `AllClean` confirms it, and asking in any other order (`Remotes_acting`) violates it.
* `Monitor.h:300` calls the cookie "unique ... for this sync attempt", but GET_COOKIE
  names no attempt: a COOKIE that was delayed past the requester's timeout is
  accepted by its next attempt with the same provider. See the hazards.

* `Monitor.cc:1903` says of a monitor that a quorum has left far behind: "We need to be kicked back to
  bootstrap so we can synchonize, not keep calling elections", and `handle_probe_probe` compares the prober's first
  version with its own last one for that. A probe does not carry it: `Monitor.cc:1215` leaves
  `paxos_first_version` 0 (`MMonProbe.h:68`), only the reply sets it (`Monitor.cc:1924`). The branch is dead, and
  `handle_probe` has none. `AllReturn` holds without it: such a monitor is sent back when
  it takes part in an election and Paxos finds it behind (`Elect`).

## 4. Proofs

`MonElection_proofs`, for every number of monitors and every bound on epochs:

* `ElectionTypeCorrect`, by induction on the steps.
* `OneAllegianceAlways`. Not inductive: two allegiances of one monitor
  could be given in one epoch if it could come back to it. The invariant
  `ElectionInv` adds that an allegiance's epoch is at most its monitor's present
  epoch, which is what storing the epoch gives.
* `UniqueEffectiveLeaderAlways`, from `OneAllegiance` and `MajoritiesIntersect`
  (two majorities share a monitor, by counting with the library's theorems on
  finite sets).
* `OldQuorumBrokenAlways`: the shared monitor followed the newer victory, so its
  epoch has passed the older one.

`PaxosLog_proofs`, for any monitors, values and length of the log, with the
invariant `LogInv` (every copy is a stretch of the log):

* `CommittedNeverTakenBack`: no step changes or takes back a committed version. This is what
  a system inherits that implements the log, as `Paxos` does with three monitors.

`Elector_proofs`, for every number of monitors from two on, every set of monitors that
lack features, with and without `FirstBoot` and `Synchronous`, and all bounds:

* `Implements`: every behaviour of `Elector` is one of `MonElection`. Each action is
  shown to be a `Leave`, a `Win`, a `Follow` or a stutter of the abstract election.
* `AssertsHoldAlways` and `ElectingHasTimerAlways`.
* `UniqueEffectiveLeaderAlways` and `OldQuorumBrokenAlways` for the real election: the
  theorems of `MonElection_proofs`, instantiated with the refinement mapping.
* `LackingNeverLeadsAlways`.
* `TypeCorrect`.

All but `LackingNeverLeadsAlways` share the inductive invariant `Inv`. Of each monitor it says that its epoch is the
stored one once the logic is initialised (`EpochStored`), that an election and a
deferral have the timer armed (`Timed`; `bump_epoch` keeps the deferral
of the epoch before, so the timer of an election alone would not be inductive), and that whoever
acked a candidate has reached its epoch (`AckedReached`). A victory in epoch e + 1
is then one over monitors none of which can have followed another leader in e + 1 before
they receive it. Of the messages in flight it says that
a proposal's sender stands in its epoch or has left it (`ProposalOK`), an ack's receiver likewise
(`AckOK`: this is what the assertions on acks need, whatever crashed since the
proposal), and that a victory is one that was declared, with the receiver in
its quorum (`VictoryOK`). The actions are composed as the code is: the
lemmas `Moves...` say what each function of `ElectionLogic` does to a
record, `StepInv` and `SendStep` carry the invariant over one record and the messages it
sends, and there is one lemma per handler.

`LackingNeverLeadsAlways` needs another one next to it. `FeatureInv` says that a candidate that lacks features
has nobody's ack but its own in an epoch after the first (`Alone`), because every
ack of the epoch it is in, on its way to it, has the NAK of the same epoch before it in the same session
(`NaksFirst`), and that victories and allegiances of such a monitor
are of epoch 2 at most (`Unled`). A NAK that is handled ends the candidacy; one that is dropped,
since the monitor had left the election, would uncover its ack
if the monitor could come back to that epoch. It cannot, when the epoch is stored:
`Reenter`, proved of every step together with the refinement. Epoch 1 is not stored, which is
the exception the property makes.

`Paxos_proofs`, for every number of monitors from two to a hundred and all bounds on
versions, epochs, crashes and renewals:

* `WaitsAreTimedAlways`.
* `RolesHoldAlways`: the part of `AssertsHold` on roles. A Paxos message carries an
  epoch and no role; `Paxos::dispatch` and the handlers assert that a peon hears only its
  leader and a leader only its peons. It also says that a timer finds the role it was armed in.
* `AssertsHoldAlways`: all of `AssertsHold`, with the part on rounds.

None of them is inductive, because a handler answers with the state its monitor is in, and
whether that state fits the sender's depends on what else is under way. The
invariant `Inv` is one about sessions. A message of a leader in epoch e comes after
the victory of e in the same session, or to a monitor that is `Bound` to that
victory: it follows the sender, has left e, or sits out e as a probing monitor that
cannot enter it any more. A leader's peers are `Told` in the same sense, even when a
crash has cut the session. A peon's message reaches a monitor that won that epoch with the
peon in its quorum (`Leads`) or has left it. Two winners of one
epoch exclude nothing of this: a monitor is bound to the first victory it acts
upon, and the second one sends it into another election. Quorums have even epochs: a leader that was
called to an election while writing (`flushing`) sends its COMMIT in the odd epoch it
has joined, which nobody handles. The first message of every session is one its
receiver listens to (`FirstHeard`). Of each monitor the invariant says `TimedWait` (what
`WaitsAreTimed` says, and that its timers are of its role), that only a leader writes,
and that only peers have answered a collect. How a monitor moves is the relation
`Evolves`, under which `Bound` and `Leads` are kept; `NetStep` and `InvStep` carry the
invariant over one step of one monitor, the lemmas on `begin`, `extend_lease`,
`finish_round`, `commit_finish`, `collect`, `store_state`, `update_peers` and `collected` say what each call
does to state, timers and messages, and there is one lemma per action.

The asserts on rounds need `RoundInv` on top of it. For a leader and each peer of its quorum,
`PairOK` says what is on its way between the two and what it answers. A COLLECT of the leader's present number is the
last one, and as long as it is there neither its LAST nor the promise exists (`CollectOK`); a LAST of
that number means that the peer has promised and hears no other COLLECT (`LastOK`); a peer that is counted has
no LAST left (`CountedOK`), so `num_last` counts peers and not messages; a BEGIN or an ACCEPT
is alone, and under way only while the leader awaits that peer (`BeginOK`, `AcceptOK`).
What a leader left behind when it was elected out is still covered: a BEGIN finds its receiver promised to
its number or out of the epoch (`PromiseOK`). A restarted collect relies on its number being new,
for which `Used` says that no number in a store, a memory or a message is larger than the last one
its owner has stored as `last_pn`; this is what that write is for, and why
the monitors are at most a hundred. `LocalOK` has what the timers and the value in flight say
of the state. There is again one lemma per action.

`AsyncReserver_proofs`, for any items, priorities, requests and limits:

* `IndexedAlways`, `OneOwnerAlways`, `CallersAreToldAlways`, `SettledAlways`, `TypeCorrect`.

What the procedures of `Reservations` find, keep and change is stated once, in the lemmas of
`Reservations_proofs`; the next proof uses them too. The invariant is a conjunction about the reserver that every procedure of
`Reservations` preserves, also between the two loops of `do_queues`: queues,
reservations and index agree and a reservation has the callbacks its state needs (`Sound`);
callbacks are those of requests made (`Numbered`), have one owner (`Owned`), and those that are
gone have been sent (`Told`). `OneOwner` needs `Sound`: a callback would be queued
twice if an item were in two queues. `Settled` also needs `ShedDone`: when the second loop
runs, the first one has ended, and granting never brings back what it shed. `do_queues` takes
the largest priority and the least pair with a `CHOOSE`; that these exist (`PrioMax`,
`BeginLeast`) rests on the well-foundedness of the naturals.

`RecoveryReservation_proofs`, for any OSDs, placement groups, placements, slots, priorities and
bounds on intervals, scans and full OSDs:

* `TypeCorrect` and `NoSlotLeaks` (`TypeOK` and `NoLeak`), of every behaviour.
* `GrantsAreTrue`: `GrantsAreReal`.
* `OnlyTooFull`: a step that aborts an OSD starts where a target has queued a
  `BackfillTooFull` of this interval for itself and is no longer in `RepRecovering`, or `hasty` is set. The
  race that `recovery_scan` shows and the retry that comes too soon are the only ways to
  abort.
* `NoAbort`: `NoCrash`, where no target is scanned (`NoScans`).
* `InvAlways`: the invariant of these three, until `hasty` is set.

`NoSlotLeaks` must not depend on the views below, which a retry that comes too soon breaks. Its
invariant `Light` says of every reserver that it is `Sound` and has a group only where the group
is in a state that holds a slot there, and of an OSD outside a group that it stays a stray. Each
reaction leaves such a state with the cancellation, whatever brought the event (`Ends`).

The others are not inductive either. A grant, a revocation, a release or a rejection names the group and the interval but
neither its sender nor the request it answers, so whether it is expected where it arrives
depends on everything else that is under way between the two OSDs. The invariant `Inv`
(`RecoveryReactions_proofs`) has three parts, about the views a primary has of its peers
(`GroupsOK`), and about what the local and the remote reservers hold (`LocalsOK`,
`RemotesOK`). A primary takes a peer for one of seven things (`View`: peering, free, asked
for recovery or for backfill, granted, done, drain), which its state, its iterator and its
retry timer determine. For each view `PairOK` says which states the peer may be in and which
messages of this interval may be on their way: at most one request, to a peer that
holds nothing when it arrives (`RequestOK`); an answer only to the request that is
awaited, and then the peer holds its slot with no message left to reach it (`AnswerOK`);
a `RecoveryDone` never to a peer that waits (`DoneOK`). `drain` is the view after a backfill was put
off: a grant that was under way may still come and is ignored in
`NotBackfilling`, but must not meet the next attempt. When the retry finds a peer in this view owing
an answer, `hasty` is set, and the invariant claims no more. Of a reserver `Fits` says that its reservations are
of groups in states that hold one, that its callbacks are ones the state machines can take
(`LocalOK`, `CallbackOK`, `DueOK`), and that a grant is queued at most once; the last needs
`Sound` of `AsyncReserver_proofs`. Only then can `do_queues` run anywhere, for
any group, in the middle of anything: it moves callbacks from reservations to the Finisher, and
`Fits` does not tell these apart. `do_queues` is here a recursive function of the number of
iterations. There is one lemma per reaction, for the primary and for the peer
(`RecoveryReactions_proofs`), and one per step (`RecoveryReservation_proofs`).

The assumptions on constants are those of the modules: at least one monitor (two for
`Elector`, as a monmap of one is not modelled), an epoch bound of at least the
epoch a cluster restarts after, monitors that lack features are monitors, finitely many items,
and natural numbers for the other bounds.

Only model-checked, on the bounds of section 3:

* all liveness (`QuorumForms`, `QuorumSettles`, `AllReturn`, `AllClean`), which is out of the
  prover's reach;
* the safety of `Paxos` (`DurableOnMajority`, `CopiesAgree`, `ImplementsLog`), for three monitors: it does not hold
  of every number of them (the first finding). `VersionsHold` too: that a peer behind the leader has
  caught up before a BEGIN reaches it follows from what the LASTs and the COMMITs carry, which the
  invariant of the rounds does not describe;
* `MonSync`: its key space and its replay of transactions are recursive functions, about which
  nothing can be proved for every input;
* `NoCrash` for the layouts of `recovery` that scan where nothing preempts: `OnlyTooFull` leaves
  the race open in general, rightly, since `recovery_scan` violates it;
* `Peering`, whose invariants depend on one another through the past intervals.

## 5. Left out

Of the election: a monmap of a single monitor (which wins at once), and a peer's
newer monmap (stored, then bootstrap). `LacksConn` stands for missing connection features and
for an old release; `handle_propose` checks both, `handle_ack` only the former, but ignores an ack of either in the
model. Of Paxos: a single-monitor quorum, `plug`
and `unplug`, `shutdown`, waiters, the bootstrap of a refresh that changed the
monmap, proposals by a waiter inside `finish_round` (they are a later
`trigger_propose`), clocks. In `Paxos` a monitor that is too far behind bootstraps and stays
out (`MonSync` takes it from there); the leader's own
bootstrap because a peer has trimmed beyond it, and the peer's, are one disjunct.
Membership is fixed.

Of the synchronisation: the stash of the monmap, the size of a chunk in bytes
(a chunk has any number of keys), the config keys. A probe is one step with its
answer's sending; at most one answer to a monitor's probes is under way.

Of recovery reservation: unfound objects, forced priorities, older peers,
`osd_recovery_sleep` and the objects themselves: the work is a last object
after which nothing is left. The targets of a backfill complete together, and give their slots back when
the primary releases them; in the code each also does so by itself, with the `RecoveryDone` it queues on
`OP_BACKFILL_FINISH` (`PrimaryLogPG.cc:4223`). The Finisher's callback and the event it queues are
one step.

Of peering: log trimming and with it backfill, asynchronous recovery and
`pg_temp` (the acting set is the up set), missing and unfound objects (an entry
that survives in the log may still name an object nobody has), lost OSDs, leases, splits,
merges, gaps in the maps, erasure coding, deletion in stages. `Incomplete` has no reactions,
since `NeverIncomplete` shows that it is not entered. The
placement function is "the first OSDs that are up". An OSD handles every map with an `ActMap` of its own, where the
code may advance over several before one; `up_thru` is set to the epoch of the group, which
is at most the one the OSD reports; a stray's notify that the primary could already take
while it gets logs waits until it is active.

Not modelled at all, with the reason in `PROJECT.json`: the monitor
services and their maps, the messenger below its contract, the metadata server, the object
store, CRUSH, the gateway, the clients, the manager, the journal, watch and notify, locks.

## 6. Plan

1. Proofs: `VersionsHold` of `Paxos`, from the invariant of its rounds and one on the versions that peers are brought
   to; its safety for three monitors only (the first finding refutes it for five);
   `LesReflectsWrites` of `Peering`.
2. The race of a delayed COOKIE, as an instance of `MonSync` of its own.
3. `PaxosService`: pending values, the proposal timer, waiters and refresh over
   `PaxosLog`, with elections and monmap changes in between.
4. `PaxosLease`: leases with drifting clocks, to say when a read may be stale; the
   same for the leases of placement groups.
5. Peering with trimmed logs: backfill and `pg_temp`, composed with `RecoveryReservation`
   in place of its `Activate`.
6. `Watch`, `SafeTimer`, `cls_lock` with `ManagedLock`.
