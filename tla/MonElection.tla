---------------------------- MODULE MonElection ----------------------------
(***************************************************************************)
(* What the monitors' election promises to the parts that rely on it       *)
(* (Paxos, the services): an abstract specification of ElectionLogic.cc,   *)
(* Elector.cc and the election hooks of Monitor.cc, without messages or    *)
(* timers.                                                                 *)
(*                                                                         *)
(* It does NOT promise a single leader per epoch.  A monitor may ack       *)
(* several ever better ranked candidates in one epoch, so two candidates   *)
(* can both collect a majority and both declare victory with the same      *)
(* epoch.  What is promised is weaker and sufficient: a monitor follows at *)
(* most one leader in an epoch, so at most one of them is followed by its  *)
(* whole quorum -- and Paxos makes no progress without the whole quorum.   *)
(***************************************************************************)
EXTENDS Naturals, FiniteSets

CONSTANTS N,         \* monmap->size(): the ranks are 0 .. N-1
          MaxEpoch   \* bound on the election epochs

ASSUME NAssumption == N \in Nat \ {0}
ASSUME MaxEpochAssumption == MaxEpoch \in Nat

VARIABLES epoch,     \* epoch[m]: the election epoch m has reached (durable)
          role,      \* role[m]: "out" of any quorum, "leader" or "peon"
          claims,    \* every victory declared: [epoch, leader, quorum]
          follows    \* every allegiance entered: [mon, epoch, leader]

electionVars == <<epoch, role, claims, follows>>

Mon == 0 .. N - 1

(* Mutant: half of the monitors are taken for a majority. *)
IsMajorityHalf(q) == 2 * Cardinality(q) >= N - 1

IsMajority(q) == 2 * Cardinality(q) > N

Claim == [epoch : Nat, leader : Mon, quorum : SUBSET Mon]
Allegiance == [mon : Mon, epoch : Nat, leader : Mon]

(* The variables keep their types. *)
ElectionTypeOK ==
    /\ epoch \in [Mon -> Nat]
    /\ role \in [Mon -> {"out", "leader", "peon"}]
    /\ claims \subseteq Claim
    /\ follows \subseteq Allegiance

ElectionInit ==
    /\ epoch \in [Mon -> 1 .. MaxEpoch]    \* whatever the stores hold
    /\ role = [m \in Mon |-> "out"]
    /\ claims = {}
    /\ follows = {}

----------------------------------------------------------------------------
(* Mutant: a monitor that restarts may have lost its epoch. *)
Leave_volatile(m, e) ==
    /\ epoch' = [epoch EXCEPT ![m] = e]
    /\ role' = [role EXCEPT ![m] = "out"]
    /\ UNCHANGED <<claims, follows>>

(* Mutant: the epoch is set back to the last election's. *)
Leave_back(m, e) ==
    /\ epoch' = [epoch EXCEPT ![m] = @ - 2]
    /\ role' = [role EXCEPT ![m] = "out"]
    /\ UNCHANGED <<claims, follows>>

(* m leaves its quorum, or takes part in (yet another) election: it never  *)
(* returns to an epoch it has left.                                        *)
Leave(m, e) ==
    /\ e \in epoch[m] .. MaxEpoch
    /\ epoch' = [epoch EXCEPT ![m] = e]
    /\ role' = [role EXCEPT ![m] = "out"]
    /\ UNCHANGED <<claims, follows>>

(* m closes the odd epoch it is electing in with the majority q that acked *)
(* it: all of them have reached that epoch, and only ranks after m ack m.  *)
Win(m, q) ==
    /\ epoch[m] % 2 = 1 /\ epoch[m] < MaxEpoch
    /\ m \in q /\ IsMajority(q)
    /\ \A p \in q : p >= m /\ epoch[p] >= epoch[m]
    /\ epoch' = [epoch EXCEPT ![m] = @ + 1]
    /\ role' = [role EXCEPT ![m] = "leader"]
    /\ claims' = claims \union {[epoch |-> epoch[m] + 1, leader |-> m, quorum |-> q]}
    /\ follows' = follows \union {[mon |-> m, epoch |-> epoch[m] + 1, leader |-> m]}

(* Mutant: a victory of the epoch m is already in is accepted. *)
Follow_again(m, c) ==
    /\ m \in c.quorum /\ c.leader < m
    /\ c.epoch >= epoch[m] /\ c.epoch <= MaxEpoch
    /\ epoch' = [epoch EXCEPT ![m] = c.epoch]
    /\ role' = [role EXCEPT ![m] = "peon"]
    /\ follows' = follows \union {[mon |-> m, epoch |-> c.epoch, leader |-> c.leader]}
    /\ UNCHANGED claims

(* m learns of a victory that closes the very epoch it is electing in.     *)
Follow(m, c) ==
    /\ m \in c.quorum /\ c.leader < m
    /\ c.epoch = epoch[m] + 1 /\ c.epoch <= MaxEpoch
    /\ epoch' = [epoch EXCEPT ![m] = c.epoch]
    /\ role' = [role EXCEPT ![m] = "peon"]
    /\ follows' = follows \union {[mon |-> m, epoch |-> c.epoch, leader |-> c.leader]}
    /\ UNCHANGED claims

ElectionNext ==
    \E m \in Mon :
        \/ \E e \in 1 .. MaxEpoch : Leave(m, e)
        \/ \E q \in SUBSET Mon : Win(m, q)
        \/ \E c \in claims : Follow(m, c)

ElectionSpec == ElectionInit /\ [][ElectionNext]_electionVars

----------------------------------------------------------------------------
(* The claim c is effective: every member of its quorum followed it.       *)
Effective(c) ==
    \A p \in c.quorum : [mon |-> p, epoch |-> c.epoch, leader |-> c.leader] \in follows

(* A monitor gives its allegiance to at most one leader in an epoch, over  *)
(* its whole life: bump_epoch persists each epoch it enters and            *)
(* receive_victory_claim accepts only the epoch that follows.              *)
OneAllegiance ==
    \A f, g \in follows : f.mon = g.mon /\ f.epoch = g.epoch => f.leader = g.leader

(* Two victories of the same epoch are never both effective: the two       *)
(* quorums are majorities and share a monitor, which followed only one.    *)
UniqueEffectiveLeader ==
    \A c, d \in claims :
        c.epoch = d.epoch /\ Effective(c) /\ Effective(d) => c.leader = d.leader

(* Leaders of different effective epochs are separated by a monitor that   *)
(* has left the older one: once a newer victory is effective no older      *)
(* quorum is complete any more, which is what makes the old leader's Paxos *)
(* rounds stall instead of committing.                                     *)
OldQuorumBroken ==
    \A c, d \in claims :
        c.epoch < d.epoch /\ Effective(d) => \E p \in c.quorum : epoch[p] > c.epoch
============================================================================
