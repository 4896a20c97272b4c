------------------------------ MODULE PaxosLog ------------------------------
(***************************************************************************)
(* What Paxos promises to the monitor's services: one append-only sequence *)
(* of committed transactions, of which every monitor holds a contiguous    *)
(* stretch that only grows at its end and is only trimmed at its start.    *)
(***************************************************************************)
EXTENDS Integers, Sequences

CONSTANTS Mon,     \* the monitors
          Value    \* the transactions that may be proposed

VARIABLES log,     \* the sequence of all the values ever committed
          copy     \* copy[m]: what m holds: the versions first .. last

logVars == <<log, copy>>

LogInit ==
    /\ log = <<>>
    /\ copy = [m \in Mon |-> [first |-> 0, last |-> 0, entries |-> <<>>]]

(* From now on m holds the versions first .. last of the log l.            *)
Hold(m, first, last, l) ==
    /\ copy[m].first <= first /\ copy[m].last < last
    /\ first \in 1 .. last /\ last <= Len(l)
    /\ copy' = [copy EXCEPT ![m] = [first |-> first, last |-> last,
                                    entries |-> [v \in first .. last |-> l[v]]]]

(* A monitor that holds the whole log appends one more value.              *)
Commit(m) ==
    /\ copy[m].last = Len(log)
    /\ log' \in Seq(Value) /\ Len(log') = Len(log) + 1
    /\ \A v \in 1 .. Len(log) : log'[v] = log[v]
    /\ \E first \in 1 .. Len(log') : Hold(m, first, Len(log'), log')

(* A monitor catches up with what others have committed.                   *)
Learn(m) ==
    /\ UNCHANGED log
    /\ \E last \in 1 .. Len(log) : \E first \in 1 .. last : Hold(m, first, last, log)

LogNext == \E m \in Mon : Commit(m) \/ Learn(m)

LogSpec == LogInit /\ [][LogNext]_logVars

----------------------------------------------------------------------------
(* The versions that m holds.                                              *)
Held(m) == {v \in 1 .. copy[m].last : v >= copy[m].first}

(* Two monitors that both hold a version hold the same value: the monitors *)
(* are replicas of one state machine, whatever each has trimmed or missed. *)
CopiesAgree ==
    \A m, n \in Mon : \A v \in Held(m) \intersect Held(n) :
        copy[m].entries[v] = copy[n].entries[v]

(* A step of m that only trims versions at the start and adds some at the  *)
(* end.                                                                    *)
Keeps(m) ==
    /\ copy'[m].last >= copy[m].last /\ copy'[m].first >= copy[m].first
    /\ \A v \in Held(m) \intersect Held(m)' : copy'[m].entries[v] = copy[m].entries[v]

(* What a monitor has committed it never takes back or changes.            *)
NeverTakenBack == [][\A m \in Mon : Keeps(m)]_logVars
=============================================================================
