--------------------------- MODULE PaxosLog_proofs ---------------------------
(* What follows from the log that Paxos promises, for any monitors, any    *)
(* values and a log of any length.                                         *)
EXTENDS PaxosLog, TLAPS

(* Every copy is a stretch of the log.                                     *)
LogInv ==
    /\ log \in Seq(Value)
    /\ copy = [m \in Mon |-> copy[m]]
    /\ \A m \in Mon :
        /\ copy[m].first \in Nat /\ copy[m].last \in 0 .. Len(log)
        /\ \A v \in Held(m) : copy[m].entries[v] = log[v]

(* After Hold m has a stretch of the log l, longer than before; the others *)
(* have what they had.                                                     *)
LEMMA HoldEffect ==
  ASSUME LogInv, NEW m \in Mon, NEW l \in Seq(Value),
         NEW first \in Nat, NEW last \in Nat, Hold(m, first, last, l)
  PROVE  /\ first \in Nat /\ last \in 0 .. Len(l)
         /\ copy[m].first <= first /\ copy[m].last <= last
         /\ copy'[m].first = first /\ copy'[m].last = last
         /\ \A v \in Held(m)' : copy'[m].entries[v] = l[v]
         /\ \A n \in Mon \ {m} : copy'[n] = copy[n]
         /\ copy' = [n \in Mon |-> copy'[n]]
<1> DEFINE new == [first |-> first, last |-> last, entries |-> [v \in first .. last |-> l[v]]]
<1>1. /\ copy' = [copy EXCEPT ![m] = new]
      /\ copy = [n \in Mon |-> copy[n]]
  BY DEF Hold, LogInv
<1>2. copy'[m] = new /\ copy' = [n \in Mon |-> copy'[n]] /\ \A n \in Mon \ {m} : copy'[n] = copy[n]
  BY ONLY <1>1, m \in Mon
<1>3. last \in Nat /\ Len(l) \in Nat /\ first \in 1 .. last /\ last <= Len(l)
  <2>1. Len(l) \in Nat /\ copy[m].first \in Nat /\ copy[m].last \in Nat
    BY DEF LogInv
  <2> QED
    BY <2>1 DEF Hold
<1>4. copy[m].first <= first /\ copy[m].last <= last
  BY <1>3 DEF Hold, LogInv
<1>5. \A v \in Held(m)' : copy'[m].entries[v] = l[v]
  BY <1>2, <1>3 DEF Held
<1> QED
  BY <1>2, <1>3, <1>4, <1>5

(* The log is only ever extended, and copies stay stretches of it.         *)
LEMMA LogInvInductive == LogInv /\ [LogNext]_logVars => LogInv'
<1> SUFFICES ASSUME LogInv, [LogNext]_logVars
             PROVE  LogInv'
  OBVIOUS
<1>1. CASE UNCHANGED logVars
  BY <1>1 DEF logVars, LogInv, Held
<1>2. ASSUME NEW m \in Mon, log' \in Seq(Value), Len(log') >= Len(log),
             \A v \in 1 .. Len(log) : log'[v] = log[v],
             NEW first \in Nat, NEW last \in Nat, Hold(m, first, last, log')
      PROVE  LogInv'
  <2>1. /\ first \in Nat /\ last \in 0 .. Len(log')
        /\ copy'[m].first = first /\ copy'[m].last = last
        /\ \A v \in Held(m)' : copy'[m].entries[v] = log'[v]
        /\ \A n \in Mon \ {m} : copy'[n] = copy[n]
        /\ copy' = [n \in Mon |-> copy'[n]]
    BY <1>2, HoldEffect
  <2>2. ASSUME NEW n \in Mon \ {m}
        PROVE  /\ copy'[n].first \in Nat /\ copy'[n].last \in 0 .. Len(log')
               /\ \A v \in Held(n)' : copy'[n].entries[v] = log'[v]
    <3>1. /\ copy[n].first \in Nat /\ copy[n].last \in 0 .. Len(log)
          /\ \A v \in Held(n) : copy[n].entries[v] = log[v]
      BY DEF LogInv
    <3>2. copy'[n] = copy[n] /\ Held(n)' = Held(n)
      BY <2>1 DEF Held
    <3>3. Len(log) \in Nat /\ Len(log') \in Nat
      BY <1>2 DEF LogInv
    <3> QED
      BY <1>2, <3>1, <3>2, <3>3 DEF Held
  <2> QED
    BY <1>2, <2>1, <2>2 DEF LogInv
<1>3. ASSUME NEW m \in Mon, Commit(m)
      PROVE  LogInv'
  <2>1. Len(log) \in Nat /\ Len(log') \in Nat
    BY <1>3 DEF Commit, LogInv
  <2>2. PICK first \in 1 .. Len(log') : Hold(m, first, Len(log'), log')
    BY <1>3 DEF Commit
  <2> QED
    BY <1>2, <1>3, <2>1, <2>2 DEF Commit
<1>4. ASSUME NEW m \in Mon, Learn(m)
      PROVE  LogInv'
  <2>1. Len(log) \in Nat /\ log' = log
    BY <1>4 DEF Learn, LogInv
  <2>2. PICK last \in 1 .. Len(log) : \E first \in 1 .. last : Hold(m, first, last, log)
    BY <1>4 DEF Learn
  <2> QED
    BY <1>2, <2>1, <2>2 DEF LogInv
<1> QED
  BY <1>1, <1>3, <1>4 DEF LogNext

LEMMA LogInvariant == LogSpec => []LogInv
<1>1. LogInit => LogInv
  BY DEF LogInit, LogInv, Held
<1> QED
  BY <1>1, LogInvInductive, PTL DEF LogSpec

(* No step of the log changes or takes back a version a monitor committed: *)
(* store_state and commit_start only append, trim only drops the oldest.   *)
THEOREM CommittedNeverTakenBack == LogSpec => NeverTakenBack
<1>1. ASSUME LogInv, LogInv', LogNext, NEW n \in Mon
      PROVE  Keeps(n)
  <2>1. ASSUME NEW m \in Mon, log' \in Seq(Value),
               \A v \in 1 .. Len(log) : log'[v] = log[v],
               NEW first \in Nat, NEW last \in Nat, Hold(m, first, last, log')
        PROVE  Keeps(n)
    <3>1. /\ copy[m].first <= first /\ copy[m].last <= last
          /\ copy'[m].first = first /\ copy'[m].last = last
          /\ \A k \in Mon \ {m} : copy'[k] = copy[k]
      BY <1>1, <2>1, HoldEffect
    <3>2. \A v \in Held(n) \intersect Held(n)' : copy'[n].entries[v] = copy[n].entries[v]
      <4>1. \A v \in Held(n) : v \in 1 .. Len(log) /\ copy[n].entries[v] = log[v]
        BY <1>1 DEF LogInv, Held
      <4>2. \A v \in Held(n)' : copy'[n].entries[v] = log'[v]
        BY <1>1 DEF LogInv
      <4> QED
        BY <2>1, <4>1, <4>2
    <3>3. copy[n].first \in Nat /\ copy[n].last \in Nat
      BY <1>1 DEF LogInv
    <3>4. copy'[n].last >= copy[n].last /\ copy'[n].first >= copy[n].first
      BY <3>1, <3>3
    <3> QED
      BY <3>2, <3>4 DEF Keeps
  <2>2. ASSUME NEW m \in Mon, Commit(m)
        PROVE  Keeps(n)
    <3>1. PICK first \in 1 .. Len(log') : Hold(m, first, Len(log'), log')
      BY <2>2 DEF Commit
    <3> QED
      BY <2>1, <2>2, <3>1 DEF Commit
  <2>3. ASSUME NEW m \in Mon, Learn(m)
        PROVE  Keeps(n)
    <3>1. Len(log) \in Nat /\ log \in Seq(Value) /\ log' = log
      BY <1>1, <2>3 DEF Learn, LogInv
    <3>2. PICK last \in 1 .. Len(log) : \E first \in 1 .. last : Hold(m, first, last, log)
      BY <2>3 DEF Learn
    <3> QED
      BY <2>1, <3>1, <3>2
  <2> QED
    BY <1>1, <2>2, <2>3 DEF LogNext
<1>2. LogInv /\ LogInv' /\ [LogNext]_logVars => [\A m \in Mon : Keeps(m)]_logVars
  BY <1>1
<1> QED
  BY <1>2, LogInvariant, PTL DEF LogSpec, NeverTakenBack
==============================================================================
