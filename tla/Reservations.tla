---------------------------- MODULE Reservations ----------------------------
(* The data and the procedures of AsyncReserver<T> (common/AsyncReserver.h) *)
(* as operators on a value r, the reserver under its lock:                  *)
(*    queues           priority -> the items that wait, oldest first        *)
(*    in_progress      the items that hold a slot                           *)
(*    res              item -> its Reservation (Nil when it has none)       *)
(*    preempt_by_prio  index of the items in progress that can be preempted *)
(*    f                the contexts handed to the Finisher, oldest first    *)
(*    max_allowed, min_priority                                             *)
(* queue_pointers is the index of queues by item and is left out: Queued    *)
(* says what it contains.  AsyncReserver.tla runs these operators from      *)
(* several threads, RecoveryReservation.tla from the placement groups.      *)
EXTENDS Integers, Sequences, FiniteSets

CONSTANTS Item,        \* reservation keys; Nat, for they are ordered
          MaxPrio,     \* the largest priority
          Context,     \* the callbacks
          Null         \* no callback

ASSUME ReservationsAssumption ==
    /\ Item \subseteq Nat
    /\ IsFiniteSet(Item)
    /\ MaxPrio \in Nat
    /\ Null \notin Context

Prio == 0 .. MaxPrio

Reservation == [prio : Prio, grant : Context \cup {Null}, preempt : Context \cup {Null}]

Nil == [prio |-> 0, grant |-> Null, preempt |-> Null]

Reserver ==
    [queues : [Prio -> Seq(Item)], in_progress : SUBSET Item, res : [Item -> Reservation],
     preempt_by_prio : SUBSET (Prio \X Item), f : Seq(Context),
     max_allowed : Nat, min_priority : Nat]

NewReserver(max, min) ==
    [queues |-> [p \in Prio |-> <<>>], in_progress |-> {}, res |-> [i \in Item |-> Nil],
     preempt_by_prio |-> {}, f |-> <<>>, max_allowed |-> max, min_priority |-> min]

Elems(s) == {s[k] : k \in 1 .. Len(s)}

Queued(r) == {i \in Item : \E p \in Prio : i \in Elems(r.queues[p])}

HasReservation(r, i) == i \in Queued(r) \/ i \in r.in_progress

----------------------------------------------------------------------------
(* The order of set<pair<unsigned,T>>, and its first element.               *)
LessEq(a, b) == a[1] < b[1] \/ (a[1] = b[1] /\ a[2] <= b[2])

Begin(S) == CHOOSE a \in S : \A b \in S : LessEq(a, b)

Full(r) == Cardinality(r.in_progress) >= r.max_allowed

(* Mutant: the victim loses its slot and nobody tells it.                   *)
preempt_one_silent(r) ==
    LET b == Begin(r.preempt_by_prio) IN
    [r EXCEPT !.in_progress = @ \ {b[2]}, !.res[b[2]] = Nil, !.preempt_by_prio = @ \ {b}]

preempt_one(r) ==
    LET b == Begin(r.preempt_by_prio) IN
    [r EXCEPT !.f = Append(@, r.res[b[2]].preempt),
              !.in_progress = @ \ {b[2]},
              !.res[b[2]] = Nil,
              !.preempt_by_prio = @ \ {b}]

(* The condition of the first loop of do_queues.                            *)
MustShed(r) ==
    /\ r.preempt_by_prio # {}
    /\ \/ Cardinality(r.in_progress) > r.max_allowed
       \/ Begin(r.preempt_by_prio)[1] < r.min_priority

Waiting(r) == {p \in Prio : r.queues[p] # <<>>}

Highest(r) == CHOOSE p \in Waiting(r) : \A q \in Waiting(r) : q <= p

(* The second loop of do_queues: it goes on while some queue has at least   *)
(* the minimum priority, preempts when that makes room for a higher         *)
(* priority, and ends when there is no room.                                *)
MayServe(r) == Waiting(r) # {} /\ Highest(r) >= r.min_priority

Outranked(r) ==
    /\ Full(r)
    /\ r.preempt_by_prio # {}
    /\ Highest(r) > Begin(r.preempt_by_prio)[1]

grant(r) ==
    LET p == Highest(r)
        i == Head(r.queues[p]) IN
    [r EXCEPT !.queues[p] = Tail(@),
              !.f = Append(@, r.res[i].grant),
              !.in_progress = @ \cup {i},
              !.res[i].grant = Null,
              !.preempt_by_prio = IF r.res[i].preempt = Null THEN @
                                  ELSE @ \cup {<<r.res[i].prio, i>>}]

----------------------------------------------------------------------------
(* The calls, without the do_queues that ends each of them.                 *)
Position(s, i) == CHOOSE k \in 1 .. Len(s) : s[k] = i

erase(s, i) ==
    LET k == Position(s, i) IN
    [j \in 1 .. Len(s) - 1 |-> IF j < k THEN s[j] ELSE s[j + 1]]

request_reservation(r, i, on_reserved, prio, on_preempt) ==
    [r EXCEPT !.queues[prio] = Append(@, i),
              !.res[i] = [prio |-> prio, grant |-> on_reserved, preempt |-> on_preempt]]

cancel_reservation(r, i) ==
    IF i \in Queued(r)
    THEN [r EXCEPT !.queues[r.res[i].prio] = erase(@, i), !.res[i] = Nil]
    ELSE [r EXCEPT !.in_progress = @ \ {i},
                   !.preempt_by_prio = @ \ {<<r.res[i].prio, i>>},
                   !.res[i] = Nil]

(* Mutant: the preemption index keeps the old priority.                     *)
update_priority_unindexed(r, i, newprio) ==
    IF i \in Queued(r)
    THEN [r EXCEPT !.queues[r.res[i].prio] = erase(@, i),
                   !.queues[newprio] = Append(@, i),
                   !.res[i].prio = newprio]
    ELSE IF i \in r.in_progress THEN [r EXCEPT !.res[i].prio = newprio] ELSE r

(* A queued item goes to the end of its new queue; one in progress is       *)
(* moved in the preemption index.                                           *)
update_priority(r, i, newprio) ==
    IF i \in Queued(r)
    THEN [r EXCEPT !.queues[r.res[i].prio] = erase(@, i),
                   !.queues[newprio] = Append(@, i),
                   !.res[i].prio = newprio]
    ELSE IF i \in r.in_progress
    THEN [r EXCEPT !.preempt_by_prio =
                       IF r.res[i].preempt = Null THEN @
                       ELSE (@ \ {<<r.res[i].prio, i>>}) \cup {<<newprio, i>>},
                   !.res[i].prio = newprio]
    ELSE r

(* update_priority returns early, without do_queues, when nothing changes.  *)
SamePriority(r, i, newprio) == HasReservation(r, i) /\ r.res[i].prio = newprio
=============================================================================
