--------------------------- MODULE AsyncReserver ---------------------------
(* One AsyncReserver used by many threads (common/AsyncReserver.h): every   *)
(* call takes the lock, changes the queues and runs do_queues, while the    *)
(* Finisher thread (common/Finisher.cc) takes the contexts it was handed    *)
(* and completes them with no lock held.  The callers are the placement     *)
(* groups: each asks again only after it has cancelled, and may cancel at   *)
(* any time.  The contexts are objects with one owner: the reservation,     *)
(* then the Finisher.                                                       *)
EXTENDS Reservations

CONSTANTS MaxRequests, \* bound: requests in a behaviour
          Limits       \* the values of max_allowed an operator configures

VARIABLES r,       \* the reserver
          pc,      \* "unlocked", or the loop of do_queues its holder is in
          asked,   \* items whose caller has requested and not yet cancelled
          made,    \* number of requests so far
          last,    \* item -> the number of its last request, 0 before it
          alive,   \* contexts allocated and neither completed nor deleted
          done     \* contexts completed by the Finisher

vars == <<r, pc, asked, made, last, alive, done>>

ASSUME AsyncReserverAssumption ==
    /\ MaxRequests \in Nat
    /\ Limits \subseteq Nat
    /\ Limits # {}
    /\ Context = {"grant", "preempt"} \X (1 .. MaxRequests)

Ctx(k, i) == <<k, last[i]>>

----------------------------------------------------------------------------
Init == /\ \E max \in Limits : r = NewReserver(max, 0)
        /\ pc = "unlocked"
        /\ asked = {}
        /\ made = 0
        /\ last = [i \in Item |-> 0]
        /\ alive = {}
        /\ done = {}

(* A call takes the lock, changes the reserver and goes on to do_queues.    *)
Call(new) == pc = "unlocked" /\ r' = new /\ pc' = "shed"

Request(i, prio, preemptible) ==
    LET g == <<"grant", made + 1>>
        p == IF preemptible THEN <<"preempt", made + 1>> ELSE Null IN
    /\ i \notin asked
    /\ made < MaxRequests
    /\ Call(request_reservation(r, i, g, prio, p))
    /\ asked' = asked \cup {i}
    /\ made' = made + 1
    /\ last' = [last EXCEPT ![i] = made + 1]
    /\ alive' = alive \cup ({g, p} \ {Null})
    /\ UNCHANGED done

(* Mutant: the callback for a preemption is left behind.                    *)
Deleted_grant(i) == {r.res[i].grant}

Deleted(i) == {r.res[i].grant, r.res[i].preempt}

Cancel(i) ==
    /\ last[i] > 0
    /\ Call(cancel_reservation(r, i))
    /\ asked' = asked \ {i}
    /\ alive' = alive \ Deleted(i)
    /\ UNCHANGED <<made, last, done>>

Update(i, prio) ==
    /\ i \in asked
    /\ ~SamePriority(r, i, prio)
    /\ Call(update_priority(r, i, prio))
    /\ UNCHANGED <<asked, made, last, alive, done>>

(* Mutant: the new limit is not applied to the reservations in progress.    *)
set_max_lazy(max) ==
    /\ pc = "unlocked"
    /\ r' = [r EXCEPT !.max_allowed = max]
    /\ UNCHANGED <<pc, asked, made, last, alive, done>>

set_max(max) ==
    /\ Call([r EXCEPT !.max_allowed = max])
    /\ UNCHANGED <<asked, made, last, alive, done>>

set_min_priority(min) ==
    /\ Call([r EXCEPT !.min_priority = min])
    /\ UNCHANGED <<asked, made, last, alive, done>>

----------------------------------------------------------------------------
(* do_queues, one iteration of its two loops at a time.                     *)
Shed == /\ pc = "shed"
        /\ IF MustShed(r) THEN r' = preempt_one(r) /\ UNCHANGED pc
                          ELSE pc' = "serve" /\ UNCHANGED r
        /\ UNCHANGED <<asked, made, last, alive, done>>

Serve ==
    LET s == IF Outranked(r) THEN preempt_one(r) ELSE r IN
    /\ pc = "serve"
    /\ IF ~MayServe(r) THEN pc' = "unlocked" /\ UNCHANGED r
       ELSE IF Full(s) THEN pc' = "unlocked" /\ r' = s
       ELSE r' = grant(s) /\ UNCHANGED pc
    /\ UNCHANGED <<asked, made, last, alive, done>>

(* The Finisher completes its contexts in order, whoever holds the lock.    *)
Complete ==
    /\ r.f # <<>>
    /\ r' = [r EXCEPT !.f = Tail(@)]
    /\ alive' = alive \ {Head(r.f)}
    /\ done' = done \cup {Head(r.f)}
    /\ UNCHANGED <<pc, asked, made, last>>

Next == \/ \E i \in Item, p \in Prio : (\E b \in BOOLEAN : Request(i, p, b)) \/ Update(i, p)
        \/ \E i \in Item : Cancel(i)
        \/ \E m \in Limits : set_max(m)
        \/ \E p \in Prio : set_min_priority(p)
        \/ Shed \/ Serve \/ Complete

Spec == Init /\ [][Next]_vars

----------------------------------------------------------------------------
TypeOK == /\ r \in Reserver
          /\ pc \in {"unlocked", "shed", "serve"}
          /\ asked \subseteq Item
          /\ made \in 0 .. MaxRequests
          /\ last \in [Item -> 0 .. made]
          /\ alive \subseteq Context
          /\ done \subseteq Context

(* The containers of the reserver describe one set of reservations: an item *)
(* waits in one place of one queue, the one of its priority, or is in       *)
(* progress, and preempt_by_prio is exactly the index of those in progress  *)
(* that can be preempted, under their current priority.  These are the      *)
(* facts behind the assertions of request_reservation, update_priority and  *)
(* preempt_one.                                                             *)
Indexed ==
    /\ \A p \in Prio : \A k, l \in 1 .. Len(r.queues[p]) :
          r.queues[p][k] = r.queues[p][l] => k = l
    /\ \A i \in Item, p \in Prio :
          i \in Elems(r.queues[p]) => i \notin r.in_progress /\ r.res[i].prio = p
    /\ r.preempt_by_prio =
          {<<r.res[i].prio, i>> : i \in {j \in r.in_progress : r.res[j].preempt # Null}}
    /\ \A i \in Item : HasReservation(r, i) => i \in asked

(* When the lock is free, no more reservations are in progress than         *)
(* max_allowed unless none of them can be preempted, also after set_max has *)
(* lowered it; and nobody waits who should not: every queue of the minimum  *)
(* priority or more finds the reserver full of reservations that it does    *)
(* not outrank or that cannot be preempted.                                 *)
Settled ==
    pc = "unlocked" =>
        /\ Cardinality(r.in_progress) > r.max_allowed => r.preempt_by_prio = {}
        /\ \A p \in Waiting(r) : p >= r.min_priority =>
              Full(r) /\ \A b \in r.preempt_by_prio : p <= b[1]

(* Every context that lives has one owner: it is a callback of a            *)
(* reservation or stands once in the Finisher's queue, never both.  Nothing *)
(* leaks, and nothing is completed or deleted twice, whatever the order of  *)
(* grants, preemptions and cancellations.                                   *)
OneOwner ==
    LET held == (UNION {{r.res[i].grant, r.res[i].preempt} : i \in Item}) \ {Null} IN
    /\ alive = held \cup Elems(r.f)
    /\ held \cap Elems(r.f) = {}
    /\ \A k, l \in 1 .. Len(r.f) : r.f[k] = r.f[l] => k = l
    /\ done \cap alive = {}

(* A caller learns what happens to it: as long as it has not cancelled, it  *)
(* waits, or it holds a slot and its grant is completed or on its way, or   *)
(* its preemption is, behind its grant.  A caller that was told of its      *)
(* grant and of no preemption holds a slot unless the news is on its way.   *)
CallersAreTold ==
    \A i \in asked :
        LET Sent(k) == Ctx(k, i) \in done \cup Elems(r.f) IN
        \/ i \in Queued(r) /\ ~Sent("grant")
        \/ i \in r.in_progress /\ Sent("grant") /\ ~Sent("preempt")
        \/ Sent("grant") /\ Sent("preempt") /\ ~HasReservation(r, i)

=============================================================================
