------------------------- MODULE Reservations_proofs -------------------------
(* What the operators of Reservations find, keep and change, for any number *)
(* of items and priorities and any limits.                                  *)
EXTENDS Reservations, FiniteSetTheorems, SequenceTheorems, WellFoundedInduction, TLAPS

----------------------------------------------------------------------------
(* What the operators of Reservations find and return.                      *)

LEMMA NatMin ==
  ASSUME NEW T \in SUBSET Nat, T # {}
  PROVE  \E x \in T : \A y \in T : x <= y
<1> DEFINE R == OpToRel(<, Nat)
<1>1. IsWellFoundedOn(R, Nat)
  BY NatLessThanWellFounded
<1>2. R = {ss \in Nat \X Nat : ss[1] < ss[2]}
  BY DEF OpToRel
<1> HIDE DEF R
<1>3. PICK x \in T : \A y \in T : ~ (<<y, x>> \in R)
  BY <1>1, WFMin
<1>4. ASSUME NEW y \in T PROVE x <= y
  <2>1. x \in Nat /\ y \in Nat
    OBVIOUS
  <2>2. y < x => <<y, x>> \in {ss \in Nat \X Nat : ss[1] < ss[2]}
    BY <2>1
  <2> QED
    BY <1>2, <1>3, <2>1, <2>2
<1> QED
  BY <1>4

(* The largest priority of a set, which do_queues takes with rbegin().      *)
LEMMA PrioMax ==
  ASSUME NEW T \in SUBSET Prio, T # {}
  PROVE  \E p \in T : \A q \in T : q <= p
<1> DEFINE M == {n \in Nat : \E p \in T : n = MaxPrio - p}
<1>1. \A p \in T : p \in Nat /\ p <= MaxPrio /\ MaxPrio - p \in M
  BY ReservationsAssumption DEF Prio
<1>2. M # {} /\ M \in SUBSET Nat
  BY <1>1
<1>3. PICK x \in M : \A y \in M : x <= y
  BY <1>2, NatMin
<1>4. PICK p \in T : x = MaxPrio - p
  OBVIOUS
<1> HIDE DEF M
<1>5. \A q \in T : q <= p
  BY <1>1, <1>3, <1>4, ReservationsAssumption
<1> QED
  BY <1>5

(* begin() of a set of pairs is its least element.                          *)
LEMMA BeginLeast ==
  ASSUME NEW B \in SUBSET (Prio \X Item), B # {}
  PROVE  /\ Begin(B) \in B
         /\ \A b \in B : LessEq(Begin(B), b)
<1>1. ASSUME NEW b \in B PROVE b[1] \in Nat /\ b[2] \in Nat
  <2>1. b \in Prio \X Item
    OBVIOUS
  <2>2. b[1] \in Prio /\ b[2] \in Item
    BY <2>1
  <2>3. Prio \subseteq Nat /\ Item \subseteq Nat
    BY ReservationsAssumption DEF Prio
  <2> QED
    BY <2>2, <2>3
<1> DEFINE P == {b[1] : b \in B}
<1>2. PICK x \in P : \A y \in P : x <= y
  <2>1. P \in SUBSET Nat /\ P # {}
    BY <1>1
  <2> QED
    BY <2>1, NatMin
<1> DEFINE I == {n \in Nat : \E b \in B : b[1] = x /\ n = b[2]}
<1>3. I # {} /\ I \in SUBSET Nat
  BY <1>1, <1>2
<1>4. PICK i \in I : \A j \in I : i <= j
  BY <1>3, NatMin
<1>5. PICK a \in B : a[1] = x /\ a[2] = i
  BY <1>4
<1>6. ASSUME NEW b \in B PROVE LessEq(a, b)
  <2>1. b[1] \in P /\ (b[1] = x => b[2] \in I)
    BY <1>1
  <2> QED
    BY <1>1, <1>2, <1>4, <1>5, <2>1 DEF LessEq
<1>7. \E c \in B : \A b \in B : LessEq(c, b)
  BY <1>6
<1> QED
  BY <1>7 DEF Begin

Distinct(s) == \A k, l \in 1 .. Len(s) : s[k] = s[l] => k = l

LEMMA AppendElems ==
  ASSUME NEW S, NEW s \in Seq(S), NEW e \in S
  PROVE  /\ Append(s, e) \in Seq(S)
         /\ Elems(Append(s, e)) = Elems(s) \cup {e}
         /\ Distinct(s) /\ e \notin Elems(s) => Distinct(Append(s, e))
<1> DEFINE t == Append(s, e)
<1>1. /\ t \in Seq(S) /\ Len(s) \in Nat /\ Len(t) = Len(s) + 1
      /\ \A k \in 1 .. Len(s) : t[k] = s[k]
      /\ t[Len(s) + 1] = e
  BY AppendProperties, LenProperties
<1> HIDE DEF t
<1>2. Elems(t) = Elems(s) \cup {e}
  <2>1. \A k \in 1 .. Len(t) : k \in 1 .. Len(s) \/ k = Len(s) + 1
    BY <1>1
  <2>2. Elems(t) \subseteq Elems(s) \cup {e}
    BY <1>1, <2>1 DEF Elems
  <2>3. Elems(s) \cup {e} \subseteq Elems(t)
    BY <1>1 DEF Elems
  <2> QED
    BY <2>2, <2>3
<1>3. ASSUME Distinct(s), e \notin Elems(s)
      PROVE  Distinct(t)
  <2> SUFFICES ASSUME NEW k \in 1 .. Len(t), NEW l \in 1 .. Len(t), t[k] = t[l]
               PROVE  k = l
    BY DEF Distinct
  <2>1. \A j \in 1 .. Len(s) : t[j] # e
    BY <1>1, <1>3 DEF Elems
  <2> QED
    BY <1>1, <1>3, <2>1 DEF Distinct
<1> QED
  BY <1>1, <1>2, <1>3 DEF t

LEMMA TailElems ==
  ASSUME NEW S, NEW s \in Seq(S), s # <<>>
  PROVE  /\ Tail(s) \in Seq(S)
         /\ Head(s) \in Elems(s) /\ Head(s) \in S
         /\ Elems(s) = Elems(Tail(s)) \cup {Head(s)}
         /\ Distinct(s) => Distinct(Tail(s)) /\ Head(s) \notin Elems(Tail(s))
<1> DEFINE t == Tail(s)
<1>1. /\ t \in Seq(S) /\ Len(s) \in Nat \ {0} /\ Len(t) = Len(s) - 1
      /\ \A k \in 1 .. Len(t) : t[k] = s[k + 1]
      /\ Head(s) = s[1] /\ Head(s) \in S
  BY HeadTailProperties, LenProperties, EmptySeq
<1> HIDE DEF t
<1>2. Head(s) \in Elems(s)
  BY <1>1 DEF Elems
<1>3. Elems(s) = Elems(t) \cup {Head(s)}
  <2>1. \A k \in 1 .. Len(s) : k = 1 \/ (k - 1 \in 1 .. Len(t) /\ s[k] = t[k - 1])
    BY <1>1
  <2>2. ASSUME NEW k \in 1 .. Len(s) PROVE s[k] \in Elems(t) \cup {Head(s)}
    BY <1>1, <2>1 DEF Elems
  <2>3. \A k \in 1 .. Len(t) : k + 1 \in 1 .. Len(s)
    BY <1>1
  <2>4. Elems(t) \subseteq Elems(s)
    BY <1>1, <2>3 DEF Elems
  <2> QED
    BY <1>2, <2>2, <2>4 DEF Elems
<1>4. Distinct(s) => Distinct(t) /\ Head(s) \notin Elems(t)
  BY <1>1 DEF Distinct, Elems
<1> QED
  BY <1>1, <1>2, <1>3, <1>4 DEF t

LEMMA EraseElems ==
  ASSUME NEW S, NEW s \in Seq(S), NEW i \in Elems(s), Distinct(s)
  PROVE  /\ erase(s, i) \in Seq(S)
         /\ Elems(erase(s, i)) = Elems(s) \ {i}
         /\ Distinct(erase(s, i))
<1> DEFINE k == Position(s, i)
           t == erase(s, i)
<1>1. Len(s) \in Nat /\ s \in [1 .. Len(s) -> S]
  BY LenProperties
<1>2. k \in 1 .. Len(s) /\ s[k] = i
  <2>1. \E j \in 1 .. Len(s) : s[j] = i
    BY DEF Elems
  <2> QED
    BY <2>1 DEF Position
<1>3. Len(s) - 1 \in Nat
  BY <1>1, <1>2
<1>4. t = [j \in 1 .. Len(s) - 1 |-> IF j < k THEN s[j] ELSE s[j + 1]]
  BY DEF erase
<1> HIDE DEF k, t
<1>5. t \in [1 .. Len(s) - 1 -> S]
  BY <1>1, <1>2, <1>3, <1>4
<1>6. t \in Seq(S)
  BY <1>3, <1>5, SeqDef
<1>7. Len(t) = Len(s) - 1
  BY <1>3, <1>4, <1>6, LenProperties
<1>8. \A j \in 1 .. Len(t) : t[j] = IF j < k THEN s[j] ELSE s[j + 1]
  BY <1>4, <1>7
<1>9. Elems(t) = Elems(s) \ {i}
  <2>1. \A j \in 1 .. Len(t) : t[j] \in Elems(s) /\ t[j] # i
    BY <1>1, <1>2, <1>7, <1>8 DEF Distinct, Elems
  <2>2. ASSUME NEW j \in 1 .. Len(s), s[j] # i PROVE s[j] \in Elems(t)
    <3>1. CASE j < k
      <4>1. j \in 1 .. Len(t) /\ t[j] = s[j]
        BY <1>1, <1>2, <1>7, <1>8, <3>1
      <4> QED
        BY <4>1 DEF Elems
    <3>2. CASE j > k
      <4>1. j - 1 \in 1 .. Len(t) /\ t[j - 1] = s[j]
        BY <1>1, <1>2, <1>7, <1>8, <3>2
      <4> QED
        BY <4>1 DEF Elems
    <3> QED
      BY <1>1, <1>2, <2>2, <3>1, <3>2
  <2>3. Elems(t) \subseteq Elems(s) \ {i}
    BY <2>1 DEF Elems
  <2>4. Elems(s) \ {i} \subseteq Elems(t)
    BY <2>2 DEF Elems
  <2> QED
    BY <2>3, <2>4
<1>10. Distinct(t)
  BY <1>1, <1>2, <1>7, <1>8 DEF Distinct
<1> QED
  BY <1>6, <1>9, <1>10 DEF t

----------------------------------------------------------------------------
(* The reserver s is consistent: Indexed, and a reservation holds a grant   *)
(* exactly while it waits, a callback for preemption only while it exists.  *)
QueuesDistinct(s) == \A p \in Prio : Distinct(s.queues[p])

QueuesIndexed(s) ==
    \A i \in Item, p \in Prio :
        i \in Elems(s.queues[p]) => i \notin s.in_progress /\ s.res[i].prio = p

PreemptIndexed(s) ==
    s.preempt_by_prio =
        {<<s.res[i].prio, i>> : i \in {j \in s.in_progress : s.res[j].preempt # Null}}

HoldsCallbacks(s) ==
    \A i \in Item : /\ s.res[i].grant # Null <=> i \in Queued(s)
                    /\ s.res[i].preempt # Null => HasReservation(s, i)

Sound(s) == /\ s \in Reserver
            /\ QueuesDistinct(s)
            /\ QueuesIndexed(s)
            /\ PreemptIndexed(s)
            /\ HoldsCallbacks(s)

----------------------------------------------------------------------------
(* The operators keep the reserver consistent; what they change.            *)

LEMMA SoundTypes ==
  ASSUME NEW s, Sound(s)
  PROVE  /\ s.queues \in [Prio -> Seq(Item)]
         /\ s.in_progress \subseteq Item
         /\ s.res \in [Item -> Reservation]
         /\ s.preempt_by_prio \subseteq Prio \X Item
         /\ s.f \in Seq(Context)
         /\ s.max_allowed \in Nat /\ s.min_priority \in Nat
         /\ \A i \in Item : /\ s.res[i].prio \in Prio
                            /\ s.res[i].grant \in Context \cup {Null}
                            /\ s.res[i].preempt \in Context \cup {Null}
BY DEF Sound, Reserver, Reservation

LEMMA ElemsInItem ==
  ASSUME NEW q \in Seq(Item)
  PROVE  Elems(q) \subseteq Item
BY ElementOfSeq DEF Elems

(* preempt_one takes the slot of the first of preempt_by_prio and hands its *)
(* callback to the Finisher.                                                *)
LEMMA PreemptOne ==
  ASSUME NEW s, Sound(s), s.preempt_by_prio # {}
  PROVE  LET t == preempt_one(s) IN
         /\ Sound(t)
         /\ t.queues = s.queues
         /\ t.max_allowed = s.max_allowed /\ t.min_priority = s.min_priority
         /\ \E v \in s.in_progress :
               /\ s.res[v].preempt # Null
               /\ t.in_progress = s.in_progress \ {v}
               /\ t.res = [s.res EXCEPT ![v] = Nil]
               /\ t.f = Append(s.f, s.res[v].preempt)
<1> DEFINE b == Begin(s.preempt_by_prio)
           v == b[2]
           t == preempt_one(s)
<1>1. b \in s.preempt_by_prio
  BY BeginLeast, SoundTypes
<1>2. v \in s.in_progress /\ v \in Item /\ s.res[v].preempt # Null /\ b = <<s.res[v].prio, v>>
  <2>1. PICK i \in s.in_progress : s.res[i].preempt # Null /\ b = <<s.res[i].prio, i>>
    BY <1>1 DEF Sound, PreemptIndexed
  <2>2. v = i
    BY <2>1
  <2> QED
    BY <2>1, <2>2, SoundTypes
<1>3. /\ t.queues = s.queues
      /\ t.max_allowed = s.max_allowed /\ t.min_priority = s.min_priority
      /\ t.in_progress = s.in_progress \ {v}
      /\ t.res = [s.res EXCEPT ![v] = Nil]
      /\ t.preempt_by_prio = s.preempt_by_prio \ {b}
      /\ t.f = Append(s.f, s.res[v].preempt)
      /\ t \in Reserver
  <2>1. s \in Reserver
    BY DEF Sound
  <2>2. Append(s.f, s.res[v].preempt) \in Seq(Context)
    BY <1>2, SoundTypes, AppendProperties
  <2>3. Nil \in Reservation
    BY ReservationsAssumption DEF Nil, Reservation, Prio
  <2> QED
    BY <1>2, <2>1, <2>2, <2>3 DEF preempt_one, Reserver
<1> HIDE DEF b, v, t
<1>4. \A i \in Item : t.res[i] = IF i = v THEN Nil ELSE s.res[i]
  BY <1>2, <1>3, SoundTypes
<1>5. Queued(t) = Queued(s) /\ v \notin Queued(s)
  BY <1>2, <1>3 DEF Queued, Sound, QueuesIndexed
<1>6. QueuesDistinct(t)
  BY <1>3 DEF Sound, QueuesDistinct
<1>7. QueuesIndexed(t)
  BY <1>2, <1>3, <1>4, <1>5 DEF Sound, QueuesIndexed, Queued
<1>8. PreemptIndexed(t)
  BY <1>2, <1>3, <1>4, SoundTypes DEF Sound, PreemptIndexed
<1>9. HoldsCallbacks(t)
  BY <1>2, <1>3, <1>4, <1>5 DEF Sound, HoldsCallbacks, HasReservation, Nil
<1>10. Sound(t)
  BY <1>3, <1>6, <1>7, <1>8, <1>9 DEF Sound
<1> QED
  BY <1>2, <1>3, <1>10 DEF t

LEMMA HighestWaits ==
  ASSUME NEW s, Waiting(s) # {}
  PROVE  /\ Highest(s) \in Prio /\ s.queues[Highest(s)] # <<>>
         /\ \A p \in Waiting(s) : p <= Highest(s)
<1>1. Waiting(s) \in SUBSET Prio
  BY DEF Waiting
<1>2. \E p \in Waiting(s) : \A q \in Waiting(s) : q <= p
  BY <1>1, PrioMax
<1>3. Highest(s) \in Waiting(s) /\ \A q \in Waiting(s) : q <= Highest(s)
  BY <1>2 DEF Highest
<1> QED
  BY <1>3 DEF Waiting

(* grant moves the oldest of the highest queue to the slots and hands its   *)
(* callback to the Finisher.                                                *)
LEMMA Grant ==
  ASSUME NEW s, Sound(s), Waiting(s) # {}
  PROVE  LET t == grant(s) IN
         /\ Sound(t)
         /\ t.max_allowed = s.max_allowed /\ t.min_priority = s.min_priority
         /\ \E i \in Queued(s) :
               /\ Queued(t) = Queued(s) \ {i}
               /\ t.in_progress = s.in_progress \cup {i}
               /\ t.res = [s.res EXCEPT ![i].grant = Null]
               /\ t.f = Append(s.f, s.res[i].grant)
<1> DEFINE p == Highest(s)
           i == Head(s.queues[p])
           t == grant(s)
<1>1. p \in Prio /\ s.queues[p] # <<>> /\ s.queues[p] \in Seq(Item)
  BY HighestWaits, SoundTypes
<1>2. /\ i \in Item /\ i \in Elems(s.queues[p]) /\ Tail(s.queues[p]) \in Seq(Item)
      /\ Elems(s.queues[p]) = Elems(Tail(s.queues[p])) \cup {i}
      /\ Distinct(Tail(s.queues[p])) /\ i \notin Elems(Tail(s.queues[p]))
  BY <1>1, TailElems DEF Sound, QueuesDistinct
<1>3. /\ i \in Queued(s) /\ i \notin s.in_progress /\ s.res[i].prio = p
      /\ s.res[i].grant # Null /\ s.res[i].grant \in Context
  BY <1>1, <1>2, SoundTypes DEF Sound, QueuesIndexed, HoldsCallbacks, Queued
<1>4. /\ t.queues = [s.queues EXCEPT ![p] = Tail(s.queues[p])]
      /\ t.max_allowed = s.max_allowed /\ t.min_priority = s.min_priority
      /\ t.in_progress = s.in_progress \cup {i}
      /\ t.res = [s.res EXCEPT ![i].grant = Null]
      /\ t.preempt_by_prio = IF s.res[i].preempt = Null THEN s.preempt_by_prio
                             ELSE s.preempt_by_prio \cup {<<p, i>>}
      /\ t.f = Append(s.f, s.res[i].grant)
      /\ t \in Reserver
  <2>1. s \in Reserver
    BY DEF Sound
  <2>2. Append(s.f, s.res[i].grant) \in Seq(Context)
    BY <1>3, SoundTypes, AppendProperties
  <2>3. [s.res EXCEPT ![i].grant = Null] \in [Item -> Reservation]
    <3>1. s.res[i] \in Reservation
      BY <1>2, SoundTypes
    <3>2. [s.res[i] EXCEPT !.grant = Null] \in Reservation
      BY <3>1 DEF Reservation
    <3> QED
      BY <1>2, <3>2, SoundTypes
  <2>4. [s.queues EXCEPT ![p] = Tail(s.queues[p])] \in [Prio -> Seq(Item)]
    BY <1>1, <1>2, SoundTypes
  <2>5. s.preempt_by_prio \cup {<<p, i>>} \in SUBSET (Prio \X Item)
        /\ s.in_progress \cup {i} \in SUBSET Item
    BY <1>1, <1>2, SoundTypes
  <2>6. t = [s EXCEPT !.queues = [s.queues EXCEPT ![p] = Tail(s.queues[p])],
                      !.f = Append(s.f, s.res[i].grant),
                      !.in_progress = s.in_progress \cup {i},
                      !.res = [s.res EXCEPT ![i].grant = Null],
                      !.preempt_by_prio = IF s.res[i].preempt = Null THEN s.preempt_by_prio
                                          ELSE s.preempt_by_prio \cup {<<p, i>>}]
    BY <1>3, <2>1 DEF grant, Reserver
  <2> HIDE DEF t, p, i
  <2> QED
    BY <2>1, <2>2, <2>3, <2>4, <2>5, <2>6 DEF Reserver
<1> HIDE DEF p, i, t
<1>5. \A j \in Item : /\ t.res[j].prio = s.res[j].prio /\ t.res[j].preempt = s.res[j].preempt
                      /\ t.res[j].grant = IF j = i THEN Null ELSE s.res[j].grant
  BY <1>2, <1>4, SoundTypes DEF Reservation
<1>6. \A q \in Prio : t.queues[q] = IF q = p THEN Tail(s.queues[p]) ELSE s.queues[q]
  BY <1>1, <1>4, SoundTypes
<1>7. \A q \in Prio, j \in Item :
          j \in Elems(t.queues[q]) <=> j \in Elems(s.queues[q]) /\ j # i
  BY <1>1, <1>2, <1>3, <1>6 DEF Sound, QueuesIndexed
<1>8. Queued(t) = Queued(s) \ {i}
  BY <1>7 DEF Queued
<1>9. QueuesDistinct(t)
  BY <1>2, <1>6 DEF Sound, QueuesDistinct
<1>10. QueuesIndexed(t)
  BY <1>4, <1>5, <1>7 DEF Sound, QueuesIndexed
<1>11. PreemptIndexed(t)
  <2>1. {j \in t.in_progress : t.res[j].preempt # Null} =
           {j \in s.in_progress : s.res[j].preempt # Null}
              \cup (IF s.res[i].preempt = Null THEN {} ELSE {i})
    BY <1>2, <1>4, <1>5, SoundTypes
  <2>2. \A j \in Item : t.res[j].prio = s.res[j].prio
    BY <1>5
  <2> QED
    BY <1>2, <1>3, <1>4, <2>1, <2>2, SoundTypes DEF Sound, PreemptIndexed
<1>12. HoldsCallbacks(t)
  BY <1>4, <1>5, <1>8 DEF Sound, HoldsCallbacks, HasReservation
<1>13. Sound(t)
  BY <1>4, <1>9, <1>10, <1>11, <1>12 DEF Sound
<1> QED
  BY <1>3, <1>4, <1>8, <1>13 DEF t

(* request_reservation puts an item that has no reservation into a queue.   *)
LEMMA RequestReservation ==
  ASSUME NEW s, Sound(s), NEW i \in Item, NEW g \in Context, NEW p \in Prio,
         NEW c \in Context \cup {Null}, ~HasReservation(s, i)
  PROVE  LET t == request_reservation(s, i, g, p, c) IN
         /\ Sound(t)
         /\ Queued(t) = Queued(s) \cup {i}
         /\ t.in_progress = s.in_progress
         /\ t.res = [s.res EXCEPT ![i] = [prio |-> p, grant |-> g, preempt |-> c]]
         /\ t.f = s.f
<1> DEFINE n == [prio |-> p, grant |-> g, preempt |-> c]
           t == request_reservation(s, i, g, p, c)
<1>1. s.queues[p] \in Seq(Item) /\ i \notin Elems(s.queues[p]) /\ i \notin s.in_progress
  BY SoundTypes DEF HasReservation, Queued
<1>2. /\ Append(s.queues[p], i) \in Seq(Item)
      /\ Elems(Append(s.queues[p], i)) = Elems(s.queues[p]) \cup {i}
      /\ Distinct(Append(s.queues[p], i))
  BY <1>1, AppendElems DEF Sound, QueuesDistinct
<1>3. n \in Reservation
  BY DEF Reservation
<1>4. /\ t.queues = [s.queues EXCEPT ![p] = Append(s.queues[p], i)]
      /\ t.in_progress = s.in_progress
      /\ t.res = [s.res EXCEPT ![i] = n]
      /\ t.preempt_by_prio = s.preempt_by_prio
      /\ t.f = s.f
      /\ t \in Reserver
  BY <1>2, <1>3 DEF request_reservation, Sound, Reserver
<1>5. n.prio = p /\ n.grant = g /\ n.preempt = c /\ g # Null
  BY ReservationsAssumption
<1> HIDE DEF n, t
<1>6. \A j \in Item : t.res[j] = IF j = i THEN n ELSE s.res[j]
  BY <1>4, SoundTypes
<1>7. \A q \in Prio : t.queues[q] = IF q = p THEN Append(s.queues[p], i) ELSE s.queues[q]
  BY <1>4, SoundTypes
<1>8. \A q \in Prio, j \in Item :
          j \in Elems(t.queues[q]) <=> j \in Elems(s.queues[q]) \/ (j = i /\ q = p)
  BY <1>2, <1>7
<1>9. Queued(t) = Queued(s) \cup {i}
  BY <1>8 DEF Queued
<1>10. QueuesDistinct(t)
  BY <1>2, <1>7 DEF Sound, QueuesDistinct
<1>11. QueuesIndexed(t)
  <2>1. \A q \in Prio : i \notin Elems(s.queues[q])
    BY DEF HasReservation, Queued
  <2> QED
    BY <1>1, <1>4, <1>5, <1>6, <1>8, <2>1 DEF Sound, QueuesIndexed
<1>12. PreemptIndexed(t)
  <2>1. \A j \in s.in_progress : t.res[j] = s.res[j]
    BY <1>1, <1>6, SoundTypes
  <2> QED
    BY <1>4, <2>1 DEF Sound, PreemptIndexed
<1>13. HoldsCallbacks(t)
  BY <1>4, <1>5, <1>6, <1>9 DEF Sound, HoldsCallbacks, HasReservation
<1> QED
  BY <1>4, <1>9, <1>10, <1>11, <1>12, <1>13 DEF t, n, Sound

(* cancel_reservation removes an item from wherever it is.                  *)
LEMMA CancelReservation ==
  ASSUME NEW s, Sound(s), NEW i \in Item
  PROVE  LET t == cancel_reservation(s, i) IN
         /\ Sound(t)
         /\ Queued(t) = Queued(s) \ {i}
         /\ t.in_progress = s.in_progress \ {i}
         /\ t.res = [s.res EXCEPT ![i] = Nil]
         /\ t.f = s.f
<1> DEFINE t == cancel_reservation(s, i)
           p == s.res[i].prio
<1>1. s \in Reserver /\ p \in Prio /\ Nil \in Reservation
      /\ Nil.grant = Null /\ Nil.preempt = Null
  BY SoundTypes, ReservationsAssumption DEF Sound, Nil, Reservation, Prio
<1>2. CASE i \in Queued(s)
  <2>1. i \in Elems(s.queues[p]) /\ i \notin s.in_progress
    BY <1>2 DEF Sound, QueuesIndexed, Queued
  <2>2. /\ erase(s.queues[p], i) \in Seq(Item)
        /\ Elems(erase(s.queues[p], i)) = Elems(s.queues[p]) \ {i}
        /\ Distinct(erase(s.queues[p], i))
    BY <1>1, <2>1, EraseElems, SoundTypes DEF Sound, QueuesDistinct
  <2>3. t = [s EXCEPT !.queues = [s.queues EXCEPT ![p] = erase(s.queues[p], i)],
                      !.res = [s.res EXCEPT ![i] = Nil]]
    BY <1>1, <1>2 DEF cancel_reservation, Reserver
  <2> HIDE DEF t, p
  <2>4. /\ t.queues = [s.queues EXCEPT ![p] = erase(s.queues[p], i)]
        /\ t.in_progress = s.in_progress
        /\ t.res = [s.res EXCEPT ![i] = Nil]
        /\ t.preempt_by_prio = s.preempt_by_prio
        /\ t.f = s.f
        /\ t \in Reserver
    BY <1>1, <2>2, <2>3 DEF Reserver
  <2>5. \A j \in Item : t.res[j] = IF j = i THEN Nil ELSE s.res[j]
    BY <2>4, SoundTypes
  <2>6. \A q \in Prio :
            t.queues[q] = IF q = p THEN erase(s.queues[p], i) ELSE s.queues[q]
    BY <1>1, <2>4, SoundTypes
  <2>7. \A q \in Prio : q # p => i \notin Elems(s.queues[q])
    BY DEF Sound, QueuesIndexed, p
  <2>8. \A q \in Prio, j \in Item :
            j \in Elems(t.queues[q]) <=> j \in Elems(s.queues[q]) /\ j # i
    BY <2>2, <2>6, <2>7
  <2>9. Queued(t) = Queued(s) \ {i}
    BY <2>8 DEF Queued
  <2>10. QueuesDistinct(t)
    BY <2>2, <2>6 DEF Sound, QueuesDistinct
  <2>11. QueuesIndexed(t)
    BY <2>4, <2>5, <2>8 DEF Sound, QueuesIndexed
  <2>12. PreemptIndexed(t)
    <3>1. \A j \in s.in_progress : t.res[j] = s.res[j]
      BY <2>1, <2>5, SoundTypes
    <3> QED
      BY <2>4, <3>1 DEF Sound, PreemptIndexed
  <2>13. HoldsCallbacks(t)
    BY <1>1, <2>4, <2>5, <2>9 DEF Sound, HoldsCallbacks, HasReservation
  <2> QED
    BY <2>1, <2>4, <2>9, <2>10, <2>11, <2>12, <2>13 DEF t, Sound
<1>3. CASE i \notin Queued(s)
  <2>1. t = [s EXCEPT !.in_progress = s.in_progress \ {i},
                      !.preempt_by_prio = s.preempt_by_prio \ {<<p, i>>},
                      !.res = [s.res EXCEPT ![i] = Nil]]
    BY <1>1, <1>3 DEF cancel_reservation, Reserver
  <2> HIDE DEF t, p
  <2>2. /\ t.queues = s.queues
        /\ t.in_progress = s.in_progress \ {i}
        /\ t.res = [s.res EXCEPT ![i] = Nil]
        /\ t.preempt_by_prio = s.preempt_by_prio \ {<<p, i>>}
        /\ t.f = s.f
        /\ t \in Reserver
    BY <1>1, <2>1 DEF Reserver
  <2>3. \A j \in Item : t.res[j] = IF j = i THEN Nil ELSE s.res[j]
    BY <2>2, SoundTypes
  <2>4. Queued(t) = Queued(s) /\ \A q \in Prio : i \notin Elems(s.queues[q])
    BY <1>3, <2>2 DEF Queued
  <2>5. QueuesDistinct(t)
    BY <2>2 DEF Sound, QueuesDistinct
  <2>6. QueuesIndexed(t)
    BY <2>2, <2>3, <2>4 DEF Sound, QueuesIndexed
  <2>7. PreemptIndexed(t)
    BY <2>2, <2>3, SoundTypes DEF Sound, PreemptIndexed, p
  <2>8. HoldsCallbacks(t)
    BY <1>1, <1>3, <2>2, <2>3, <2>4 DEF Sound, HoldsCallbacks, HasReservation
  <2> QED
    BY <1>3, <2>2, <2>4, <2>5, <2>6, <2>7, <2>8 DEF t, Sound
<1> QED
  BY <1>2, <1>3

(* update_priority changes a priority and nothing else.                     *)
LEMMA UpdatePriority ==
  ASSUME NEW s, Sound(s), NEW i \in Item, NEW p \in Prio, ~SamePriority(s, i, p)
  PROVE  LET t == update_priority(s, i, p) IN
         /\ Sound(t)
         /\ Queued(t) = Queued(s)
         /\ t.in_progress = s.in_progress
         /\ \A j \in Item : /\ t.res[j].grant = s.res[j].grant
                            /\ t.res[j].preempt = s.res[j].preempt
         /\ t.f = s.f
<1> DEFINE t == update_priority(s, i, p)
           o == s.res[i].prio
           n == [s.res[i] EXCEPT !.prio = p]
<1>1. s \in Reserver /\ o \in Prio /\ n \in Reservation
      /\ n.prio = p /\ n.grant = s.res[i].grant /\ n.preempt = s.res[i].preempt
  BY SoundTypes DEF Sound, Reservation
<1>2. CASE i \in Queued(s)
  <2>1. i \in Elems(s.queues[o]) /\ i \notin s.in_progress /\ o # p
    BY <1>2 DEF Sound, QueuesIndexed, Queued, SamePriority, HasReservation
  <2>2. \A q \in Prio : q # o => i \notin Elems(s.queues[q])
    BY DEF Sound, QueuesIndexed
  <2>3. /\ erase(s.queues[o], i) \in Seq(Item)
        /\ Elems(erase(s.queues[o], i)) = Elems(s.queues[o]) \ {i}
        /\ Distinct(erase(s.queues[o], i))
    BY <1>1, <2>1, EraseElems, SoundTypes DEF Sound, QueuesDistinct
  <2>4. /\ Append(s.queues[p], i) \in Seq(Item)
        /\ Elems(Append(s.queues[p], i)) = Elems(s.queues[p]) \cup {i}
        /\ Distinct(Append(s.queues[p], i))
    BY <2>1, <2>2, AppendElems, SoundTypes DEF Sound, QueuesDistinct
  <2> DEFINE qs == [q \in Prio |-> IF q = p THEN Append(s.queues[p], i)
                                   ELSE IF q = o THEN erase(s.queues[o], i)
                                   ELSE s.queues[q]]
  <2>5. qs \in [Prio -> Seq(Item)]
    BY <2>3, <2>4, SoundTypes
  <2>6. t = [s EXCEPT !.queues = qs, !.res = [s.res EXCEPT ![i] = n]]
    <3>1. [s.queues EXCEPT ![o] = erase(s.queues[o], i), ![p] = Append(s.queues[p], i)] = qs
      BY <1>1, <2>1, SoundTypes
    <3>2. [s.res EXCEPT ![i].prio = p] = [s.res EXCEPT ![i] = n]
      BY SoundTypes
    <3>3. t = [s EXCEPT !.queues = [s.queues EXCEPT ![o] = erase(s.queues[o], i),
                                                    ![p] = Append(s.queues[p], i)],
                        !.res = [s.res EXCEPT ![i].prio = p]]
      <4>1. t = [s EXCEPT !.queues = [s.queues EXCEPT ![o] = erase(s.queues[o], i),
                                                      ![p] = Append(s.queues[p], i)],
                          !.res[i].prio = p]
        BY <1>2 DEF update_priority
      <4> HIDE DEF t, o
      <4> QED
        BY <1>1, <4>1 DEF Reserver
    <3> QED
      BY <3>1, <3>2, <3>3
  <2> HIDE DEF t, o, n, qs
  <2>7. /\ t.queues = qs
        /\ t.in_progress = s.in_progress
        /\ t.res = [s.res EXCEPT ![i] = n]
        /\ t.preempt_by_prio = s.preempt_by_prio
        /\ t.f = s.f
        /\ t \in Reserver
    BY <1>1, <2>5, <2>6 DEF Reserver
  <2>8. \A j \in Item : t.res[j] = IF j = i THEN n ELSE s.res[j]
    BY <2>7, SoundTypes
  <2>9. \A q \in Prio, j \in Item :
            j \in Elems(t.queues[q]) <=> IF j = i THEN q = p ELSE j \in Elems(s.queues[q])
    BY <2>1, <2>2, <2>3, <2>4, <2>7 DEF qs
  <2>10. Queued(t) = Queued(s)
    BY <1>2, <2>9 DEF Queued
  <2>11. QueuesDistinct(t)
    BY <2>3, <2>4, <2>7 DEF Sound, QueuesDistinct, qs
  <2>12. QueuesIndexed(t)
    BY <1>1, <2>1, <2>7, <2>8, <2>9 DEF Sound, QueuesIndexed
  <2>13. PreemptIndexed(t)
    <3>1. \A j \in s.in_progress : t.res[j] = s.res[j]
      BY <2>1, <2>8, SoundTypes
    <3> QED
      BY <2>7, <3>1 DEF Sound, PreemptIndexed
  <2>14. HoldsCallbacks(t)
    BY <1>1, <2>7, <2>8, <2>10 DEF Sound, HoldsCallbacks, HasReservation
  <2> QED
    BY <1>1, <2>7, <2>8, <2>10, <2>11, <2>12, <2>13, <2>14 DEF t, Sound
<1>3. CASE i \notin Queued(s) /\ i \in s.in_progress
  <2> DEFINE ps == IF s.res[i].preempt = Null THEN s.preempt_by_prio
                   ELSE (s.preempt_by_prio \ {<<o, i>>}) \cup {<<p, i>>}
  <2>1. ps \in SUBSET (Prio \X Item)
    BY SoundTypes
  <2>2. t = [s EXCEPT !.preempt_by_prio = ps, !.res = [s.res EXCEPT ![i] = n]]
    <3>1. [s.res EXCEPT ![i].prio = p] = [s.res EXCEPT ![i] = n]
      BY SoundTypes
    <3>2. t = [s EXCEPT !.preempt_by_prio = ps, !.res = [s.res EXCEPT ![i].prio = p]]
      BY <1>1, <1>3 DEF update_priority, Reserver
    <3> QED
      BY <3>1, <3>2
  <2> HIDE DEF t, o, n, ps
  <2>3. /\ t.queues = s.queues
        /\ t.in_progress = s.in_progress
        /\ t.res = [s.res EXCEPT ![i] = n]
        /\ t.preempt_by_prio = ps
        /\ t.f = s.f
        /\ t \in Reserver
    BY <1>1, <2>1, <2>2 DEF Reserver
  <2>4. \A j \in Item : t.res[j] = IF j = i THEN n ELSE s.res[j]
    BY <2>3, SoundTypes
  <2>5. Queued(t) = Queued(s) /\ \A q \in Prio : i \notin Elems(s.queues[q])
    BY <1>3, <2>3 DEF Queued
  <2>6. QueuesDistinct(t)
    BY <2>3 DEF Sound, QueuesDistinct
  <2>7. QueuesIndexed(t)
    BY <2>3, <2>4, <2>5 DEF Sound, QueuesIndexed
  <2>8. PreemptIndexed(t)
    BY <1>1, <1>3, <2>3, <2>4, SoundTypes DEF Sound, PreemptIndexed, o, ps
  <2>9. HoldsCallbacks(t)
    BY <1>1, <2>3, <2>4, <2>5 DEF Sound, HoldsCallbacks, HasReservation
  <2> QED
    BY <1>1, <2>3, <2>4, <2>5, <2>6, <2>7, <2>8, <2>9 DEF t, Sound
<1>4. CASE i \notin Queued(s) /\ i \notin s.in_progress
  <2>1. t = s
    BY <1>4 DEF update_priority
  <2> QED
    BY <2>1
<1> QED
  BY <1>2, <1>3, <1>4
=============================================================================
