------------------------ MODULE AsyncReserver_proofs ------------------------
(* Proofs about the reserver, for any number of items, priorities, requests *)
(* and any limits.                                                          *)
EXTENDS AsyncReserver, Reservations_proofs

----------------------------------------------------------------------------
(* The callbacks that reservations hold.                                    *)
Held(s) == (UNION {{s.res[i].grant, s.res[i].preempt} : i \in Item}) \ {Null}

(* They carry the number of the item's last request, and only who has asked *)
(* has a reservation.                                                       *)
Numbered(s) ==
    \A i \in Item : /\ s.res[i].grant \in {Null, Ctx("grant", i)}
                    /\ s.res[i].preempt \in {Null, Ctx("preempt", i)}
                    /\ HasReservation(s, i) => i \in asked

(* OneOwner.                                                                *)
Owned(s) ==
    /\ alive = Held(s) \cup Elems(s.f)
    /\ Held(s) \cap Elems(s.f) = {}
    /\ Distinct(s.f)
    /\ done \cap alive = {}

(* CallersAreTold, and who has not been preempted is not told so.           *)
Sent(s, k, i) == Ctx(k, i) \in done \cup Elems(s.f)

Told(s) ==
    \A i \in asked :
        \/ i \in Queued(s) /\ ~Sent(s, "grant", i) /\ ~Sent(s, "preempt", i)
        \/ i \in s.in_progress /\ Sent(s, "grant", i) /\ ~Sent(s, "preempt", i)
        \/ Sent(s, "grant", i) /\ Sent(s, "preempt", i) /\ ~HasReservation(s, i)

Good(s) == Sound(s) /\ Numbered(s) /\ Owned(s) /\ Told(s)

(* The number of a request is not used twice.                               *)
Counted ==
    /\ \A i \in asked : last[i] > 0
    /\ \A i, j \in Item : last[i] = last[j] /\ last[i] > 0 => i = j
    /\ \A c \in alive \cup done : c[2] <= made

Inv == TypeOK /\ Good(r) /\ Counted

(* After the first loop of do_queues there is nothing left to shed.         *)
ShedDone ==
    pc = "serve" => (Cardinality(r.in_progress) > r.max_allowed => r.preempt_by_prio = {})

----------------------------------------------------------------------------
(* The callbacks stay with their owners.                                    *)

LEMMA HeldIs ==
  ASSUME NEW s, NEW c
  PROVE  c \in Held(s) <=> /\ c # Null
                           /\ \E i \in Item : c = s.res[i].grant \/ c = s.res[i].preempt
<1> DEFINE T == {{s.res[i].grant, s.res[i].preempt} : i \in Item}
<1>1. c \in UNION T <=> \E x \in T : c \in x
  OBVIOUS
<1>2. (\E x \in T : c \in x) <=> \E i \in Item : c = s.res[i].grant \/ c = s.res[i].preempt
  OBVIOUS
<1>3. Held(s) = (UNION T) \ {Null}
  BY DEF Held
<1> HIDE DEF T
<1> QED
  BY <1>1, <1>2, <1>3

(* preempt_one hands a callback from its reservation to the Finisher.       *)
LEMMA PreemptGood ==
  ASSUME TypeOK, Counted, NEW s, Good(s), s.preempt_by_prio # {}
  PROVE  Good(preempt_one(s))
<1> DEFINE t == preempt_one(s)
<1>1. Sound(s) /\ Sound(t) /\ t.queues = s.queues
  BY PreemptOne DEF Good
<1>2. PICK v \in s.in_progress :
         /\ s.res[v].preempt # Null
         /\ t.in_progress = s.in_progress \ {v}
         /\ t.res = [s.res EXCEPT ![v] = Nil]
         /\ t.f = Append(s.f, s.res[v].preempt)
  BY PreemptOne DEF Good
<1> HIDE DEF t
<1> DEFINE c == s.res[v].preempt
<1>3. /\ v \in Item /\ v \in asked /\ v \notin Queued(s) /\ last[v] > 0
      /\ s.res[v].grant = Null /\ c = Ctx("preempt", v) /\ c \in Context
  <2>1. v \in Item
    BY <1>1, SoundTypes
  <2>2. v \notin Queued(s)
    BY <1>1 DEF Sound, QueuesIndexed, Queued
  <2>3. v \in asked
    BY <2>1 DEF Good, Numbered, HasReservation
  <2> QED
    BY <1>1, <1>2, <2>1, <2>2, <2>3, SoundTypes
       DEF Good, Numbered, Counted, Sound, HoldsCallbacks
<1>4. \A i \in Item : t.res[i] = IF i = v THEN Nil ELSE s.res[i]
  BY <1>1, <1>2, <1>3, SoundTypes
<1>5. Nil.grant = Null /\ Nil.preempt = Null
  BY DEF Nil
<1>6. Queued(t) = Queued(s)
  BY <1>1 DEF Queued
<1>7. Numbered(t)
  BY <1>2, <1>4, <1>5, <1>6 DEF Good, Numbered, HasReservation
<1>8. \A i \in Item : i # v => c # s.res[i].grant /\ c # s.res[i].preempt
  BY <1>2, <1>3 DEF Good, Numbered, Counted, Ctx
<1>9. ASSUME NEW d PROVE d \in Held(t) <=> d \in Held(s) /\ d # c
  <2>1. /\ d \in Held(t) <=> /\ d # Null
                           /\ \E i \in Item : d = t.res[i].grant \/ d = t.res[i].preempt
        /\ d \in Held(s) <=> /\ d # Null
                           /\ \E i \in Item : d = s.res[i].grant \/ d = s.res[i].preempt
    BY HeldIs
  <2> QED
    BY <1>2, <1>3, <1>4, <1>5, <1>8, <2>1
<1>10. c \in Held(s)
  BY <1>2, <1>3, HeldIs
<1>11. /\ Elems(t.f) = Elems(s.f) \cup {c}
       /\ Distinct(s.f) /\ c \notin Elems(s.f) => Distinct(t.f)
  BY <1>1, <1>2, <1>3, AppendElems, SoundTypes
<1>12. Owned(t)
  BY <1>9, <1>10, <1>11 DEF Good, Owned
<1>13. Told(t)
  <2> SUFFICES ASSUME NEW i \in asked
               PROVE  \/ i \in Queued(t) /\ ~Sent(t, "grant", i) /\ ~Sent(t, "preempt", i)
                      \/ i \in t.in_progress /\ Sent(t, "grant", i) /\ ~Sent(t, "preempt", i)
                      \/ Sent(t, "grant", i) /\ Sent(t, "preempt", i) /\ ~HasReservation(t, i)
    BY DEF Told
  <2>1. i \in Item /\ last[i] > 0
    BY DEF TypeOK, Counted
  <2>2. CASE i = v
    BY <1>2, <1>3, <1>6, <1>11, <2>2 DEF Good, Told, Sent, HasReservation
  <2>3. CASE i # v
    <3>1. Ctx("grant", i) # c /\ Ctx("preempt", i) # c
      BY <1>3, <2>1, <2>3 DEF Ctx, Counted
    <3> QED
      BY <1>2, <1>6, <1>11, <2>3, <3>1 DEF Good, Told, Sent, HasReservation
  <2> QED
    BY <2>2, <2>3
<1> QED
  BY <1>1, <1>7, <1>12, <1>13 DEF Good, t

(* grant hands a callback from its reservation to the Finisher.             *)
LEMMA GrantGood ==
  ASSUME TypeOK, Counted, NEW s, Good(s), Waiting(s) # {}
  PROVE  Good(grant(s))
<1> DEFINE t == grant(s)
<1>1. Sound(s) /\ Sound(t)
  BY Grant DEF Good
<1>2. PICK v \in Queued(s) :
         /\ Queued(t) = Queued(s) \ {v}
         /\ t.in_progress = s.in_progress \cup {v}
         /\ t.res = [s.res EXCEPT ![v].grant = Null]
         /\ t.f = Append(s.f, s.res[v].grant)
  BY Grant DEF Good
<1> HIDE DEF t
<1> DEFINE c == s.res[v].grant
<1>3. /\ v \in Item /\ v \in asked /\ v \notin s.in_progress /\ last[v] > 0
      /\ c # Null /\ c = Ctx("grant", v) /\ c \in Context
  <2>1. v \in Item
    BY DEF Queued
  <2>2. v \notin s.in_progress
    BY <1>1 DEF Sound, QueuesIndexed, Queued
  <2>3. v \in asked
    BY <2>1 DEF Good, Numbered, HasReservation
  <2> QED
    BY <1>1, <1>2, <2>1, <2>2, <2>3, SoundTypes
       DEF Good, Numbered, Counted, Sound, HoldsCallbacks
<1>4. \A i \in Item : /\ t.res[i].preempt = s.res[i].preempt
                      /\ t.res[i].grant = IF i = v THEN Null ELSE s.res[i].grant
  BY <1>1, <1>2, <1>3, SoundTypes DEF Reservation
<1>5. \A i \in Item : HasReservation(t, i) <=> HasReservation(s, i)
  BY <1>2 DEF HasReservation
<1>6. Numbered(t)
  BY <1>4, <1>5 DEF Good, Numbered
<1>7. \A i \in Item : (i # v => c # s.res[i].grant) /\ c # s.res[i].preempt
  BY <1>2, <1>3 DEF Good, Numbered, Counted, Ctx
<1>8. ASSUME NEW d PROVE d \in Held(t) <=> d \in Held(s) /\ d # c
  <2>1. /\ d \in Held(t) <=> /\ d # Null
                           /\ \E i \in Item : d = t.res[i].grant \/ d = t.res[i].preempt
        /\ d \in Held(s) <=> /\ d # Null
                           /\ \E i \in Item : d = s.res[i].grant \/ d = s.res[i].preempt
    BY HeldIs
  <2> QED
    BY <1>2, <1>3, <1>4, <1>7, <2>1
<1>9. c \in Held(s)
  BY <1>2, <1>3, HeldIs
<1>10. /\ Elems(t.f) = Elems(s.f) \cup {c}
       /\ Distinct(s.f) /\ c \notin Elems(s.f) => Distinct(t.f)
  BY <1>1, <1>2, <1>3, AppendElems, SoundTypes
<1>11. Owned(t)
  BY <1>8, <1>9, <1>10 DEF Good, Owned
<1>12. Told(t)
  <2> SUFFICES ASSUME NEW i \in asked
               PROVE  \/ i \in Queued(t) /\ ~Sent(t, "grant", i) /\ ~Sent(t, "preempt", i)
                      \/ i \in t.in_progress /\ Sent(t, "grant", i) /\ ~Sent(t, "preempt", i)
                      \/ Sent(t, "grant", i) /\ Sent(t, "preempt", i) /\ ~HasReservation(t, i)
    BY DEF Told
  <2>1. i \in Item /\ last[i] > 0
    BY DEF TypeOK, Counted
  <2>2. CASE i = v
    <3>1. Ctx("preempt", i) # c
      BY <1>3 DEF Ctx
    <3> QED
      BY <1>2, <1>3, <1>10, <2>2, <3>1 DEF Good, Told, Sent, HasReservation
  <2>3. CASE i # v
    <3>1. Ctx("grant", i) # c /\ Ctx("preempt", i) # c
      BY <1>3, <2>1, <2>3 DEF Ctx, Counted
    <3> QED
      BY <1>2, <1>10, <2>1, <2>3, <3>1 DEF Good, Told, Sent, HasReservation
  <2> QED
    BY <2>2, <2>3
<1> QED
  BY <1>1, <1>6, <1>11, <1>12 DEF Good, t

----------------------------------------------------------------------------
(* The actions.                                                             *)

LEMMA ContextIs ==
  ASSUME NEW k \in {"grant", "preempt"}, NEW n \in 1 .. MaxRequests
  PROVE  <<k, n>> \in Context
BY AsyncReserverAssumption

LEMMA ContextParts ==
  ASSUME NEW c \in Context
  PROVE  c[1] \in {"grant", "preempt"} /\ c[2] \in 1 .. MaxRequests /\ c = <<c[1], c[2]>>
BY AsyncReserverAssumption

LEMMA InitInv == Init => Inv
<1> SUFFICES ASSUME Init PROVE Inv
  OBVIOUS
<1>1. PICK max \in Limits : r = NewReserver(max, 0)
  BY DEF Init
<1>2. Nil \in Reservation /\ Nil.grant = Null /\ Nil.preempt = Null /\ max \in Nat
  BY ReservationsAssumption, AsyncReserverAssumption DEF Nil, Reservation, Prio
<1>3. <<>> \in Seq(Item) /\ <<>> \in Seq(Context) /\ Len(<<>>) = 0
  OBVIOUS
<1>4. /\ r.queues = [p \in Prio |-> <<>>] /\ r.in_progress = {}
      /\ r.res = [i \in Item |-> Nil] /\ r.preempt_by_prio = {} /\ r.f = <<>>
      /\ r \in Reserver
  BY <1>1, <1>2, <1>3 DEF NewReserver, Reserver
<1>5. Elems(<<>>) = {} /\ Distinct(<<>>)
  BY <1>3 DEF Elems, Distinct
<1>6. /\ \A i \in Item : r.res[i].grant = Null /\ r.res[i].preempt = Null
      /\ \A p \in Prio : Elems(r.queues[p]) = {} /\ Distinct(r.queues[p])
  BY <1>2, <1>4, <1>5
<1>7. Queued(r) = {}
  BY <1>6 DEF Queued
<1>8. Sound(r)
  BY <1>4, <1>6, <1>7
     DEF Sound, QueuesDistinct, QueuesIndexed, PreemptIndexed, HoldsCallbacks
<1>9. TypeOK
  BY <1>4, AsyncReserverAssumption DEF Init, TypeOK
<1>10. Numbered(r)
  BY <1>4, <1>6, <1>7 DEF Numbered, HasReservation
<1>11. Held(r) = {}
  BY <1>6, HeldIs
<1>12. Owned(r)
  BY <1>4, <1>5, <1>11 DEF Owned, Init
<1>13. Told(r) /\ Counted
  BY DEF Init, Told, Counted
<1> QED
  BY <1>8, <1>9, <1>10, <1>12, <1>13 DEF Inv, Good

(* A new request: its number is fresh, so its callbacks are nobody's.       *)
LEMMA RequestInv ==
  ASSUME Inv, NEW i \in Item, NEW prio \in Prio, NEW b \in BOOLEAN, Request(i, prio, b)
  PROVE  Inv'
<1> DEFINE g == <<"grant", made + 1>>
           p == IF b THEN <<"preempt", made + 1>> ELSE Null
<1>1. /\ i \notin asked /\ made \in Nat /\ made < MaxRequests
      /\ r' = request_reservation(r, i, g, prio, p) /\ pc' = "shed"
      /\ asked' = asked \cup {i} /\ made' = made + 1
      /\ last' = [last EXCEPT ![i] = made + 1]
      /\ alive' = alive \cup ({g, p} \ {Null})
      /\ done' = done
  BY AsyncReserverAssumption DEF Request, Call, Inv, TypeOK
<1>2. Sound(r) /\ TypeOK /\ ~HasReservation(r, i)
  BY <1>1 DEF Inv, Good, Numbered
<1>3. g \in Context /\ p \in Context \cup {Null} /\ g # Null /\ g # p
  <2>1. made + 1 \in 1 .. MaxRequests
    BY <1>1, AsyncReserverAssumption
  <2>2. g \in Context /\ <<"preempt", made + 1>> \in Context
    BY <2>1, ContextIs
  <2> QED
    BY <2>2, ReservationsAssumption
<1>4. \A c \in alive \cup done : c # g /\ c # p
  <2> SUFFICES ASSUME NEW c \in alive \cup done PROVE c # g /\ c # p
    OBVIOUS
  <2>1. c \in Context /\ c[2] <= made
    BY DEF Inv, TypeOK, Counted
  <2>2. c # Null /\ c[2] # made + 1
    BY <1>1, <2>1, ContextParts, ReservationsAssumption
  <2> QED
    BY <2>2
<1> HIDE DEF p
<1>5. /\ Sound(r')
      /\ Queued(r') = Queued(r) \cup {i}
      /\ r'.in_progress = r.in_progress
      /\ r'.res = [r.res EXCEPT ![i] = [prio |-> prio, grant |-> g, preempt |-> p]]
      /\ r'.f = r.f
  BY <1>1, <1>2, <1>3, RequestReservation
<1>6. \A j \in Item : IF j = i THEN r'.res[j].grant = g /\ r'.res[j].preempt = p
                               ELSE r'.res[j] = r.res[j]
  BY <1>2, <1>5, SoundTypes
<1>7. \A j \in Item : last'[j] = IF j = i THEN made + 1 ELSE last[j]
  BY <1>1, <1>2 DEF TypeOK
<1>8. TypeOK'
  <2>1. r' \in Reserver /\ pc' \in {"unlocked", "shed", "serve"} /\ asked' \subseteq Item
    BY <1>1, <1>2, <1>5 DEF Sound, TypeOK
  <2>2. made' \in 0 .. MaxRequests /\ last' \in [Item -> 0 .. made']
    BY <1>1, <1>2, AsyncReserverAssumption DEF TypeOK
  <2>3. alive' \subseteq Context /\ done' \subseteq Context
    BY <1>1, <1>2, <1>3 DEF TypeOK
  <2> QED
    BY <2>1, <2>2, <2>3 DEF TypeOK
<1>9. Numbered(r)'
  <2>1. \A j \in Item : HasReservation(r', j) => j \in asked'
    BY <1>1, <1>5 DEF HasReservation, Inv, Good, Numbered
  <2>2. \A j \in Item : /\ r'.res[j].grant \in {Null, <<"grant", last'[j]>>}
                        /\ r'.res[j].preempt \in {Null, <<"preempt", last'[j]>>}
    BY <1>6, <1>7 DEF Inv, Good, Numbered, Ctx, p
  <2> QED
    BY <2>1, <2>2 DEF Numbered, Ctx
<1>10. Held(r') = Held(r) \cup ({g, p} \ {Null})
  <2>1. ASSUME NEW d PROVE d \in Held(r') <=> d \in Held(r) \/ d \in {g, p} \ {Null}
    <3>1. /\ d \in Held(r) <=> /\ d # Null
                               /\ \E j \in Item : d = r.res[j].grant \/ d = r.res[j].preempt
          /\ d \in Held(r') <=> /\ d # Null
                                /\ \E j \in Item : d = r'.res[j].grant \/ d = r'.res[j].preempt
      BY HeldIs
    <3>2. r.res[i].grant = Null /\ r.res[i].preempt = Null
      BY <1>2 DEF Sound, HoldsCallbacks, HasReservation
    <3> QED
      BY <1>6, <3>1, <3>2
  <2> QED
    BY <2>1
<1>11. Owned(r)'
  BY <1>1, <1>3, <1>4, <1>5, <1>10 DEF Inv, Good, Owned
<1>12. Told(r)'
  <2> SUFFICES ASSUME NEW j \in asked'
               PROVE  LET sent(k) == <<k, last'[j]>> \in done' \cup Elems(r'.f) IN
                      \/ j \in Queued(r') /\ ~sent("grant") /\ ~sent("preempt")
                      \/ j \in r'.in_progress /\ sent("grant") /\ ~sent("preempt")
                      \/ sent("grant") /\ sent("preempt") /\ ~HasReservation(r', j)
    BY DEF Told, Sent, Ctx
  <2>1. CASE j = i
    <3>1. \A c \in done \cup Elems(r.f) : c \in Context /\ c[2] <= made
      BY DEF Inv, TypeOK, Counted, Good, Owned
    <3>2. \A k : <<k, made + 1>> \notin done \cup Elems(r.f)
      BY <1>1, <3>1
    <3> QED
      BY <1>1, <1>5, <1>7, <2>1, <3>2
  <2>2. CASE j # i
    BY <1>1, <1>2, <1>5, <1>7, <2>2 DEF Inv, Good, Told, Sent, Ctx, HasReservation, TypeOK
  <2> QED
    BY <2>1, <2>2
<1>13. Counted'
  <2>1. \A j \in asked' : last'[j] > 0
    BY <1>1, <1>2, <1>7 DEF Inv, Counted, TypeOK
  <2>2. \A j \in Item : last[j] \in Nat /\ last[j] <= made
    BY <1>1, <1>2 DEF TypeOK
  <2>3. \A j, k \in Item : last'[j] = last'[k] /\ last'[j] > 0 => j = k
    BY <1>1, <1>7, <2>2 DEF Inv, Counted
  <2>4. \A c \in alive' \cup done' : c[2] <= made'
    <3>1. \A c \in alive \cup done : c[2] <= made + 1
      <4>1. \A c \in alive \cup done : c[2] \in Nat /\ c[2] <= made
        BY <1>2, ContextParts, AsyncReserverAssumption DEF Inv, Counted, TypeOK
      <4> QED
        BY <1>1, <4>1
    <3>2. g[2] <= made + 1 /\ (p # Null => p[2] <= made + 1)
      BY <1>1 DEF p
    <3> QED
      BY <1>1, <3>1, <3>2
  <2> QED
    BY <2>1, <2>3, <2>4 DEF Counted
<1> QED
  BY <1>5, <1>8, <1>9, <1>11, <1>12, <1>13 DEF Inv, Good

(* A cancellation deletes the callbacks the reservation holds.              *)
LEMMA CancelInv ==
  ASSUME Inv, NEW i \in Item, Cancel(i)
  PROVE  Inv'
<1>1. /\ r' = cancel_reservation(r, i) /\ pc' = "shed"
      /\ asked' = asked \ {i}
      /\ alive' = alive \ {r.res[i].grant, r.res[i].preempt}
      /\ made' = made /\ last' = last /\ done' = done
  BY DEF Cancel, Call, Deleted
<1>2. Sound(r) /\ TypeOK
  BY DEF Inv, Good
<1>3. /\ Sound(r')
      /\ Queued(r') = Queued(r) \ {i}
      /\ r'.in_progress = r.in_progress \ {i}
      /\ r'.res = [r.res EXCEPT ![i] = Nil]
      /\ r'.f = r.f
  BY <1>1, <1>2, CancelReservation
<1>4. \A j \in Item : r'.res[j] = IF j = i THEN Nil ELSE r.res[j]
  BY <1>2, <1>3, SoundTypes
<1>5. Nil.grant = Null /\ Nil.preempt = Null
  BY DEF Nil
<1>6. TypeOK'
  BY <1>1, <1>2, <1>3 DEF TypeOK, Sound
<1>7. \A j \in Item : HasReservation(r', j) <=> HasReservation(r, j) /\ j # i
  BY <1>3 DEF HasReservation
<1>8. Numbered(r)'
  BY <1>1, <1>4, <1>5, <1>7 DEF Inv, Good, Numbered, Ctx
<1>9. Held(r') = Held(r) \ {r.res[i].grant, r.res[i].preempt}
  <2>1. ASSUME NEW d
        PROVE  d \in Held(r') <=> d \in Held(r) /\ d # r.res[i].grant /\ d # r.res[i].preempt
    <3>1. /\ d \in Held(r) <=> /\ d # Null
                               /\ \E j \in Item : d = r.res[j].grant \/ d = r.res[j].preempt
          /\ d \in Held(r') <=> /\ d # Null
                                /\ \E j \in Item : d = r'.res[j].grant \/ d = r'.res[j].preempt
      BY HeldIs
    <3>2. \A j \in Item : j # i /\ d # Null /\ (d = r.res[j].grant \/ d = r.res[j].preempt) =>
              d # r.res[i].grant /\ d # r.res[i].preempt
      <4> SUFFICES ASSUME NEW j \in Item, j # i, d # Null,
                          d = r.res[j].grant \/ d = r.res[j].preempt
                   PROVE  d # r.res[i].grant /\ d # r.res[i].preempt
        OBVIOUS
      <4>1. d = Ctx("grant", j) \/ d = Ctx("preempt", j)
        BY DEF Inv, Good, Numbered
      <4>2. HasReservation(r, j)
        BY <1>2 DEF Sound, HoldsCallbacks, HasReservation
      <4>3. last[j] > 0
        BY <4>2 DEF Inv, Good, Numbered, Counted
      <4> QED
        BY <4>1, <4>3 DEF Inv, Good, Numbered, Counted, Ctx
    <3> QED
      BY <1>4, <1>5, <3>1, <3>2
  <2> QED
    BY <2>1
<1>10. r.res[i].grant \notin Elems(r.f) /\ r.res[i].preempt \notin Elems(r.f)
  <2>1. Null \notin Elems(r.f)
    <3>1. Elems(r.f) \subseteq Context
      BY <1>2, SoundTypes, ElementOfSeq DEF Elems
    <3> QED
      BY <3>1, ReservationsAssumption
  <2>2. \A d : d \in {r.res[i].grant, r.res[i].preempt} => d = Null \/ d \in Held(r)
    BY HeldIs
  <2> QED
    BY <2>1, <2>2 DEF Inv, Good, Owned
<1>11. Owned(r)'
  BY <1>1, <1>3, <1>9, <1>10 DEF Inv, Good, Owned
<1>12. Told(r)'
  BY <1>1, <1>2, <1>3, <1>7 DEF Inv, Good, Told, Sent, Ctx, TypeOK
<1>13. Counted'
  BY <1>1 DEF Inv, Counted
<1> QED
  BY <1>3, <1>6, <1>8, <1>11, <1>12, <1>13 DEF Inv, Good

(* Steps that leave every callback where it is.                             *)
LEMMA SameCallbacks ==
  ASSUME TypeOK, NEW s, Good(s), NEW t, Sound(t),
         Queued(t) = Queued(s), t.in_progress = s.in_progress, t.f = s.f,
         \A j \in Item : t.res[j].grant = s.res[j].grant /\ t.res[j].preempt = s.res[j].preempt
  PROVE  Good(t)
<1>1. \A j \in Item : HasReservation(t, j) <=> HasReservation(s, j)
  BY DEF HasReservation
<1>2. Numbered(t)
  BY <1>1 DEF Good, Numbered
<1>3. Held(t) = Held(s)
  <2>1. ASSUME NEW d PROVE d \in Held(t) <=> d \in Held(s)
    <3>1. /\ d \in Held(s) <=> /\ d # Null
                               /\ \E j \in Item : d = s.res[j].grant \/ d = s.res[j].preempt
          /\ d \in Held(t) <=> /\ d # Null
                               /\ \E j \in Item : d = t.res[j].grant \/ d = t.res[j].preempt
      BY HeldIs
    <3> QED
      BY <3>1
  <2> QED
    BY <2>1
<1>4. Owned(t)
  BY <1>3 DEF Good, Owned
<1>5. Told(t)
  BY <1>1 DEF Good, Told, Sent, TypeOK
<1> QED
  BY <1>2, <1>4, <1>5 DEF Good

LEMMA LimitGood ==
  ASSUME Inv, NEW max \in Nat, NEW min \in Nat
  PROVE  Good([r EXCEPT !.max_allowed = max]) /\ Good([r EXCEPT !.min_priority = min])
<1>1. ASSUME NEW t, t = [r EXCEPT !.max_allowed = max] \/ t = [r EXCEPT !.min_priority = min]
      PROVE  Good(t)
  <2>1. r \in Reserver
    BY DEF Inv, TypeOK
  <2>2. /\ t.queues = r.queues /\ t.in_progress = r.in_progress /\ t.res = r.res
        /\ t.preempt_by_prio = r.preempt_by_prio /\ t.f = r.f /\ t \in Reserver
    BY <1>1, <2>1 DEF Reserver
  <2>3. Queued(t) = Queued(r)
    BY <2>2 DEF Queued
  <2>4. Sound(t)
    BY <2>2, <2>3 DEF Inv, Good, Sound, QueuesDistinct, QueuesIndexed, PreemptIndexed,
                      HoldsCallbacks, HasReservation
  <2> QED
    BY <2>2, <2>3, <2>4, SameCallbacks DEF Inv
<1> QED
  BY <1>1

LEMMA UpdateGood ==
  ASSUME Inv, NEW i \in Item, NEW p \in Prio, ~SamePriority(r, i, p)
  PROVE  Good(update_priority(r, i, p))
BY UpdatePriority, SameCallbacks DEF Inv, Good

(* A step that only moves the reserver from one good value to another.      *)
LEMMA MovedInv ==
  ASSUME Inv, NEW s, Good(s), r' = s, pc' \in {"unlocked", "shed", "serve"},
         UNCHANGED <<asked, made, last, alive, done>>
  PROVE  Inv'
<1>1. TypeOK'
  BY DEF Inv, TypeOK, Good, Sound
<1> QED
  BY <1>1 DEF Inv, Good, Numbered, Owned, Told, Sent, Ctx, Counted

LEMMA CompleteInv ==
  ASSUME Inv, Complete
  PROVE  Inv'
<1>1. /\ r.f # <<>> /\ r' = [r EXCEPT !.f = Tail(r.f)]
      /\ alive' = alive \ {Head(r.f)} /\ done' = done \cup {Head(r.f)}
      /\ pc' = pc /\ asked' = asked /\ made' = made /\ last' = last
  BY DEF Complete
<1>2. Sound(r) /\ TypeOK /\ r \in Reserver
  BY DEF Inv, Good, TypeOK
<1>3. /\ Tail(r.f) \in Seq(Context) /\ Head(r.f) \in Elems(r.f) /\ Head(r.f) \in Context
      /\ Elems(r.f) = Elems(Tail(r.f)) \cup {Head(r.f)}
      /\ Distinct(r.f) => Distinct(Tail(r.f)) /\ Head(r.f) \notin Elems(Tail(r.f))
  BY <1>1, <1>2, SoundTypes, TailElems
<1>4. /\ r'.queues = r.queues /\ r'.in_progress = r.in_progress /\ r'.res = r.res
      /\ r'.preempt_by_prio = r.preempt_by_prio /\ r'.f = Tail(r.f) /\ r' \in Reserver
  BY <1>1, <1>2, <1>3 DEF Reserver
<1>5. Queued(r') = Queued(r) /\ Held(r') = Held(r)
  BY <1>4 DEF Queued, Held
<1>6. Sound(r')
  BY <1>2, <1>4, <1>5 DEF Sound, QueuesDistinct, QueuesIndexed, PreemptIndexed,
                          HoldsCallbacks, HasReservation
<1>7. TypeOK'
  BY <1>1, <1>2, <1>3, <1>4 DEF TypeOK
<1>8. Numbered(r)'
  BY <1>1, <1>4, <1>5 DEF Inv, Good, Numbered, HasReservation, Ctx
<1>9. Owned(r)'
  BY <1>1, <1>3, <1>4, <1>5 DEF Inv, Good, Owned
<1>10. done' \cup Elems(r'.f) = done \cup Elems(r.f)
  BY <1>1, <1>3, <1>4
<1>11. Told(r)'
  BY <1>1, <1>4, <1>5, <1>10 DEF Inv, Good, Told, Sent, Ctx, HasReservation
<1>12. Counted'
  BY <1>1, <1>3 DEF Inv, Good, Owned, Counted
<1> QED
  BY <1>6, <1>7, <1>8, <1>9, <1>11, <1>12 DEF Inv, Good

LEMMA ShedInv ==
  ASSUME Inv, Shed
  PROVE  Inv'
<1>1. CASE MustShed(r)
  <2>1. r' = preempt_one(r) /\ pc' = pc /\ UNCHANGED <<asked, made, last, alive, done>>
    BY <1>1 DEF Shed
  <2>2. Good(preempt_one(r))
    BY <1>1, PreemptGood DEF Inv, MustShed
  <2> QED
    BY <2>1, <2>2, MovedInv DEF Inv, TypeOK
<1>2. CASE ~MustShed(r)
  <2>1. r' = r /\ pc' = "serve" /\ UNCHANGED <<asked, made, last, alive, done>>
    BY <1>2 DEF Shed
  <2> QED
    BY <2>1, MovedInv DEF Inv
<1> QED
  BY <1>1, <1>2

(* The reserver after the preemption that may open an iteration of the      *)
(* second loop.                                                             *)
LEMMA PreemptedGood ==
  ASSUME Inv
  PROVE  LET s == IF Outranked(r) THEN preempt_one(r) ELSE r IN
         Good(s) /\ Waiting(s) = Waiting(r)
<1>1. Sound(r)
  BY DEF Inv, Good
<1>2. CASE Outranked(r)
  BY <1>1, <1>2, PreemptGood, PreemptOne DEF Inv, Outranked, Waiting
<1> QED
  BY <1>2 DEF Inv

LEMMA ServeInv ==
  ASSUME Inv, Serve
  PROVE  Inv'
<1> DEFINE s == IF Outranked(r) THEN preempt_one(r) ELSE r
<1>1. Good(s) /\ Waiting(s) = Waiting(r)
  BY PreemptedGood
<1>2. /\ \/ pc' = "unlocked" /\ r' = r
         \/ pc' = "unlocked" /\ r' = s
         \/ MayServe(r) /\ r' = grant(s) /\ pc' = pc
      /\ UNCHANGED <<asked, made, last, alive, done>>
  BY DEF Serve
<1> HIDE DEF s
<1>3. MayServe(r) => Good(grant(s))
  BY <1>1, GrantGood DEF Inv, MayServe
<1> QED
  BY <1>1, <1>2, <1>3, MovedInv DEF Inv, TypeOK

LEMMA NextInv ==
  ASSUME Inv, [Next]_vars
  PROVE  Inv'
<1>1. CASE \E i \in Item, p \in Prio, b \in BOOLEAN : Request(i, p, b)
  BY <1>1, RequestInv
<1>2. ASSUME NEW i \in Item, NEW p \in Prio, Update(i, p)
      PROVE  Inv'
  <2>1. /\ r' = update_priority(r, i, p) /\ pc' = "shed" /\ ~SamePriority(r, i, p)
        /\ UNCHANGED <<asked, made, last, alive, done>>
    BY <1>2 DEF Update, Call
  <2> QED
    BY <2>1, UpdateGood, MovedInv
<1>3. CASE \E i \in Item : Cancel(i)
  BY <1>3, CancelInv
<1>4. ASSUME NEW m \in Limits, set_max(m)
      PROVE  Inv'
  <2>1. /\ r' = [r EXCEPT !.max_allowed = m] /\ pc' = "shed" /\ m \in Nat
        /\ UNCHANGED <<asked, made, last, alive, done>>
    BY <1>4, AsyncReserverAssumption DEF set_max, Call
  <2> QED
    BY <2>1, LimitGood, MovedInv
<1>5. ASSUME NEW p \in Prio, set_min_priority(p)
      PROVE  Inv'
  <2>1. /\ r' = [r EXCEPT !.min_priority = p] /\ pc' = "shed" /\ p \in Nat
        /\ UNCHANGED <<asked, made, last, alive, done>>
    BY <1>5, ReservationsAssumption DEF set_min_priority, Call, Prio
  <2> QED
    BY <2>1, LimitGood, MovedInv
<1>6. CASE UNCHANGED vars
  BY <1>6, MovedInv DEF vars, Inv, TypeOK
<1> QED
  BY <1>1, <1>2, <1>3, <1>4, <1>5, <1>6, ShedInv, ServeInv, CompleteInv DEF Next

(* The invariant holds in every state.                                      *)
THEOREM Invariance == Spec => []Inv
BY InitInv, NextInv, PTL DEF Spec

----------------------------------------------------------------------------
(* What follows from it.                                                    *)

(* The variables keep their types.                                          *)
THEOREM TypeCorrect == Spec => []TypeOK
<1>1. Inv => TypeOK
  BY DEF Inv
<1> QED
  BY <1>1, Invariance, PTL

(* For any number of items, priorities and requests, the queues, the slots  *)
(* and preempt_by_prio of the reserver describe one set of reservations     *)
(* between any two steps of request_reservation, update_priority,           *)
(* cancel_reservation, do_queues and the Finisher.                          *)
THEOREM IndexedAlways == Spec => []Indexed
<1>1. Inv => Indexed
  BY DEF Inv, Good, Sound, Numbered, QueuesDistinct, QueuesIndexed, PreemptIndexed,
         Distinct, Indexed
<1> QED
  BY <1>1, Invariance, PTL

(* Every living callback is owned once, by its reservation or by the        *)
(* Finisher: none leaks, none is completed or deleted twice.                *)
THEOREM OneOwnerAlways == Spec => []OneOwner
<1>1. Inv => OneOwner
  BY DEF Inv, Good, Owned, Held, Distinct, OneOwner
<1> QED
  BY <1>1, Invariance, PTL

(* A caller that has not cancelled waits, or holds a slot and is told of    *)
(* its grant, or is told of its preemption.                                 *)
THEOREM CallersAreToldAlways == Spec => []CallersAreTold
<1>1. Inv => CallersAreTold
  BY DEF Inv, Good, Told, Sent, CallersAreTold
<1> QED
  BY <1>1, Invariance, PTL

----------------------------------------------------------------------------
(* do_queues leaves the reserver settled.                                   *)

(* Whoever waits does not rank above a reservation that can be preempted.   *)
LEMMA NotOutranked ==
  ASSUME NEW s, Sound(s), Waiting(s) # {}, Full(s), ~Outranked(s),
         NEW p \in Waiting(s), NEW b \in s.preempt_by_prio
  PROVE  p <= b[1]
<1>1. s.preempt_by_prio \in SUBSET (Prio \X Item) /\ Prio \subseteq Nat
  BY SoundTypes, ReservationsAssumption DEF Prio
<1> DEFINE a == Begin(s.preempt_by_prio)
<1>2. a \in s.preempt_by_prio /\ LessEq(a, b)
  BY <1>1, BeginLeast
<1>3. a[1] \in Nat /\ b[1] \in Nat /\ p \in Nat
  <2>1. a \in Prio \X Item /\ b \in Prio \X Item
    BY <1>1, <1>2
  <2>2. a[1] \in Prio /\ b[1] \in Prio /\ p \in Prio
    BY <2>1 DEF Waiting
  <2> QED
    BY <1>1, <2>2
<1>4. p <= Highest(s) /\ Highest(s) \in Nat
  BY <1>1, HighestWaits
<1>5. Highest(s) <= a[1]
  BY <1>2, <1>3, <1>4 DEF Outranked
<1>6. a[1] <= b[1]
  BY <1>2, <1>3 DEF LessEq
<1> QED
  BY <1>3, <1>4, <1>5, <1>6

(* A preemption frees a slot, a grant takes one.                            *)
LEMMA Slots ==
  ASSUME NEW s, Sound(s)
  PROVE  /\ Cardinality(s.in_progress) \in Nat
         /\ s.preempt_by_prio # {} =>
               Cardinality(preempt_one(s).in_progress) = Cardinality(s.in_progress) - 1
         /\ Waiting(s) # {} =>
               Cardinality(grant(s).in_progress) <= Cardinality(s.in_progress) + 1
<1>1. IsFiniteSet(s.in_progress)
  BY SoundTypes, FS_Subset, ReservationsAssumption
<1>2. Cardinality(s.in_progress) \in Nat
  BY <1>1, FS_CardinalityType
<1>3. ASSUME s.preempt_by_prio # {}
      PROVE  Cardinality(preempt_one(s).in_progress) = Cardinality(s.in_progress) - 1
  <2>1. PICK v \in s.in_progress : preempt_one(s).in_progress = s.in_progress \ {v}
    BY <1>3, PreemptOne
  <2> QED
    BY <1>1, <2>1, FS_RemoveElement
<1>4. ASSUME Waiting(s) # {}
      PROVE  Cardinality(grant(s).in_progress) <= Cardinality(s.in_progress) + 1
  <2>1. PICK v : grant(s).in_progress = s.in_progress \cup {v}
    BY <1>4, Grant
  <2> QED
    BY <1>1, <1>2, <2>1, FS_AddElement
<1> QED
  BY <1>2, <1>3, <1>4

LEMMA ServeSettles ==
  ASSUME Inv, ShedDone, Serve
  PROVE  (ShedDone /\ Settled)'
<1> DEFINE s == IF Outranked(r) THEN preempt_one(r) ELSE r
<1>1. Sound(r) /\ Sound(s) /\ Waiting(s) = Waiting(r)
  BY PreemptedGood DEF Inv, Good
<1>2. pc = "serve" /\ r.max_allowed \in Nat /\ r.min_priority \in Nat
  BY <1>1, SoundTypes DEF Serve
<1>3. CASE ~MayServe(r)
  <2>1. pc' = "unlocked" /\ r' = r
    BY <1>3 DEF Serve
  <2>2. \A p \in Waiting(r) : ~(p >= r.min_priority)
    <3> SUFFICES ASSUME NEW p \in Waiting(r) PROVE ~(p >= r.min_priority)
      OBVIOUS
    <3>1. p <= Highest(r) /\ Highest(r) \in Prio /\ p \in Prio
      BY HighestWaits DEF Waiting
    <3> QED
      BY <1>2, <1>3, <3>1, ReservationsAssumption DEF MayServe, Prio
  <2> QED
    BY <1>2, <2>1, <2>2 DEF ShedDone, Settled
<1>4. CASE MayServe(r) /\ Full(s)
  <2>1. ~Outranked(r)
    <3> SUFFICES ASSUME Outranked(r) PROVE FALSE
      OBVIOUS
    <3>1. s = preempt_one(r) /\ r.preempt_by_prio # {}
      BY DEF Outranked
    <3>2. /\ Cardinality(r.in_progress) \in Nat
          /\ Cardinality(s.in_progress) = Cardinality(r.in_progress) - 1
          /\ s.max_allowed = r.max_allowed
      BY <1>1, <3>1, Slots, PreemptOne
    <3> QED
      BY <1>2, <1>4, <3>1, <3>2 DEF Full, ShedDone
  <2>2. pc' = "unlocked" /\ r' = r /\ Full(r)
    BY <1>4, <2>1 DEF Serve
  <2>3. \A p \in Waiting(r) : \A b \in r.preempt_by_prio : p <= b[1]
    BY <1>1, <1>4, <2>1, <2>2, NotOutranked DEF MayServe
  <2> QED
    BY <1>2, <2>2, <2>3 DEF ShedDone, Settled
<1>5. CASE MayServe(r) /\ ~Full(s)
  <2>1. pc' = "serve" /\ r' = grant(s)
    BY <1>2, <1>5 DEF Serve
  <2> HIDE DEF s
  <2>2. Waiting(s) # {} /\ s.max_allowed \in Nat
    BY <1>1, <1>5, SoundTypes DEF MayServe
  <2>3. /\ Cardinality(s.in_progress) \in Nat
        /\ Cardinality(grant(s).in_progress) <= Cardinality(s.in_progress) + 1
        /\ grant(s).max_allowed = s.max_allowed /\ Sound(grant(s))
    BY <1>1, <2>2, Slots, Grant
  <2>4. Cardinality(grant(s).in_progress) \in Nat
    BY <2>3, Slots
  <2>5. ~(Cardinality(grant(s).in_progress) > grant(s).max_allowed)
    BY <1>5, <2>2, <2>3, <2>4 DEF Full
  <2> QED
    BY <2>1, <2>5 DEF ShedDone, Settled
<1> QED
  BY <1>3, <1>4, <1>5

LEMMA CompleteSettles ==
  ASSUME Inv, ShedDone, Settled, Complete
  PROVE  (ShedDone /\ Settled)'
<1>1. r' = [r EXCEPT !.f = Tail(r.f)] /\ pc' = pc /\ r \in Reserver
  BY DEF Complete, Inv, TypeOK
<1>2. /\ r'.queues = r.queues /\ r'.in_progress = r.in_progress
      /\ r'.preempt_by_prio = r.preempt_by_prio
      /\ r'.max_allowed = r.max_allowed /\ r'.min_priority = r.min_priority
  BY <1>1 DEF Reserver
<1> QED
  BY <1>1, <1>2 DEF ShedDone, Settled, Waiting, Full

(* Whenever the lock is free, do_queues has shed every reservation above    *)
(* max_allowed that can be preempted, and whoever still waits at or above   *)
(* min_priority could not be served: the slots are full of reservations     *)
(* that it does not outrank.                                                *)
THEOREM SettledAlways == Spec => []Settled
<1>1. Init => ShedDone /\ Settled
  <2> SUFFICES ASSUME Init PROVE ShedDone /\ Settled
    OBVIOUS
  <2>1. PICK max \in Limits : r = NewReserver(max, 0)
    BY DEF Init
  <2>2. r.preempt_by_prio = {} /\ Waiting(r) = {}
    BY <2>1 DEF NewReserver, Waiting
  <2> QED
    BY <2>2 DEF ShedDone, Settled
<1>2. Inv /\ ShedDone /\ Settled /\ [Next]_vars => (ShedDone /\ Settled)'
  <2> SUFFICES ASSUME Inv, ShedDone, Settled, [Next]_vars PROVE (ShedDone /\ Settled)'
    OBVIOUS
  <2>1. pc' = "shed" => (ShedDone /\ Settled)'
    BY DEF ShedDone, Settled
  <2>2. CASE \E i \in Item, p \in Prio : (\E b \in BOOLEAN : Request(i, p, b)) \/ Update(i, p)
    BY <2>1, <2>2 DEF Request, Update, Call
  <2>3. CASE (\E i \in Item : Cancel(i)) \/ (\E m \in Limits : set_max(m))
             \/ (\E p \in Prio : set_min_priority(p))
    BY <2>1, <2>3 DEF Cancel, set_max, set_min_priority, Call
  <2>4. CASE Shed
    <3>1. CASE MustShed(r)
      BY <2>1, <2>4, <3>1 DEF Shed
    <3>2. CASE ~MustShed(r)
      BY <2>4, <3>2 DEF Shed, MustShed, ShedDone, Settled
    <3> QED
      BY <3>1, <3>2
  <2>5. CASE UNCHANGED vars
    BY <2>5 DEF vars, ShedDone, Settled, Waiting, Full
  <2> QED
    BY <2>2, <2>3, <2>4, <2>5, ServeSettles, CompleteSettles DEF Next
<1> QED
  BY <1>1, <1>2, Invariance, PTL DEF Spec
=============================================================================
