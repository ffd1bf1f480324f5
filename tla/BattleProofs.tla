---------------------------- MODULE BattleProofs ----------------------------
(***************************************************************************)
(* The clock of a battle, for every length of a cycle, every number of     *)
(* units, every speed up to a ceiling, and for every roster and every book *)
(* of skills, statuses and passives that Books allows.                     *)
(*                                                                         *)
(* The first part is the queue of internal/core/atb, operation by          *)
(* operation.  Nothing in it is bounded: the integer divisions are the     *)
(* queue's own.  The second is the battle that drives it: what every step  *)
(* of a turn keeps of the units, of their places in the queue and of who   *)
(* called whom, from the smallest change of one unit up to an action with  *)
(* everything it sets off.  From that follow, for every battle, that the   *)
(* queue holds the living at the speeds they have, and that what was       *)
(* called leaves with its summoner and in its time.                        *)
(***************************************************************************)
EXTENDS Books, FiniteSetTheorems, SequenceTheorems, WellFoundedInduction, TLAPS

-----------------------------------------------------------------------------
(* The queue.                                                              *)

Entry(top) == [speed : 1..top, next : Nat, turns : Nat, seq : Nat]

(* A queue the package can hold: numbers that are numbers, and everybody   *)
(* who waits joined on a turn of their own.                                *)
IsQueue(q, top) ==
    /\ q = [now |-> q.now, entries |-> q.entries, joined |-> q.joined]
    /\ q.now \in Nat
    /\ q.joined \in Nat
    /\ q.entries = [i \in Queued(q) |-> q.entries[i]]
    /\ \A i \in Queued(q) : q.entries[i] \in Entry(top) /\ q.entries[i].seq <= q.joined
    /\ \A i, j \in Queued(q) : i # j => q.entries[i].seq # q.entries[j].seq

Sound(q, top) == IsQueue(q, top) /\ WaitsAreOwed(q)

(* Whoever has the turn is due before everybody else.                      *)
Leads(q, i) ==
    /\ i \in Queued(q)
    /\ \A j \in Queued(q) \ {i} : Precedes(q.entries[i], q.entries[j])

-----------------------------------------------------------------------------
(* A share rounded down, taken that many times, is not above the whole.    *)
LEMMA FloorIsBelow ==
    ASSUME NEW a \in Nat, NEW s \in Nat \ {0}
    PROVE  /\ a \div s \in Nat
           /\ (a \div s) * s <= a
<1>1. a \div s \in Nat
  BY SMT
<1>2. (a \div s) * s <= a
  BY <1>1, SMT
<1> QED
  BY <1>1, <1>2

(* A full wait is at least one tick, and worth at most one cycle at any    *)
(* speed the cycle can tell apart from the next.                           *)
LEMMA WaitIsOwed ==
    ASSUME NEW s \in Nat \ {0}, s <= Scale
    PROVE  Wait(s) \in Nat \ {0} /\ Wait(s) * s <= Scale
<1> USE ScaleAssumption
<1>1. AtLeastOne(s) = s
  BY DEF AtLeastOne
<1>2. Scale \div s \in Nat /\ (Scale \div s) * s <= Scale
  BY FloorIsBelow
<1>3. CASE Scale \div s < 1
  <2>1. Wait(s) = 1
    BY <1>1, <1>3 DEF Wait, AtLeastOne
  <2> QED
    BY <2>1
<1>4. CASE ~(Scale \div s < 1)
  <2>1. Wait(s) = Scale \div s
    BY <1>1, <1>4 DEF Wait, AtLeastOne
  <2> QED
    BY <1>2, <1>4, <2>1
<1> QED
  BY <1>3, <1>4

-----------------------------------------------------------------------------
(* An entry that stays is the entry it was, at a clock that has not moved: *)
(* what an operation on one unit leaves true of the others.                *)
LEMMA EntryTypes ==
    ASSUME NEW top \in Nat, NEW q, IsQueue(q, top), NEW i \in Queued(q)
    PROVE  /\ q.entries[i].speed \in Nat \ {0}
           /\ q.entries[i].speed <= top
           /\ q.entries[i].next \in Nat
           /\ q.entries[i].turns \in Nat
           /\ q.entries[i].seq \in Nat
           /\ q.entries[i].seq <= q.joined
           /\ q.now \in Nat
           /\ q.joined \in Nat
BY DEF IsQueue, Entry

(* A queue with one entry replaced, the clock and the count as given.      *)
LEMMA OneEntryChanges ==
    ASSUME NEW top \in Nat, NEW q, Sound(q, top), NEW i \in Queued(q),
           NEW e \in Entry(top), e.seq = q.entries[i].seq,
           NEW now \in Nat, e.next >= now, (e.next - now) * e.speed <= Scale,
           \A j \in Queued(q) \ {i} : q.entries[j].next >= now /\ q.now <= now,
           NEW r, r = [now |-> now, entries |-> [q.entries EXCEPT ![i] = e], joined |-> q.joined]
    PROVE  Sound(r, top)
<1> USE ScaleAssumption
<1>1. /\ r.now = now
      /\ r.joined = q.joined
      /\ Queued(r) = Queued(q)
      /\ r.entries = [j \in Queued(q) |-> IF j = i THEN e ELSE q.entries[j]]
  BY DEF Queued, Sound, IsQueue
<1>2. \A j \in Queued(q) : r.entries[j] = IF j = i THEN e ELSE q.entries[j]
  BY <1>1
<1>3. IsQueue(r, top)
  <2>1. r = [now |-> r.now, entries |-> r.entries, joined |-> r.joined]
    BY <1>1
  <2>2. \A j \in Queued(r) : r.entries[j] \in Entry(top) /\ r.entries[j].seq <= r.joined
    BY <1>1, <1>2 DEF Sound, IsQueue
  <2>3. \A j, k \in Queued(r) : j # k => r.entries[j].seq # r.entries[k].seq
    BY <1>1, <1>2 DEF Sound, IsQueue
  <2>4. r.entries = [j \in Queued(r) |-> r.entries[j]]
    BY <1>1, <1>2
  <2> QED
    BY <1>1, <2>1, <2>2, <2>3, <2>4 DEF Sound, IsQueue
<1>4. WaitsAreOwed(r)
  <2> SUFFICES ASSUME NEW j \in Queued(r)
               PROVE  r.entries[j].next >= r.now /\ Debt(r, j) <= Scale
    BY DEF WaitsAreOwed
  <2>1. CASE j = i
    BY <1>1, <1>2, <2>1 DEF Debt
  <2>2. CASE j # i
    <3>1. /\ r.entries[j] = q.entries[j]
          /\ q.entries[j].next \in Nat
          /\ q.entries[j].speed \in Nat \ {0}
          /\ q.now \in Nat
      BY <1>1, <1>2, <2>2, EntryTypes DEF Sound
    <3>2. q.entries[j].next >= now /\ q.now <= now
      BY <1>1, <2>2
    <3>3. (q.entries[j].next - q.now) * q.entries[j].speed <= Scale
      BY <1>1 DEF Sound, WaitsAreOwed, Debt
    <3>4. (q.entries[j].next - now) * q.entries[j].speed
              <= (q.entries[j].next - q.now) * q.entries[j].speed
      BY <3>1, <3>2
    <3>5. /\ (q.entries[j].next - now) * q.entries[j].speed \in Int
          /\ (q.entries[j].next - q.now) * q.entries[j].speed \in Int
      BY <3>1
    <3> HIDE DEF Queued
    <3> QED
      BY <1>1, <3>1, <3>2, <3>3, <3>4, <3>5 DEF Debt
  <2> QED
    BY <2>1, <2>2
<1> QED
  BY <1>3, <1>4 DEF Sound

-----------------------------------------------------------------------------
(* A battle opens with a queue nobody is in.                               *)
THEOREM NewQueueIsSound ==
    ASSUME NEW top \in Nat
    PROVE  Sound(NewQueue, top)
BY DEF Sound, IsQueue, WaitsAreOwed, NewQueue, Queued

(* Add: whoever joins waits a full wait, on a place of their own.          *)
LEMMA AddKeeps ==
    ASSUME NEW top \in Nat, top <= Scale, NEW q, Sound(q, top),
           NEW id, id \notin Queued(q), NEW speed \in Int, AtLeastOne(speed) <= top
    PROVE  Sound(AddTo(q, id, speed), top)
<1> USE ScaleAssumption
<1> DEFINE s == AtLeastOne(speed)
           e == [speed |-> s, next |-> q.now + Wait(s), turns |-> 0, seq |-> q.joined + 1]
           r == AddTo(q, id, speed)
<1>1. s \in Nat \ {0} /\ s <= top
  BY DEF AtLeastOne
<1>2. Wait(s) \in Nat \ {0} /\ Wait(s) * s <= Scale
  <2>1. s <= Scale
    BY <1>1
  <2> QED
    BY <1>1, <2>1, WaitIsOwed
<1> HIDE DEF s
<1>3. q.now \in Nat /\ q.joined \in Nat
  BY DEF Sound, IsQueue
<1>4. /\ r.now = q.now
      /\ r.joined = q.joined + 1
      /\ r.entries = [i \in Queued(q) \cup {id} |-> IF i = id THEN e ELSE q.entries[i]]
      /\ r = [now |-> r.now, entries |-> r.entries, joined |-> r.joined]
  <2> DEFINE g == [i \in Queued(q) \cup {id} |-> IF i = id THEN e ELSE q.entries[i]]
  <2>1. r = [now |-> q.now, entries |-> g, joined |-> q.joined + 1]
    <3>1. r = [[q EXCEPT !.joined = q.joined + 1] EXCEPT !.entries = g]
      BY DEF AddTo, s
    <3> HIDE DEF g
    <3> DEFINE p == [q EXCEPT !.joined = q.joined + 1]
    <3>2. p = [now |-> q.now, entries |-> q.entries, joined |-> q.joined + 1]
      BY DEF Sound, IsQueue
    <3> HIDE DEF p
    <3>3. [p EXCEPT !.entries = g] = [now |-> q.now, entries |-> g, joined |-> q.joined + 1]
      BY <3>2
    <3> QED
      BY <3>1, <3>3 DEF p
  <2> HIDE DEF r, e
  <2> QED
    BY <2>1
<1>5. e \in Entry(top)
  BY <1>1, <1>2, <1>3 DEF Entry
<1>6. e.next >= q.now /\ (e.next - q.now) * e.speed <= Scale /\ e.seq = q.joined + 1
  <2>1. (q.now + Wait(s)) - q.now = Wait(s)
    BY <1>2, <1>3
  <2> QED
    BY <1>2, <1>3, <2>1
<1> HIDE DEF e, r
<1>7. /\ Queued(r) = Queued(q) \cup {id}
      /\ r.entries[id] = e
      /\ \A i \in Queued(q) : r.entries[i] = q.entries[i]
  BY <1>4 DEF Queued
<1>8. IsQueue(r, top)
  <2>1. \A i \in Queued(r) : r.entries[i] \in Entry(top) /\ r.entries[i].seq <= r.joined
    <3> SUFFICES ASSUME NEW i \in Queued(r)
                 PROVE  r.entries[i] \in Entry(top) /\ r.entries[i].seq <= r.joined
      OBVIOUS
    <3>1. CASE i = id
      BY <3>1, <1>3, <1>4, <1>5, <1>6, <1>7
    <3>2. CASE i # id
      <4>1. i \in Queued(q) /\ r.entries[i] = q.entries[i]
        BY <3>2, <1>7
      <4>2. q.entries[i] \in Entry(top) /\ q.entries[i].seq <= q.joined /\ q.entries[i].seq \in Nat
        BY <4>1, EntryTypes DEF Sound, IsQueue
      <4> QED
        BY <4>1, <4>2, <1>3, <1>4
    <3> QED
      BY <3>1, <3>2
  <2>2. \A i, j \in Queued(r) : i # j => r.entries[i].seq # r.entries[j].seq
    <3> SUFFICES ASSUME NEW i \in Queued(r), NEW j \in Queued(r), i # j
                 PROVE  r.entries[i].seq # r.entries[j].seq
      OBVIOUS
    <3>1. CASE i = id
      BY <3>1, <1>3, <1>6, <1>7, EntryTypes DEF Sound
    <3>2. CASE j = id
      BY <3>2, <1>3, <1>6, <1>7, EntryTypes DEF Sound
    <3>3. CASE i # id /\ j # id
      BY <3>3, <1>7 DEF Sound, IsQueue
    <3> QED
      BY <3>1, <3>2, <3>3
  <2>3. r.entries = [i \in Queued(r) |-> r.entries[i]]
    BY <1>4, <1>7
  <2>4. r.now \in Nat /\ r.joined \in Nat
    BY <1>3, <1>4
  <2>5. r = [now |-> r.now, entries |-> r.entries, joined |-> r.joined]
    BY <1>4
  <2> QED
    BY <2>1, <2>2, <2>3, <2>4, <2>5 DEF IsQueue
<1>9. WaitsAreOwed(r)
  BY <1>4, <1>6, <1>7 DEF Sound, WaitsAreOwed, Debt
<1> QED
  BY <1>8, <1>9 DEF Sound, r

(* Remove: the others are where they were.                                 *)
LEMMA RemoveKeeps ==
    ASSUME NEW top \in Nat, NEW q, Sound(q, top), NEW id
    PROVE  Sound(RemoveFrom(q, id), top)
<1> DEFINE r == RemoveFrom(q, id)
<1>1. r = [now |-> q.now, entries |-> [i \in Queued(q) \ {id} |-> q.entries[i]], joined |-> q.joined]
  BY DEF RemoveFrom, Sound, IsQueue
<1> HIDE DEF r
<1>2. /\ Queued(r) = Queued(q) \ {id}
      /\ \A i \in Queued(r) : r.entries[i] = q.entries[i]
      /\ r.now = q.now /\ r.joined = q.joined
      /\ r.entries = [i \in Queued(r) |-> r.entries[i]]
      /\ r = [now |-> r.now, entries |-> r.entries, joined |-> r.joined]
  BY <1>1 DEF Queued
<1>3. IsQueue(r, top)
  BY <1>2 DEF Sound, IsQueue
<1>4. WaitsAreOwed(r)
  BY <1>2 DEF Sound, WaitsAreOwed, Debt
<1> QED
  BY <1>3, <1>4 DEF Sound, r

(* Next: the clock goes to whoever leads, and they wait a full wait more.  *)
LEMMA TurnKeeps ==
    ASSUME NEW top \in Nat, top <= Scale, NEW q, Sound(q, top), NEW i, Leads(q, i)
    PROVE  Sound(TurnOf(q, i), top)
<1> DEFINE d == q.entries[i]
           e == [d EXCEPT !.turns = d.turns + 1, !.next = d.next + Wait(d.speed)]
           g == [q.entries EXCEPT ![i] = e]
<1>1. i \in Queued(q)
  BY DEF Leads
<1>2. /\ d.speed \in Nat \ {0} /\ d.speed <= top
      /\ d.next \in Nat /\ d.turns \in Nat /\ d.seq \in Nat
      /\ q.now \in Nat
      /\ d = [speed |-> d.speed, next |-> d.next, turns |-> d.turns, seq |-> d.seq]
  BY <1>1, EntryTypes DEF Sound, IsQueue, Entry
<1>3. Wait(d.speed) \in Nat \ {0} /\ Wait(d.speed) * d.speed <= Scale
  <2>1. d.speed <= Scale
    BY <1>2, ScaleAssumption
  <2> QED
    BY <1>2, <2>1, WaitIsOwed
<1>4. e = [speed |-> d.speed, next |-> d.next + Wait(d.speed), turns |-> d.turns + 1, seq |-> d.seq]
  <2> HIDE DEF d
  <2> DEFINE h == [d EXCEPT !.turns = d.turns + 1]
  <2>1. h = [speed |-> d.speed, next |-> d.next, turns |-> d.turns + 1, seq |-> d.seq]
    BY <1>2
  <2> HIDE DEF h
  <2>2. [h EXCEPT !.next = d.next + Wait(d.speed)]
           = [speed |-> d.speed, next |-> d.next + Wait(d.speed), turns |-> d.turns + 1, seq |-> d.seq]
    BY <2>1
  <2> QED
    BY <2>2 DEF h
<1>5. TurnOf(q, i) = [now |-> d.next, entries |-> g, joined |-> q.joined]
  <2> DEFINE p == [q EXCEPT !.now = d.next]
  <2>1. p = [now |-> d.next, entries |-> q.entries, joined |-> q.joined]
    BY DEF Sound, IsQueue
  <2>2. TurnOf(q, i) = [p EXCEPT !.entries = [p.entries EXCEPT ![i] = e]]
    BY DEF TurnOf
  <2> HIDE DEF p, e, d
  <2> QED
    BY <2>1, <2>2
<1>6. \A j \in Queued(q) \ {i} : q.entries[j].next >= d.next /\ q.now <= d.next
  <2> SUFFICES ASSUME NEW j \in Queued(q) \ {i}
               PROVE  q.entries[j].next >= d.next
    BY <1>1 DEF Sound, WaitsAreOwed
  <2>1. Precedes(d, q.entries[j])
    BY DEF Leads
  <2>2. q.entries[j].next \in Nat
    BY EntryTypes DEF Sound
  <2> QED
    BY <1>2, <2>1, <2>2 DEF Precedes
<1>7. /\ e \in Entry(top)
      /\ e.seq = d.seq
      /\ e.next >= d.next
      /\ (e.next - d.next) * e.speed <= Scale
  <2> HIDE DEF d, e
  <2>1. (d.next + Wait(d.speed)) - d.next = Wait(d.speed)
    BY <1>2, <1>3
  <2>2. e.next - d.next = Wait(d.speed) /\ e.speed = d.speed
    BY <1>4, <2>1
  <2>3. e \in Entry(top)
    BY <1>2, <1>3, <1>4 DEF Entry
  <2> QED
    BY <1>2, <1>3, <1>4, <2>2, <2>3
<1> HIDE DEF e, d
<1> QED
  BY <1>1, <1>2, <1>5, <1>6, <1>7, OneEntryChanges DEF d

(* Reschedule: what a unit owes is never rounded up.                       *)
LEMMA RescheduleKeeps ==
    ASSUME NEW top \in Nat, NEW q, Sound(q, top), NEW i \in Queued(q),
           NEW speed \in Int, AtLeastOne(speed) <= top
    PROVE  Sound(Reschedule(q, i, speed), top)
<1> DEFINE s == AtLeastOne(speed)
           d == q.entries[i]
           due == q.now + (Pending(q, i) * d.speed) \div s
           e == [d EXCEPT !.speed = s, !.next = due]
<1>1. s \in Nat \ {0} /\ s <= top
  BY DEF AtLeastOne
<1>2. /\ d.speed \in Nat \ {0} /\ d.speed <= top
      /\ d.next \in Nat /\ d.turns \in Nat /\ d.seq \in Nat
      /\ q.now \in Nat
      /\ d = [speed |-> d.speed, next |-> d.next, turns |-> d.turns, seq |-> d.seq]
  BY EntryTypes DEF Sound, IsQueue, Entry
<1>3. /\ Pending(q, i) = d.next - q.now
      /\ Pending(q, i) \in Nat
      /\ Pending(q, i) * d.speed <= Scale
  BY <1>2 DEF Pending, Sound, WaitsAreOwed, Debt
<1>4. CASE d.speed = s
  BY <1>4 DEF Reschedule
<1>5. CASE d.speed # s
  <2>1. (Pending(q, i) * d.speed) \in Nat
    BY <1>2, <1>3
  <2>2. /\ ((Pending(q, i) * d.speed) \div s) \in Nat
        /\ ((Pending(q, i) * d.speed) \div s) * s <= Pending(q, i) * d.speed
    <3> DEFINE owed == Pending(q, i) * d.speed
    <3> HIDE DEF owed, s
    <3>1. owed \in Nat
      BY <2>1 DEF owed
    <3>2. owed \div s \in Nat /\ (owed \div s) * s <= owed
      BY <1>1, <3>1, FloorIsBelow
    <3> QED
      BY <3>2 DEF owed
  <2> DEFINE wait == (Pending(q, i) * d.speed) \div s
  <2>3. wait \in Nat /\ wait * s <= Scale
    <3>1. wait \in Nat /\ wait * s <= Pending(q, i) * d.speed
      BY <2>2
    <3>2. wait * s \in Nat
      BY <1>1, <3>1
    <3> HIDE DEF wait, d, s
    <3> QED
      BY <1>3, <2>1, <3>1, <3>2, ScaleAssumption
  <2>4. e = [speed |-> s, next |-> q.now + wait, turns |-> d.turns, seq |-> d.seq]
    <3> DEFINE h == [d EXCEPT !.speed = s]
    <3> HIDE DEF d, s, due
    <3>1. h = [speed |-> s, next |-> d.next, turns |-> d.turns, seq |-> d.seq]
      BY <1>2
    <3> HIDE DEF h
    <3>2. [h EXCEPT !.next = due] = [speed |-> s, next |-> due, turns |-> d.turns, seq |-> d.seq]
      BY <3>1
    <3>3. due = q.now + wait
      BY DEF due
    <3> QED
      BY <3>2, <3>3 DEF h
  <2>5. Reschedule(q, i, speed) = [q EXCEPT !.entries = [q.entries EXCEPT ![i] = e]]
    BY <1>5 DEF Reschedule
  <2> HIDE DEF wait, e, d, s, due
  <2>6. Reschedule(q, i, speed)
           = [now |-> q.now, entries |-> [q.entries EXCEPT ![i] = e], joined |-> q.joined]
    BY <2>5 DEF Sound, IsQueue
  <2>7. /\ e \in Entry(top)
        /\ e.seq = d.seq
        /\ e.next >= q.now
        /\ (e.next - q.now) * e.speed <= Scale
    <3>1. e.next - q.now = wait /\ e.speed = s
      BY <1>2, <2>3, <2>4
    <3>2. e \in Entry(top)
      BY <1>1, <1>2, <2>3, <2>4 DEF Entry
    <3> QED
      BY <1>2, <2>3, <2>4, <3>1, <3>2
  <2>8. \A j \in Queued(q) \ {i} : q.entries[j].next >= q.now /\ q.now <= q.now
    BY <1>2 DEF Sound, WaitsAreOwed
  <2> QED
    BY <1>2, <2>6, <2>7, <2>8, OneEntryChanges DEF d
<1> QED
  BY <1>4, <1>5

-----------------------------------------------------------------------------
(* A new speed counts at once and in the right direction: whoever gets     *)
(* faster is due no later than they were, whoever gets slower no earlier,  *)
(* and whoever is due this instant stays due.                              *)
THEOREM SpeedMovesTheTurn ==
    ASSUME NEW top \in Nat, NEW q, Sound(q, top), NEW i \in Queued(q), NEW speed \in Nat \ {0}
    PROVE  LET was == q.entries[i]
               now == Reschedule(q, i, speed).entries[i]
           IN  /\ speed >= was.speed => now.next <= was.next
               /\ speed <= was.speed => now.next >= was.next
               /\ was.next = q.now => now.next = was.next
<1> DEFINE d == q.entries[i]
           left == d.next - q.now
           r == Reschedule(q, i, speed)
<1>1. AtLeastOne(speed) = speed
  BY DEF AtLeastOne
<1>2. d.speed \in Nat \ {0} /\ d.next \in Nat /\ q.now \in Nat
  BY EntryTypes DEF Sound
<1>3. left \in Nat /\ Pending(q, i) = left
  BY <1>2 DEF Pending, Sound, WaitsAreOwed
<1>4. CASE d.speed = speed
  <2>1. r = q
    BY <1>1, <1>4 DEF Reschedule
  <2> HIDE DEF r
  <2> QED
    BY <1>2, <2>1 DEF r
<1>5. CASE d.speed # speed
  <2> DEFINE wait == (left * d.speed) \div speed
  <2>1. r.entries[i].next = q.now + wait
    BY <1>1, <1>3, <1>5 DEF Reschedule, Queued, Sound, IsQueue
  <2>2. left * d.speed \in Nat
    BY <1>2, <1>3
  <2>3. wait \in Nat /\ wait * speed <= left * d.speed /\ left * d.speed < (wait + 1) * speed
    BY <2>2, SMT
  <2> HIDE DEF wait, r, left
  <2>4. d.next = q.now + left
    BY <1>2 DEF left
  <2>5. ASSUME speed >= d.speed PROVE wait <= left
    <3>1. left * d.speed <= left * speed
      BY <1>2, <1>3, <2>5
    <3>2. SUFFICES ASSUME wait >= left + 1 PROVE FALSE
      BY <1>3, <2>3
    <3>3. wait * speed >= (left + 1) * speed
      BY <1>3, <2>3, <3>2
    <3>4. (left + 1) * speed = left * speed + speed
      BY <1>3
    <3> QED
      BY <1>2, <1>3, <2>2, <2>3, <3>1, <3>3, <3>4
  <2>6. ASSUME speed <= d.speed PROVE wait >= left
    <3>1. left * speed <= left * d.speed
      BY <1>2, <1>3, <2>6
    <3>2. SUFFICES ASSUME wait + 1 <= left PROVE FALSE
      BY <1>3, <2>3
    <3>3. (wait + 1) * speed <= left * speed
      BY <1>3, <2>3, <3>2
    <3> QED
      BY <1>2, <1>3, <2>2, <2>3, <3>1, <3>3
  <2>7. ASSUME d.next = q.now PROVE wait = 0
    <3>1. left = 0
      BY <1>2, <2>7 DEF left
    <3> QED
      BY <1>2, <2>3, <3>1
  <2> HIDE DEF d
  <2> QED
    BY <1>2, <1>3, <2>1, <2>3, <2>4, <2>5, <2>6, <2>7 DEF d, r
<1> QED
  BY <1>4, <1>5

-----------------------------------------------------------------------------
(* Of some natural numbers one is the least.                              *)
LEMMA LeastExists ==
    ASSUME NEW T \in SUBSET Nat, T # {}
    PROVE  \E x \in T : \A y \in T : x <= y
<1> DEFINE R == OpToRel(<, Nat)
<1>1. IsWellFoundedOn(R, Nat)
  BY NatLessThanWellFounded
<1>2. \A x, y \in Nat : y < x => <<y, x>> \in R
  BY DEF OpToRel
<1> HIDE DEF R
<1>3. PICK x \in T : \A y \in T : ~(<<y, x>> \in R)
  BY <1>1, WFMin
<1>4. ASSUME NEW y \in T PROVE x <= y
  <2>1. x \in Nat /\ y \in Nat
    OBVIOUS
  <2>2. ~(y < x)
    BY <1>2, <1>3, <2>1
  <2> QED
    BY <2>1, <2>2
<1> QED
  BY <1>3, <1>4

(* Next never hesitates: in a queue that is not empty exactly one unit     *)
(* acts before all the others, by time, then speed, then the order they    *)
(* joined in, so the choice in Foremost is the code's sort.                *)
THEOREM OneUnitLeads ==
    ASSUME NEW top \in Nat, NEW q, IsQueue(q, top), Queued(q) # {}
    PROVE  /\ Leads(q, Foremost(q))
           /\ \A i \in Queued(q) : Leads(q, i) => i = Foremost(q)
<1> DEFINE next(i) == q.entries[i].next
           slow(i) == top - q.entries[i].speed
           seq(i) == q.entries[i].seq
<1>1. \A i \in Queued(q) :
          next(i) \in Nat /\ slow(i) \in Nat /\ seq(i) \in Nat /\ q.entries[i].speed \in Nat
  BY EntryTypes
<1>2. \A i, j \in Queued(q) : i # j => seq(i) # seq(j)
  BY DEF IsQueue
<1> HIDE DEF next, slow, seq
<1>3. PICK i1 \in Queued(q) : \A j \in Queued(q) : next(i1) <= next(j)
  <2> DEFINE T == {next(i) : i \in Queued(q)}
  <2>1. T \in SUBSET Nat /\ T # {}
    BY <1>1
  <2>2. PICK x \in T : \A y \in T : x <= y
    BY <2>1, LeastExists
  <2> QED
    BY <2>2
<1>4. PICK i2 \in Queued(q) :
          /\ next(i2) = next(i1)
          /\ \A j \in Queued(q) : next(j) = next(i1) => slow(i2) <= slow(j)
  <2> DEFINE T == {slow(i) : i \in {j \in Queued(q) : next(j) = next(i1)}}
  <2>1. T \in SUBSET Nat /\ T # {}
    BY <1>1, <1>3
  <2>2. PICK x \in T : \A y \in T : x <= y
    BY <2>1, LeastExists
  <2> QED
    BY <2>2
<1>5. PICK i3 \in Queued(q) :
          /\ next(i3) = next(i1) /\ slow(i3) = slow(i2)
          /\ \A j \in Queued(q) :
                next(j) = next(i1) /\ slow(j) = slow(i2) => seq(i3) <= seq(j)
  <2> DEFINE T == {seq(i) : i \in {j \in Queued(q) : next(j) = next(i1) /\ slow(j) = slow(i2)}}
  <2>1. T \in SUBSET Nat /\ T # {}
    BY <1>1, <1>4
  <2>2. PICK x \in T : \A y \in T : x <= y
    BY <2>1, LeastExists
  <2> QED
    BY <2>2
<1>6. Leads(q, i3)
  <2> SUFFICES ASSUME NEW j \in Queued(q) \ {i3}
               PROVE  Precedes(q.entries[i3], q.entries[j])
    BY DEF Leads
  <2>1. next(i3) <= next(j)
    BY <1>3, <1>5
  <2>2. next(j) = next(i3) => slow(i3) <= slow(j)
    BY <1>4, <1>5
  <2>3. next(j) = next(i3) /\ slow(j) = slow(i3) => seq(i3) < seq(j)
    BY <1>1, <1>2, <1>5
  <2> QED
    BY <1>1, <2>1, <2>2, <2>3 DEF Precedes, next, slow, seq
<1>7. \A i, j \in Queued(q) : Leads(q, i) /\ Leads(q, j) => i = j
  <2> SUFFICES ASSUME NEW i \in Queued(q), NEW j \in Queued(q), Leads(q, i), Leads(q, j), i # j
               PROVE  FALSE
    OBVIOUS
  <2>1. Precedes(q.entries[i], q.entries[j]) /\ Precedes(q.entries[j], q.entries[i])
    BY DEF Leads
  <2> QED
    BY <1>1, <2>1 DEF Precedes, next, slow, seq
<1>8. Leads(q, Foremost(q))
  BY <1>6 DEF Leads, Foremost
<1> QED
  BY <1>7, <1>8 DEF Leads

-----------------------------------------------------------------------------
(* What a battle does with its queue: a unit enters, leaves, has its turn  *)
(* or changes speed.                                                       *)
Follows(q, r, top) ==
    \/ \E id : id \notin Queued(q) /\ \E speed \in Int :
          AtLeastOne(speed) <= top /\ r = AddTo(q, id, speed)
    \/ \E id : r = RemoveFrom(q, id)
    \/ Queued(q) # {} /\ r = TurnOf(q, Foremost(q))
    \/ \E id \in Queued(q), speed \in Int :
          AtLeastOne(speed) <= top /\ r = Reschedule(q, id, speed)

(* However a battle uses its queue, for as long as it goes on, nobody is   *)
(* due in the past and nobody owes more than the cycle a full wait is      *)
(* worth: the conjunct WaitsAreOwed of the battle's QueueFollowsTheUnits.  *)
(* It asks for speeds of at most Scale, where a wait of one tick is still  *)
(* no more than one cycle.                                                 *)
THEOREM EveryStepKeepsTheAccount ==
    ASSUME NEW top \in Nat, top <= Scale, NEW q, Sound(q, top), NEW r, Follows(q, r, top)
    PROVE  Sound(r, top) /\ WaitsAreOwed(r)
<1>1. ASSUME NEW id, id \notin Queued(q), NEW speed \in Int,
             AtLeastOne(speed) <= top, r = AddTo(q, id, speed)
      PROVE  Sound(r, top)
  BY <1>1, AddKeeps
<1>2. ASSUME NEW id, r = RemoveFrom(q, id)
      PROVE  Sound(r, top)
  BY <1>2, RemoveKeeps
<1>3. ASSUME Queued(q) # {}, r = TurnOf(q, Foremost(q))
      PROVE  Sound(r, top)
  <2>1. Leads(q, Foremost(q))
    BY <1>3, OneUnitLeads DEF Sound
  <2> QED
    BY <1>3, <2>1, TurnKeeps
<1>4. ASSUME NEW id \in Queued(q), NEW speed \in Int,
             AtLeastOne(speed) <= top, r = Reschedule(q, id, speed)
      PROVE  Sound(r, top)
  BY <1>4, RescheduleKeeps
<1>5. Sound(r, top)
  BY <1>1, <1>2, <1>3, <1>4 DEF Follows
<1> QED
  BY <1>5 DEF Sound

-----------------------------------------------------------------------------
(* Sequences.  Much of what a battle keeps in sequences is never looked    *)
(* into here, so a sequence is a list of whatever its elements are.        *)

Listed(s) == s \in Seq(ToSet(s))

LEMMA ListedFacts ==
    ASSUME NEW s, Listed(s)
    PROVE  Len(s) \in Nat /\ DOMAIN s = 1..Len(s)
BY DEF Listed

LEMMA SeqIsListed ==
    ASSUME NEW T, NEW s \in Seq(T)
    PROVE  Listed(s) /\ \A k \in DOMAIN s : s[k] \in T
BY DEF Listed, ToSet

LEMMA ListedIsSeq ==
    ASSUME NEW T, NEW s, Listed(s), \A k \in DOMAIN s : s[k] \in T
    PROVE  s \in Seq(T)
BY DEF Listed, ToSet

LEMMA ConcatIsListed ==
    ASSUME NEW s, Listed(s), NEW t, Listed(t)
    PROVE  Listed(s \o t)
<1> DEFINE T == ToSet(s) \cup ToSet(t)
<1>1. \A k \in DOMAIN s : s[k] \in T
  BY DEF ToSet
<1>2. \A k \in DOMAIN t : t[k] \in T
  BY DEF ToSet
<1> HIDE DEF T
<1>3. s \in Seq(T) /\ t \in Seq(T)
  BY <1>1, <1>2, ListedIsSeq
<1>4. s \o t \in Seq(T)
  BY <1>3
<1> QED BY ONLY <1>4, SeqIsListed

LEMMA MappedIsListed ==
    ASSUME NEW n \in Nat, NEW f, DOMAIN f = 1..n, f = [k \in DOMAIN f |-> f[k]]
    PROVE  Listed(f)
BY DEF Listed, ToSet

LEMMA EmptyIsListed == Listed(<<>>)
BY DEF Listed, ToSet

LEMMA AppendFacts ==
    ASSUME NEW s, Listed(s), NEW e
    PROVE  /\ Listed(Append(s, e))
           /\ DOMAIN Append(s, e) = 1..Len(s) + 1
           /\ \A k \in DOMAIN s : Append(s, e)[k] = s[k]
           /\ Append(s, e)[Len(s) + 1] = e
<1> DEFINE T == ToSet(s) \cup {e}
<1>1. s \in Seq(T)
  BY DEF Listed, ToSet
<1>2. e \in T
  OBVIOUS
<1> HIDE DEF T
<1>3. Append(s, e) \in Seq(T) /\ Len(Append(s, e)) = Len(s) + 1
  BY <1>1, <1>2
<1>4. DOMAIN Append(s, e) = 1..Len(s) + 1
  BY <1>3
<1>5. \A k \in DOMAIN s : Append(s, e)[k] = s[k]
  BY <1>1, <1>2
<1>6. Append(s, e)[Len(s) + 1] = e
  BY <1>1, <1>2
<1> QED BY <1>3, <1>4, <1>5, <1>6, SeqIsListed

LEMMA ReplacedIsListed ==
    ASSUME NEW s, Listed(s), NEW i, NEW x
    PROVE  /\ Listed([s EXCEPT ![i] = x])
           /\ DOMAIN [s EXCEPT ![i] = x] = DOMAIN s
           /\ \A k \in DOMAIN s : [s EXCEPT ![i] = x][k] = IF k = i THEN x ELSE s[k]
<1> DEFINE t == [s EXCEPT ![i] = x]
<1>1. Len(s) \in Nat /\ DOMAIN s = 1..Len(s) /\ s = [k \in DOMAIN s |-> s[k]]
  BY DEF Listed
<1>2. DOMAIN t = DOMAIN s /\ t = [k \in DOMAIN t |-> t[k]]
  BY <1>1
<1>3. \A k \in DOMAIN s : t[k] = IF k = i THEN x ELSE s[k]
  BY <1>1
<1> HIDE DEF t
<1>4. Listed(t)
  BY <1>1, <1>2, MappedIsListed
<1> QED BY <1>2, <1>3, <1>4 DEF t

-----------------------------------------------------------------------------
(* Folds.  Each of the engine's loops is an instance of Folding, with what *)
(* one round does and what it leaves true.                                 *)

OnlyStep(ctx, acc, x) == IF x \in ctx.set THEN Append(acc, x) ELSE acc
OnlyKeeps(ctx, k, acc) == acc \in Seq(ctx.of \cap ctx.set)
OnlyFold == INSTANCE Folding WITH Step <- OnlyStep, Keeps <- OnlyKeeps

LEMMA OnlyIsSeq ==
    ASSUME NEW T, NEW s \in Seq(T), NEW set
    PROVE  Only(s, set) \in Seq(T \cap set)
<1> DEFINE ctx == [of |-> T, set |-> set]
<1>1. OnlyKeeps(ctx, 0, <<>>)
  BY DEF OnlyKeeps
<1>2. Len(s) \in Nat /\ DOMAIN s = 1..Len(s)
  OBVIOUS
<1>3. \A k \in 1..Len(s) : \A acc :
          OnlyKeeps(ctx, k - 1, acc) => OnlyKeeps(ctx, k, OnlyStep(ctx, acc, s[k]))
  BY DEF OnlyKeeps, OnlyStep
<1>4. Only(s, set) = OnlyFold!Fold(ctx, <<>>, s)
  BY DEF Only, OnlyStep, OnlyFold!Fold, FoldLeft, MapThenFoldSet,
         OnlyFold!MapThenFoldSet, Max, OnlyFold!Max
<1> HIDE DEF ctx
<1>5. OnlyKeeps(ctx, Len(s), OnlyFold!Fold(ctx, <<>>, s))
  BY <1>1, <1>2, <1>3, OnlyFold!FoldKeeps
<1> QED BY <1>4, <1>5 DEF OnlyKeeps, ctx

FlatStep(ctx, acc, seq) == acc \o seq
FlatKeeps(ctx, k, acc) == acc \in Seq(ctx)
FlatFold == INSTANCE Folding WITH Step <- FlatStep, Keeps <- FlatKeeps

LEMMA FlatIsSeq ==
    ASSUME NEW T, NEW seqs, Listed(seqs), \A k \in DOMAIN seqs : seqs[k] \in Seq(T)
    PROVE  Flattened(seqs) \in Seq(T)
<1>1. FlatKeeps(T, 0, <<>>)
  BY DEF FlatKeeps
<1>2. Len(seqs) \in Nat /\ DOMAIN seqs = 1..Len(seqs)
  BY ListedFacts
<1>3. \A k \in 1..Len(seqs) : \A acc :
          FlatKeeps(T, k - 1, acc) => FlatKeeps(T, k, FlatStep(T, acc, seqs[k]))
  BY <1>2 DEF FlatKeeps, FlatStep
<1>4. Flattened(seqs) = FlatFold!Fold(T, <<>>, seqs)
  BY DEF Flattened, FlatStep, FlatFold!Fold, FoldLeft, MapThenFoldSet,
         FlatFold!MapThenFoldSet, Max, FlatFold!Max
<1>5. FlatKeeps(T, Len(seqs), FlatFold!Fold(T, <<>>, seqs))
  BY <1>1, <1>2, <1>3, FlatFold!FoldKeeps
<1> QED BY <1>4, <1>5 DEF FlatKeeps

SumStep(ctx, acc, t) == acc + IF t.target = ctx[1] /\ t.mode = ctx[2] THEN t.amount ELSE 0
SumKeeps(ctx, k, acc) == acc \in Int
SumFold == INSTANCE Folding WITH Step <- SumStep, Keeps <- SumKeeps

LEMMA SumIsInt ==
    ASSUME NEW terms \in Seq(TermType), NEW target, NEW mode
    PROVE  SumOf(terms, target, mode) \in Int
<1> DEFINE ctx == <<target, mode>>
<1>1. SumKeeps(ctx, 0, 0)
  BY DEF SumKeeps
<1>2. Len(terms) \in Nat /\ DOMAIN terms = 1..Len(terms)
  OBVIOUS
<1>3. ASSUME NEW k \in 1..Len(terms) PROVE terms[k].amount \in Int
  <2>1. terms[k] \in TermType
    BY <1>2
  <2> QED BY <2>1 DEF TermType
<1>4. \A k \in 1..Len(terms) : \A acc :
          SumKeeps(ctx, k - 1, acc) => SumKeeps(ctx, k, SumStep(ctx, acc, terms[k]))
  BY <1>3 DEF SumKeeps, SumStep
<1>5. SumOf(terms, target, mode) = SumFold!Fold(ctx, 0, terms)
  BY DEF SumOf, Total, SumStep, SumFold!Fold, FoldLeft, MapThenFoldSet,
         SumFold!MapThenFoldSet, Max, SumFold!Max
<1> HIDE DEF ctx
<1>6. SumKeeps(ctx, Len(terms), SumFold!Fold(ctx, 0, terms))
  BY <1>1, <1>2, <1>4, SumFold!FoldKeeps
<1> QED BY <1>5, <1>6 DEF SumKeeps

-----------------------------------------------------------------------------
(* Speeds.                                                                 *)

(* A status a unit can hold, of a kind in the book.                        *)
IsHeld(e) == DOMAIN e = {"kind", "stacks"} /\ e.kind \in DOMAIN StatusBook /\ Listed(e.stacks)
Sane(s) == Listed(s) /\ \A k \in DOMAIN s : IsHeld(s[k])

(* What a unit is listed with: of all of it only its speed is counted here. *)
IsBase(base) == DOMAIN base = Stat /\ base["speed"] \in Int /\ base["speed"] <= Ceilings["speed"]

LEMMA KindsAreTyped ==
    ASSUME NEW id \in DOMAIN StatusBook
    PROVE  Kind(id).modifiers \in Seq(TermType)
<1>1. StatusBook[id] \in KindType
  BY BooksAssumption DEF ValidKind
<1> QED BY <1>1 DEF KindType, Kind

LEMMA TermsAreTyped ==
    ASSUME NEW s, Sane(s)
    PROVE  Terms(s) \in Seq(TermType)
<1> DEFINE Each(i) == [j \in DOMAIN s[i].stacks |-> Kind(s[i].kind).modifiers]
           all == [i \in DOMAIN s |-> Flattened(Each(i))]
<1>1. ASSUME NEW i \in DOMAIN s
      PROVE  Flattened(Each(i)) \in Seq(TermType)
  <2>1. IsHeld(s[i])
    BY DEF Sane
  <2>2. Len(s[i].stacks) \in Nat /\ DOMAIN s[i].stacks = 1..Len(s[i].stacks)
    BY <2>1, ListedFacts DEF IsHeld
  <2>3. Kind(s[i].kind).modifiers \in Seq(TermType)
    BY <2>1, KindsAreTyped DEF IsHeld
  <2>4. Listed(Each(i))
    BY <2>2, MappedIsListed
  <2>5. \A j \in DOMAIN Each(i) : Each(i)[j] \in Seq(TermType)
    BY <2>3
  <2> HIDE DEF Each
  <2> QED BY <2>4, <2>5, FlatIsSeq
<1>2. Listed(all)
  <2>1. Len(s) \in Nat /\ DOMAIN s = 1..Len(s)
    BY ListedFacts DEF Sane
  <2> QED BY <2>1, MappedIsListed
<1>3. \A i \in DOMAIN all : all[i] \in Seq(TermType)
  BY <1>1
<1>4. Terms(s) = Flattened(all)
  BY DEF Terms
<1> HIDE DEF all
<1> QED BY <1>2, <1>3, <1>4, FlatIsSeq

(* A share of a number is a number, and a share of more than a whole is no *)
(* less than what it is a share of.                                        *)
LEMMA ShareIsInt ==
    ASSUME NEW v \in Int, NEW share \in Int
    PROVE  Share(v, share) \in Int
<1>1. v * share \in Int
  OBVIOUS
<1> QED BY <1>1, BaseAssumption DEF Share, Quot

LEMMA HeadroomIsAbove ==
    ASSUME NEW v \in Nat, NEW share \in Nat, share > Base
    PROVE  Share(v, share) >= v
<1> USE BaseAssumption
<1> DEFINE q == (v * share) \div Base
<1>1. v * share \in Nat /\ v * share >= v * Base /\ v * Base \in Nat
  OBVIOUS
<1>2. Share(v, share) = q
  BY <1>1 DEF Share, Quot
<1>3. q \in Int /\ v * share < (q + 1) * Base
  BY <1>1
<1> HIDE DEF q
<1>4. SUFFICES ASSUME q + 1 <= v PROVE FALSE
  BY <1>2, <1>3
<1>5. (q + 1) * Base <= v * Base
  BY <1>3, <1>4
<1> QED BY <1>1, <1>3, <1>5

LEMMA DivBounds ==
    ASSUME NEW a \in Nat, NEW n \in Nat \ {0}
    PROVE  a \div n \in Nat /\ (a \div n) * n <= a
BY FloorIsBelow

(* However hard a number is pushed it stays under its ceiling.             *)
LEMMA PushedUnderCeiling ==
    ASSUME NEW base \in Int, NEW delta \in Int, NEW ceiling \in Int, NEW floor \in Int,
           base <= ceiling
    PROVE  /\ Saturate(base, delta, ceiling, floor) \in Int
           /\ Saturate(base, delta, ceiling, floor) <= ceiling
<1> DEFINE up == ceiling - base
           down == base - floor
<1>1. up \in Nat /\ down \in Int
  OBVIOUS
<1>2. CASE delta > 0 /\ up > 0
  <2> DEFINE part == (up * delta) \div (up + delta)
  <2>1. Saturate(base, delta, ceiling, floor) = base + part
    BY <1>2 DEF Saturate
  <2>2. up * delta \in Nat /\ up + delta \in Nat \ {0}
    BY <1>1, <1>2
  <2>3. part \in Nat /\ part * (up + delta) <= up * delta
    <3> DEFINE a == up * delta
               n == up + delta
    <3> HIDE DEF a, n
    <3>1. a \in Nat /\ n \in Nat \ {0}
      BY <2>2 DEF a, n
    <3>2. a \div n \in Nat /\ (a \div n) * n <= a
      BY <3>1, DivBounds
    <3> QED BY <3>2 DEF a, n
  <2> HIDE DEF part, up
  <2>4. part <= up
    <3>1. SUFFICES ASSUME up + 1 <= part PROVE FALSE
      BY <1>1, <2>3
    <3>2. (up + 1) * (up + delta) <= part * (up + delta)
      BY <1>1, <2>2, <2>3, <3>1
    <3>3. (up + 1) * (up + delta) = up * up + up * delta + up + delta
      BY <1>1
    <3>4. up * up \in Nat /\ up * delta \in Nat
      BY <1>1, <2>2
    <3> QED BY <1>1, <1>2, <2>2, <2>3, <3>2, <3>3, <3>4
  <2> QED BY <2>1, <2>3, <2>4 DEF up
<1>3. CASE ~(delta > 0 /\ up > 0) /\ delta < 0 /\ down > 0
  <2> DEFINE part == (down * (-delta)) \div (down - delta)
  <2>1. Saturate(base, delta, ceiling, floor) = base - part
    BY <1>3 DEF Saturate
  <2>2. down * (-delta) \in Nat /\ down - delta \in Nat \ {0}
    BY <1>1, <1>3
  <2>3. part \in Nat
    <3> DEFINE a == down * (-delta)
               n == down - delta
    <3> HIDE DEF a, n
    <3>1. a \in Nat /\ n \in Nat \ {0}
      BY <2>2 DEF a, n
    <3>2. a \div n \in Nat
      BY <3>1, DivBounds
    <3> QED BY <3>2 DEF a, n
  <2> HIDE DEF part
  <2> QED BY <2>1, <2>3
<1>4. CASE ~(delta > 0 /\ up > 0) /\ ~(delta < 0 /\ down > 0)
  BY <1>4 DEF Saturate
<1> QED BY <1>2, <1>3, <1>4

\* The speed a unit is queued at is one the cycle can tell apart from the next.
LEMMA SpeedsFit ==
    ASSUME NEW s, Sane(s), NEW speed \in Int, speed <= Ceilings["speed"]
    PROVE  /\ StatOf(Terms(s), "speed", speed) \in Int
           /\ AtLeastOne(StatOf(Terms(s), "speed", speed)) \in 1..Scale
<1> DEFINE terms == Terms(s)
           ceiling == Share(Ceilings["speed"], Bounds.headroom)
           floor == Share(speed, Bounds.floorFraction)
           delta == Raw(terms, "speed", speed) - speed
           value == Saturate(speed, delta, ceiling, floor)
<1> USE BaseAssumption, ScaleAssumption
<1>1. Ceilings["speed"] \in Nat \ {0} /\ Bounds.headroom \in Nat /\ Bounds.floorFraction \in Nat
      /\ ceiling <= Scale
  BY ContentAssumption DEF Stat
<1>2. Bounds.headroom > Base
  BY BooksAssumption DEF BoundsHold
<1>3. ceiling \in Int /\ floor \in Int /\ Ceilings["speed"] <= ceiling
  <2>1. ceiling >= Ceilings["speed"]
    BY <1>1, <1>2, HeadroomIsAbove
  <2>2. Bounds.headroom \in Int /\ Bounds.floorFraction \in Int /\ Ceilings["speed"] \in Int
    BY <1>1
  <2>3. ceiling \in Int
    BY ONLY <2>2, ShareIsInt
  <2>4. floor \in Int
    BY ONLY <2>2, speed \in Int, ShareIsInt
  <2> HIDE DEF ceiling, floor
  <2> QED BY <2>1, <2>2, <2>3, <2>4
<1>4. terms \in Seq(TermType)
  BY TermsAreTyped
<1>5. SumOf(terms, "speed", "flat") \in Int /\ SumOf(terms, "speed", "percent") \in Int
  BY <1>4, SumIsInt
<1> HIDE DEF terms, ceiling, floor
<1>6. delta \in Int
  <2> DEFINE v == speed + SumOf(terms, "speed", "flat")
             p == Base + SumOf(terms, "speed", "percent")
  <2>1. v \in Int /\ p \in Int
    BY <1>5
  <2> HIDE DEF v, p
  <2>2. Share(v, p) \in Int
    BY <2>1, ShareIsInt
  <2> QED BY <2>2 DEF Raw, v, p
<1> HIDE DEF delta
<1>7. value \in Int /\ value <= ceiling
  <2>1. speed <= ceiling
    BY <1>1, <1>3
  <2> QED BY <1>3, <1>6, <2>1, PushedUnderCeiling
<1>8. StatOf(terms, "speed", speed) = IF value < 1 THEN 1 ELSE value
  BY DEF StatOf, ceiling, floor, delta
<1> HIDE DEF value
<1>9. StatOf(terms, "speed", speed) \in Int /\ AtLeastOne(StatOf(terms, "speed", speed)) \in 1..Scale
  BY <1>1, <1>3, <1>7, <1>8 DEF AtLeastOne
<1> QED BY <1>9 DEF terms

-----------------------------------------------------------------------------
(* What a unit holds stays a list of statuses of the book, whatever is put *)
(* on it, taken off it, eaten or aged.                                     *)

LEMMA SaneEmpty == Sane(<<>>)
BY EmptyIsListed DEF Sane

LEMMA SaneAppend ==
    ASSUME NEW s, Sane(s), NEW e, IsHeld(e)
    PROVE  Sane(Append(s, e))
<1>1. Len(s) \in Nat /\ DOMAIN s = 1..Len(s)
  BY ListedFacts DEF Sane
<1>2. Listed(Append(s, e)) /\ DOMAIN Append(s, e) = 1..Len(s) + 1
      /\ (\A k \in DOMAIN s : Append(s, e)[k] = s[k]) /\ Append(s, e)[Len(s) + 1] = e
  BY AppendFacts DEF Sane
<1>3. ASSUME NEW k \in DOMAIN Append(s, e) PROVE IsHeld(Append(s, e)[k])
  <2>1. k \in DOMAIN s \/ k = Len(s) + 1
    BY <1>1, <1>2
  <2> QED BY <1>2, <2>1 DEF Sane
<1> QED BY <1>2, <1>3 DEF Sane

LEMMA SaneReplaced ==
    ASSUME NEW s, Sane(s), NEW i, NEW x, i \in DOMAIN s => Listed(x)
    PROVE  Sane([s EXCEPT ![i].stacks = x])
<1> DEFINE e == [s[i] EXCEPT !.stacks = x]
           t == [s EXCEPT ![i] = e]
<1>1. t = [s EXCEPT ![i].stacks = x]
  OBVIOUS
<1>2. i \in DOMAIN s => IsHeld(e)
  BY DEF Sane, IsHeld
<1> HIDE DEF e
<1>3. Listed(t) /\ DOMAIN t = DOMAIN s /\ \A k \in DOMAIN s : t[k] = IF k = i THEN e ELSE s[k]
  BY ReplacedIsListed DEF Sane
<1> HIDE DEF t
<1>4. Sane(t)
  BY <1>2, <1>3 DEF Sane
<1> QED BY <1>1, <1>4

LEMMA OnlyListed ==
    ASSUME NEW s, Listed(s), NEW set
    PROVE  Listed(Only(s, set)) /\ \A k \in DOMAIN Only(s, set) : Only(s, set)[k] \in ToSet(s) \cap set
<1>1. Only(s, set) \in Seq(ToSet(s) \cap set)
  BY OnlyIsSeq DEF Listed
<1> HIDE DEF Listed
<1> QED BY <1>1, SeqIsListed

LEMMA SaneOnly ==
    ASSUME NEW s, Sane(s), NEW set
    PROVE  Sane(Only(s, set))
<1>1. Listed(Only(s, set)) /\ \A k \in DOMAIN Only(s, set) : Only(s, set)[k] \in ToSet(s) \cap set
  BY OnlyListed DEF Sane
<1>2. \A e \in ToSet(s) : IsHeld(e)
  BY DEF Sane, ToSet
<1> QED BY <1>1, <1>2 DEF Sane

LEMMA SaneApply ==
    ASSUME NEW s, Sane(s), NEW id \in DOMAIN StatusBook, NEW amount
    PROVE  Sane(Apply(s, id, amount))
<1> DEFINE kind == Kind(id)
           fresh == [tick |-> IF kind.category = "absorb" THEN 0 ELSE amount,
                     pool |-> IF kind.category = "absorb" THEN amount ELSE 0,
                     left |-> kind.duration]
           i == Find(s, id)
           renewed == [j \in DOMAIN s[i].stacks |-> [s[i].stacks[j] EXCEPT !.left = kind.duration]]
           more == IF Len(s[i].stacks) >= kind.maxStacks THEN renewed ELSE Append(renewed, fresh)
<1> HIDE DEF kind, fresh, i
<1>1. Apply(s, id, amount) = IF i = 0 THEN Append(s, [kind |-> id, stacks |-> <<fresh>>])
                             ELSE [s EXCEPT ![i].stacks = more]
  BY DEF Apply, kind, fresh, i
<1>2. CASE i = 0
  <2>1. Listed(<<fresh>>)
    <3>1. <<fresh>> \in Seq({fresh})
      OBVIOUS
    <3> QED BY ONLY <3>1, SeqIsListed
  <2>2. IsHeld([kind |-> id, stacks |-> <<fresh>>])
    BY <2>1 DEF IsHeld
  <2> QED BY <1>1, <1>2, <2>2, SaneAppend
<1>3. CASE i # 0
  <2>1. ASSUME i \in DOMAIN s PROVE Listed(more)
    <3>1. Listed(s[i].stacks)
      BY <2>1 DEF Sane, IsHeld
    <3>2. Listed(renewed)
      <4>1. Len(s[i].stacks) \in Nat /\ DOMAIN s[i].stacks = 1..Len(s[i].stacks)
        BY <3>1, ListedFacts
      <4> QED BY <4>1, MappedIsListed
    <3> HIDE DEF renewed
    <3>3. Listed(Append(renewed, fresh))
      BY <3>2, AppendFacts
    <3> QED BY <3>2, <3>3
  <2> HIDE DEF more
  <2>2. Sane([s EXCEPT ![i].stacks = more])
    BY <2>1, SaneReplaced
  <2> QED BY <1>1, <1>3, <2>2
<1> QED BY <1>2, <1>3

ApplyStep(ctx, acc, n) == Apply(acc, ctx[1], ctx[2])
ApplyKeeps(ctx, k, acc) == Sane(acc)
ApplyFold == INSTANCE Folding WITH Step <- ApplyStep, Keeps <- ApplyKeeps

LEMMA SaneApplyTimes ==
    ASSUME NEW s, Sane(s), NEW id \in DOMAIN StatusBook, NEW amount, NEW times \in Nat
    PROVE  Sane(ApplyTimes(s, id, amount, times))
<1> DEFINE ctx == <<id, amount>>
           seq == [n \in 1..times |-> n]
<1>1. ApplyKeeps(ctx, 0, s)
  BY DEF ApplyKeeps
<1>2. \A k \in 1..times : \A acc :
          ApplyKeeps(ctx, k - 1, acc) => ApplyKeeps(ctx, k, ApplyStep(ctx, acc, seq[k]))
  BY SaneApply DEF ApplyKeeps, ApplyStep
<1>3. ApplyTimes(s, id, amount, times) = ApplyFold!Fold(ctx, s, seq)
  BY DEF ApplyTimes, ApplyStep, ApplyFold!Fold, FoldLeft, MapThenFoldSet,
         ApplyFold!MapThenFoldSet, Max, ApplyFold!Max
<1>4. DOMAIN seq = 1..times
  OBVIOUS
<1> HIDE DEF ctx, seq
<1>5. ApplyKeeps(ctx, times, ApplyFold!Fold(ctx, s, seq))
  BY <1>1, <1>2, <1>4, ApplyFold!FoldKeeps
<1> QED BY <1>3, <1>5 DEF ApplyKeeps

LEMMA SaneHold ==
    ASSUME NEW s, Sane(s), NEW id \in DOMAIN StatusBook, NEW amount, NEW times \in Nat
    PROVE  Sane(Hold(s, id, amount, times))
BY SaneApplyTimes DEF Hold

LEMMA SaneRelease ==
    ASSUME NEW s, Sane(s), NEW id
    PROVE  Sane(Release(s, id))
BY SaneOnly DEF Release

LEMMA SaneAged ==
    ASSUME NEW s, Sane(s)
    PROVE  Sane(Aged(s))
<1> DEFINE Later(stacks) == [j \in DOMAIN stacks |-> [stacks[j] EXCEPT !.left = stacks[j].left - 1]]
           Lasting(stacks) == Only(stacks, {stack \in ToSet(stacks) : stack.left > 0})
           Older(e) == IF Kind(e.kind).permanent THEN e
                       ELSE [e EXCEPT !.stacks = Lasting(Later(e.stacks))]
           aged == [i \in DOMAIN s |-> Older(s[i])]
<1>1. ASSUME NEW e, IsHeld(e) PROVE IsHeld(Older(e))
  <2>1. Listed(Later(e.stacks))
    <3>1. Len(e.stacks) \in Nat /\ DOMAIN e.stacks = 1..Len(e.stacks)
      BY <1>1, ListedFacts DEF IsHeld
    <3> QED BY <3>1, MappedIsListed
  <2> HIDE DEF Later
  <2>2. Listed(Lasting(Later(e.stacks)))
    BY <2>1, OnlyListed
  <2> HIDE DEF Lasting
  <2> QED BY <1>1, <2>2 DEF IsHeld
<1>2. Aged(s) = NonEmpty(aged)
  BY DEF Aged
<1> HIDE DEF Older
<1>3. Sane(aged)
  <2>1. Len(s) \in Nat /\ DOMAIN s = 1..Len(s)
    BY ListedFacts DEF Sane
  <2>2. Listed(aged)
    BY <2>1, MappedIsListed
  <2> QED BY <1>1, <2>2 DEF Sane
<1> HIDE DEF aged
<1> QED BY <1>2, <1>3, SaneOnly DEF NonEmpty

EatStep(ctx, acc, stack) == Eat(acc, stack)
EatKeeps(ctx, k, acc) == DOMAIN acc = {"amount", "kept"} /\ Listed(acc.kept)
EatFold == INSTANCE Folding WITH Step <- EatStep, Keeps <- EatKeeps

LEMMA EatenIsListed ==
    ASSUME NEW stacks, Listed(stacks), NEW amount
    PROVE  Listed(FoldLeft(Eat, [amount |-> amount, kept |-> <<>>], stacks).kept)
<1> DEFINE base == [amount |-> amount, kept |-> <<>>]
<1>1. EatKeeps(0, 0, base)
  BY EmptyIsListed DEF EatKeeps
<1>2. Len(stacks) \in Nat /\ DOMAIN stacks = 1..Len(stacks)
  BY ListedFacts
<1>3. ASSUME NEW acc, NEW stack, NEW k, NEW l, EatKeeps(0, k, acc)
      PROVE  EatKeeps(0, l, EatStep(0, acc, stack))
  <2> DEFINE e == [stack EXCEPT !.pool = stack.pool - AtMost(stack.pool, acc.amount)]
  <2>1. Listed(Append(acc.kept, e))
    BY <1>3, AppendFacts DEF EatKeeps
  <2>2. Eat(acc, stack).kept = acc.kept \/ Eat(acc, stack).kept = Append(acc.kept, e)
    BY DEF Eat
  <2>3. DOMAIN Eat(acc, stack) = {"amount", "kept"}
    BY DEF Eat
  <2> HIDE DEF e
  <2> QED BY <1>3, <2>1, <2>2, <2>3 DEF EatKeeps, EatStep
<1>4. FoldLeft(Eat, base, stacks) = EatFold!Fold(0, base, stacks)
  BY DEF EatStep, EatFold!Fold, FoldLeft, MapThenFoldSet,
         EatFold!MapThenFoldSet, Max, EatFold!Max
<1> HIDE DEF base
<1>5. EatKeeps(0, Len(stacks), EatFold!Fold(0, base, stacks))
  BY <1>1, <1>2, <1>3, EatFold!FoldKeeps
<1> QED BY <1>4, <1>5 DEF EatKeeps, base

PoolStep(ctx, acc, e) == FromEntry(acc, e, ctx)
PoolKeeps(ctx, k, acc) == DOMAIN acc = {"amount", "kept"} /\ Sane(acc.kept)
PoolFold == INSTANCE Folding WITH Step <- PoolStep, Keeps <- PoolKeeps

LEMMA SaneSpendPool ==
    ASSUME NEW s, Sane(s), NEW category, NEW amount
    PROVE  Sane(SpendPool(s, category, amount))
<1> DEFINE base == [amount |-> amount, kept |-> <<>>]
<1>1. PoolKeeps(category, 0, base)
  BY SaneEmpty DEF PoolKeeps
<1>2. Len(s) \in Nat /\ DOMAIN s = 1..Len(s)
  BY ListedFacts DEF Sane
<1>3. ASSUME NEW acc, NEW e, NEW k, NEW l, PoolKeeps(category, k, acc), IsHeld(e)
      PROVE  PoolKeeps(category, l, PoolStep(category, acc, e))
  <2> DEFINE rest == FoldLeft(Eat, [amount |-> acc.amount, kept |-> <<>>], e.stacks)
             r == FromEntry(acc, e, category)
             f == [e EXCEPT !.stacks = rest.kept]
  <2>1. Listed(rest.kept)
    BY <1>3, EatenIsListed DEF IsHeld
  <2>2. r = [acc EXCEPT !.kept = Append(acc.kept, e)]
        \/ r = [amount |-> rest.amount, kept |-> Append(acc.kept, f)]
    BY DEF FromEntry, Kept
  <2> HIDE DEF rest, r
  <2>3. IsHeld(f)
    BY <1>3, <2>1 DEF IsHeld
  <2> HIDE DEF f
  <2>4. Sane(Append(acc.kept, e)) /\ Sane(Append(acc.kept, f))
    BY <1>3, <2>3, SaneAppend DEF PoolKeeps
  <2>5. DOMAIN r = {"amount", "kept"} /\ Sane(r.kept)
    <3> DEFINE g == Append(acc.kept, e)
               h == Append(acc.kept, f)
    <3>1. Sane(g) /\ Sane(h) /\ (r = [acc EXCEPT !.kept = g] \/ r = [amount |-> rest.amount, kept |-> h])
      BY <2>2, <2>4
    <3>2. DOMAIN acc = {"amount", "kept"}
      BY <1>3 DEF PoolKeeps
    <3> HIDE DEF g, h
    <3>3. CASE r = [acc EXCEPT !.kept = g]
      BY <3>1, <3>2, <3>3
    <3>4. CASE r = [amount |-> rest.amount, kept |-> h]
      BY <3>1, <3>4
    <3> QED BY <3>1, <3>3, <3>4
  <2> QED BY <2>5 DEF PoolKeeps, PoolStep, r
<1>4. FoldLeft(LAMBDA acc, e : FromEntry(acc, e, category), base, s)
         = PoolFold!Fold(category, base, s)
  BY DEF PoolStep, PoolFold!Fold, FoldLeft, MapThenFoldSet,
         PoolFold!MapThenFoldSet, Max, PoolFold!Max
<1>5. \A k \in 1..Len(s) : IsHeld(s[k])
  BY <1>2 DEF Sane
<1> HIDE DEF base
<1>6. PoolKeeps(category, Len(s), PoolFold!Fold(category, base, s))
  BY <1>1, <1>2, <1>3, <1>5, PoolFold!FoldKeeps
<1>7. SpendPool(s, category, amount) = NonEmpty(PoolFold!Fold(category, base, s).kept)
  BY <1>4 DEF SpendPool, base
<1> QED BY <1>6, <1>7, SaneOnly DEF PoolKeeps, NonEmpty

WithoutStep(ctx, kept, j) == IF j \in ctx.doomed THEN kept ELSE Append(kept, ctx.stacks[j])
WithoutKeeps(ctx, k, kept) == Listed(kept)
WithoutFold == INSTANCE Folding WITH Step <- WithoutStep, Keeps <- WithoutKeeps

LEMMA WithoutIsListed ==
    ASSUME NEW stacks, Listed(stacks), NEW doomed
    PROVE  Listed(Without(stacks, doomed))
<1> DEFINE ctx == [doomed |-> doomed, stacks |-> stacks]
           seq == [j \in DOMAIN stacks |-> j]
<1>1. WithoutKeeps(ctx, 0, <<>>)
  BY EmptyIsListed DEF WithoutKeeps
<1>2. Len(stacks) \in Nat /\ DOMAIN seq = 1..Len(stacks)
  BY ListedFacts
<1>3. ASSUME NEW acc, NEW j, NEW k, NEW l, WithoutKeeps(ctx, k, acc)
      PROVE  WithoutKeeps(ctx, l, WithoutStep(ctx, acc, j))
  BY <1>3, AppendFacts DEF WithoutKeeps, WithoutStep
<1>4. Without(stacks, doomed) = WithoutFold!Fold(ctx, <<>>, seq)
  BY DEF Without, WithoutStep, WithoutFold!Fold, FoldLeft, MapThenFoldSet,
         WithoutFold!MapThenFoldSet, Max, WithoutFold!Max
<1> HIDE DEF ctx, seq
<1>5. WithoutKeeps(ctx, Len(stacks), WithoutFold!Fold(ctx, <<>>, seq))
  BY <1>1, <1>2, <1>3, WithoutFold!FoldKeeps
<1> QED BY <1>4, <1>5 DEF WithoutKeeps

LEMMA SaneTake ==
    ASSUME NEW s, Sane(s), NEW id, NEW count
    PROVE  Sane(Take(s, id, count))
<1> DEFINE i == Find(s, id)
           left == Without(s[i].stacks, Heaviest(s[i].stacks, Removed(s, id, count)))
<1>1. Take(s, id, count) = IF Removed(s, id, count) = 0 THEN s
                           ELSE NonEmpty([s EXCEPT ![i].stacks = left])
  BY DEF Take
<1>2. i \in DOMAIN s => Listed(left)
  BY WithoutIsListed DEF Sane, IsHeld
<1> HIDE DEF i, left
<1>3. Sane([s EXCEPT ![i].stacks = left])
  BY <1>2, SaneReplaced
<1>4. Sane(NonEmpty([s EXCEPT ![i].stacks = left]))
  BY <1>3, SaneOnly DEF NonEmpty
<1> QED BY <1>1, <1>4

CleanseStep(ctx, acc, e) ==
    IF acc.stopped \/ Kind(e.kind).category \notin ctx THEN acc
    ELSE Cleansed(acc, e, Removed(acc.set, e.kind, acc.left))
CleanseKeeps(ctx, k, acc) == Sane(acc.set)
CleanseFold == INSTANCE Folding WITH Step <- CleanseStep, Keeps <- CleanseKeeps

LEMMA SaneCleanse ==
    ASSUME NEW s, Sane(s), NEW categories, NEW count
    PROVE  Sane(Cleanse(s, categories, count))
<1> DEFINE base == [set |-> s, left |-> count, stopped |-> FALSE]
<1>1. CleanseKeeps(categories, 0, base)
  BY DEF CleanseKeeps
<1>2. Len(s) \in Nat /\ DOMAIN s = 1..Len(s)
  BY ListedFacts DEF Sane
<1>3. ASSUME NEW acc, NEW e, NEW k, NEW l, CleanseKeeps(categories, k, acc)
      PROVE  CleanseKeeps(categories, l, CleanseStep(categories, acc, e))
  <2>1. \A took : Cleansed(acc, e, took).set = Take(acc.set, e.kind, took)
    BY DEF Cleansed
  <2> QED BY <1>3, <2>1, SaneTake DEF CleanseKeeps, CleanseStep
<1>4. Cleanse(s, categories, count) = CleanseFold!Fold(categories, base, s).set
  BY DEF Cleanse, CleanseStep, CleanseFold!Fold, FoldLeft, MapThenFoldSet,
         CleanseFold!MapThenFoldSet, Max, CleanseFold!Max
<1> HIDE DEF base
<1>5. CleanseKeeps(categories, Len(s), CleanseFold!Fold(categories, base, s))
  BY <1>1, <1>2, <1>3, CleanseFold!FoldKeeps
<1> QED BY <1>4, <1>5 DEF CleanseKeeps

-----------------------------------------------------------------------------
(* A battle between two steps of a call.                                   *)

UnitFields == {"side", "cell", "affinity", "base", "hp", "dead", "skills", "cool", "statuses",
               "passives", "summoner", "leaves", "bound"}
BattleFields == {"units", "queue", "asked", "finished", "winner", "outcome", "source"}

Able(u) ==
    /\ DOMAIN u = UnitFields
    /\ u.dead \in BOOLEAN /\ u.bound \in BOOLEAN /\ u.leaves \in Int
    /\ Sane(u.statuses) /\ IsBase(u.base)
    /\ u.skills \in Seq(DOMAIN SkillBook) /\ u.passives \in Seq(DOMAIN PassiveBook)

Fielded(b) ==
    /\ DOMAIN b = BattleFields /\ b.finished \in BOOLEAN
    /\ Listed(b.units) /\ \A i \in Ids(b) : Able(b.units[i])

(* The queue holds the living and nobody else.                             *)
Lined(b) == Sound(b.queue, Scale) /\ Queued(b.queue) = Living(b)

(* A summon was called by a unit that calls, and calls nobody itself.      *)
CallsNobody(u) == \A n \in DOMAIN u.skills : SkillBook[u.skills[n]].summons.count = 0
Born(b, j) ==
    LET u == b.units[j] IN
    /\ u.summoner # 0 => /\ u.summoner \in Ids(b)
                         /\ CallsNobody(u) /\ ~CallsNobody(b.units[u.summoner])
    /\ u.bound => u.summoner # 0

(* Its stay is what its skill gave it, less the turns it has had.          *)
OnTime(b, j) ==
    LET u == b.units[j] IN
    u.leaves >= 0 /\ u.summoner # 0 =>
        \E n \in DOMAIN b.units[u.summoner].skills :
            SkillBook[b.units[u.summoner].skills[n]].summons.lasts
                = u.leaves + b.queue.entries[j].turns

(* A bound one lives by its summoner, unless that is x, who is falling.    *)
LivesBy(b, j, x) ==
    b.units[j].bound => b.units[j].summoner = x \/ ~b.units[b.units[j].summoner].dead

Families(b, x) ==
    /\ \A j \in Ids(b) : Born(b, j)
    /\ \A j \in Living(b) : OnTime(b, j) /\ LivesBy(b, j, x)

Sturdy(b, x) == Fielded(b) /\ Lined(b) /\ Families(b, x)
Mid(b, x) == Sturdy(b, x) /\ b.asked = 0

(* What most steps leave of a unit, and of a battle.                       *)
Same(u, v) ==
    /\ v.dead = u.dead /\ v.skills = u.skills /\ v.passives = u.passives
    /\ v.summoner = u.summoner /\ v.leaves = u.leaves /\ v.bound = u.bound
Frame(b, c) == Ids(c) = Ids(b) /\ \A j \in Ids(b) : Same(b.units[j], c.units[j])
Touch(b, c) == Fielded(c) /\ c.queue = b.queue /\ c.asked = b.asked /\ Frame(b, c)

LEMMA FrameFacts ==
    ASSUME NEW b, NEW c, Frame(b, c)
    PROVE  /\ Living(c) = Living(b)
           /\ \A j \in Ids(b) : Born(b, j) => Born(c, j)
           /\ \A x : \A j \in Ids(b) : Born(b, j) /\ LivesBy(b, j, x) => LivesBy(c, j, x)
           /\ \A j \in Ids(b) :
                 Born(b, j) /\ OnTime(b, j) /\ c.queue.entries[j].turns = b.queue.entries[j].turns
                    => OnTime(c, j)
<1>1. Living(c) = Living(b)
  BY SMTT(40) DEF Frame, Same, Living
<1>2. ASSUME NEW j \in Ids(b), Born(b, j) PROVE Born(c, j)
  BY <1>2, SMTT(40) DEF Frame, Same, Born, CallsNobody
<1>3. ASSUME NEW x, NEW j \in Ids(b), Born(b, j), LivesBy(b, j, x) PROVE LivesBy(c, j, x)
  BY <1>3 DEF Frame, Same, Born, LivesBy
<1>4. ASSUME NEW j \in Ids(b), Born(b, j), OnTime(b, j),
             c.queue.entries[j].turns = b.queue.entries[j].turns
      PROVE  OnTime(c, j)
  BY <1>4, ZenonT(60) DEF Frame, Same, Born, OnTime
<1> QED BY <1>1, <1>2, <1>3, <1>4

LEMMA TouchKeeps ==
    ASSUME NEW b, NEW x, Mid(b, x), NEW c, Touch(b, c)
    PROVE  Mid(c, x)
<1>1. Frame(b, c) /\ Fielded(c) /\ c.queue = b.queue /\ c.asked = b.asked /\ Ids(c) = Ids(b)
  BY DEF Touch, Frame
<1>2. Living(c) = Living(b)
  BY <1>1, FrameFacts
<1>3. Lined(c)
  BY <1>1, <1>2 DEF Lined, Mid, Sturdy
<1>4. \A j \in Ids(b) : Born(b, j) /\ (j \in Living(b) => OnTime(b, j) /\ LivesBy(b, j, x))
  BY DEF Mid, Sturdy, Families
<1>5. \A j \in Ids(c) : Born(c, j)
  BY <1>1, <1>4, FrameFacts
<1>6. ASSUME NEW j \in Living(c) PROVE OnTime(c, j) /\ LivesBy(c, j, x)
  <2>1. j \in Ids(b) /\ j \in Living(b)
    BY <1>1, <1>2 DEF Living
  <2>2. Born(b, j) /\ OnTime(b, j) /\ LivesBy(b, j, x)
    BY <1>4, <2>1
  <2> QED BY <1>1, <2>1, <2>2, FrameFacts
<1>7. Families(c, x)
  BY <1>5, <1>6 DEF Families
<1> QED BY <1>1, <1>3, <1>7 DEF Mid, Sturdy

LEMMA TouchSelf ==
    ASSUME NEW b, Fielded(b)
    PROVE  Touch(b, b)
BY DEF Touch, Frame, Same

LEMMA TouchTrans ==
    ASSUME NEW b, NEW c, NEW d, Touch(b, c), Touch(c, d)
    PROVE  Touch(b, d)
BY DEF Touch, Frame, Same

(* One unit changes, and stays what it was to the others.                  *)
LEMMA TouchUnit ==
    ASSUME NEW b, Fielded(b), NEW i, NEW v, i \in Ids(b) => Able(v) /\ Same(b.units[i], v)
    PROVE  Touch(b, [b EXCEPT !.units[i] = v])
<1> DEFINE units == [b.units EXCEPT ![i] = v]
           c == [b EXCEPT !.units = units]
<1>1. Listed(units) /\ DOMAIN units = DOMAIN b.units
      /\ \A k \in DOMAIN b.units : units[k] = IF k = i THEN v ELSE b.units[k]
  BY ReplacedIsListed DEF Fielded
<1> HIDE DEF units
<1>2. DOMAIN c = BattleFields /\ c.units = units /\ c.queue = b.queue /\ c.asked = b.asked
      /\ c.finished = b.finished
  BY DEF Fielded, BattleFields
<1>3. c = [b EXCEPT !.units[i] = v]
  BY DEF units
<1> HIDE DEF c
<1>4. Fielded(c) /\ Frame(b, c)
  BY <1>1, <1>2 DEF Fielded, Frame, Same, Ids
<1> QED BY <1>2, <1>3, <1>4 DEF Touch

LEMMA AbleHp ==
    ASSUME NEW u, Able(u), NEW x
    PROVE  Able([u EXCEPT !.hp = x]) /\ Same(u, [u EXCEPT !.hp = x])
BY DEF Able, Same, UnitFields

LEMMA AbleStatuses ==
    ASSUME NEW u, Able(u), NEW x, Sane(x)
    PROVE  Able([u EXCEPT !.statuses = x]) /\ Same(u, [u EXCEPT !.statuses = x])
BY DEF Able, Same, UnitFields

LEMMA AbleCool ==
    ASSUME NEW u, Able(u), NEW x
    PROVE  Able([u EXCEPT !.cool = x]) /\ Same(u, [u EXCEPT !.cool = x])
BY DEF Able, Same, UnitFields

LEMMA TouchHp ==
    ASSUME NEW b, Fielded(b), NEW i, NEW x
    PROVE  Touch(b, [b EXCEPT !.units[i].hp = x])
<1> DEFINE v == [b.units[i] EXCEPT !.hp = x]
<1>1. i \in Ids(b) => Able(v) /\ Same(b.units[i], v)
  BY AbleHp DEF Fielded
<1>2. [b EXCEPT !.units[i].hp = x] = [b EXCEPT !.units[i] = v]
  OBVIOUS
<1> HIDE DEF v
<1> QED BY <1>1, <1>2, TouchUnit

LEMMA TouchStatuses ==
    ASSUME NEW b, Fielded(b), NEW i, NEW x, i \in Ids(b) => Sane(x)
    PROVE  Touch(b, [b EXCEPT !.units[i].statuses = x])
<1> DEFINE v == [b.units[i] EXCEPT !.statuses = x]
<1>1. i \in Ids(b) => Able(v) /\ Same(b.units[i], v)
  BY AbleStatuses DEF Fielded
<1>2. [b EXCEPT !.units[i].statuses = x] = [b EXCEPT !.units[i] = v]
  OBVIOUS
<1> HIDE DEF v
<1> QED BY <1>1, <1>2, TouchUnit

LEMMA TouchCool ==
    ASSUME NEW b, Fielded(b), NEW i, NEW x
    PROVE  Touch(b, [b EXCEPT !.units[i].cool = x])
<1> DEFINE v == [b.units[i] EXCEPT !.cool = x]
<1>1. i \in Ids(b) => Able(v) /\ Same(b.units[i], v)
  BY AbleCool DEF Fielded
<1>2. [b EXCEPT !.units[i].cool = x] = [b EXCEPT !.units[i] = v]
  OBVIOUS
<1> HIDE DEF v
<1> QED BY <1>1, <1>2, TouchUnit

(* The units do not change at all.                                         *)
LEMMA TouchRest ==
    ASSUME NEW b, Fielded(b), NEW c, DOMAIN c = BattleFields, c.finished \in BOOLEAN,
           c.units = b.units, c.queue = b.queue, c.asked = b.asked
    PROVE  Touch(b, c)
BY DEF Touch, Fielded, Frame, Same, Ids

LEMMA TouchSource ==
    ASSUME NEW b, Fielded(b), NEW x
    PROVE  Touch(b, [b EXCEPT !.source = x])
<1> DEFINE c == [b EXCEPT !.source = x]
<1>1. DOMAIN c = BattleFields /\ c.finished = b.finished /\ c.units = b.units /\ c.queue = b.queue
      /\ c.asked = b.asked
  BY DEF Fielded, BattleFields
<1> HIDE DEF c
<1>2. Touch(b, c)
  BY <1>1, TouchRest DEF Fielded
<1> QED BY <1>2 DEF c

LEMMA TouchCheckEnd ==
    ASSUME NEW b, Fielded(b)
    PROVE  Touch(b, CheckEnd(b)) /\ CheckEnd(b).units = b.units
<1> DEFINE c == CheckEnd(b)
<1>1. DOMAIN c = BattleFields /\ c.finished \in BOOLEAN /\ c.units = b.units /\ c.queue = b.queue
      /\ c.asked = b.asked
  BY DEF CheckEnd, Fielded, BattleFields
<1> HIDE DEF c
<1>2. Touch(b, c)
  BY <1>1, TouchRest
<1> QED BY <1>1, <1>2 DEF c

LEMMA TouchSettle ==
    ASSUME NEW b, Fielded(b)
    PROVE  Touch(b, Settle(b)) /\ Settle(b).units = b.units
<1> DEFINE d == CheckEnd(b)
           c == Settle(b)
<1>1. Touch(b, d) /\ d.units = b.units
  BY TouchCheckEnd
<1> HIDE DEF d
<1>2. DOMAIN d = BattleFields /\ d.finished \in BOOLEAN /\ d.queue = b.queue /\ d.asked = b.asked
  BY <1>1 DEF Touch, Fielded
<1>3. c = d \/ c = [d EXCEPT !.finished = TRUE, !.outcome = "stalemate"]
  BY DEF Settle, d
<1> HIDE DEF c
<1>4. DOMAIN c = BattleFields /\ c.finished \in BOOLEAN /\ c.units = b.units /\ c.queue = b.queue
      /\ c.asked = b.asked
  BY <1>1, <1>2, <1>3 DEF BattleFields
<1>5. Touch(b, c)
  BY <1>4, TouchRest
<1> QED BY <1>4, <1>5 DEF c

-----------------------------------------------------------------------------
(* A unit falls.                                                           *)

LEMMA StruckFacts ==
    ASSUME NEW b, Fielded(b), NEW i, NEW c, c = Struck(b, i)
    PROVE  /\ Fielded(c) /\ Ids(c) = Ids(b) /\ c.asked = b.asked /\ c.finished = b.finished
           /\ c.queue = RemoveFrom(b.queue, i)
           /\ \A j \in Ids(b) : j # i => c.units[j] = b.units[j]
           /\ i \in Ids(b) => /\ c.units[i].dead
                              /\ c.units[i].skills = b.units[i].skills
                              /\ c.units[i].summoner = b.units[i].summoner
                              /\ c.units[i].bound = b.units[i].bound
<1> DEFINE v == [b.units[i] EXCEPT !.dead = TRUE, !.hp = 0]
           units == [b.units EXCEPT ![i] = v]
<1>1. Listed(units) /\ DOMAIN units = DOMAIN b.units
      /\ \A k \in DOMAIN b.units : units[k] = IF k = i THEN v ELSE b.units[k]
  BY ReplacedIsListed DEF Fielded
<1>2. ASSUME i \in Ids(b)
      PROVE  /\ Able(v) /\ v.dead /\ v.skills = b.units[i].skills
             /\ v.summoner = b.units[i].summoner /\ v.bound = b.units[i].bound
  <2> DEFINE u == b.units[i]
  <2>1. Able(u)
    BY <1>2 DEF Fielded
  <2> HIDE DEF u
  <2> QED BY <2>1 DEF Able, UnitFields, u
<1>3. DOMAIN b = BattleFields
  BY DEF Fielded
<1>4. /\ DOMAIN c = BattleFields /\ c.units = units /\ c.queue = RemoveFrom(b.queue, i)
      /\ c.asked = b.asked /\ c.finished = b.finished
  <2> DEFINE once == [b.units EXCEPT ![i] = [b.units[i] EXCEPT !.dead = TRUE]]
             more == [once EXCEPT ![i] = [once[i] EXCEPT !.hp = 0]]
  <2>1. /\ DOMAIN c = BattleFields /\ c.units = more /\ c.queue = RemoveFrom(b.queue, i)
        /\ c.asked = b.asked /\ c.finished = b.finished
    BY <1>3 DEF Struck, BattleFields
  <2>2. more = units
    BY DEF Fielded, Listed
  <2> QED BY <2>1, <2>2
<1> HIDE DEF units, v
<1>5. Fielded(c) /\ Ids(c) = Ids(b)
  BY <1>1, <1>2, <1>4 DEF Fielded, Ids
<1>6. \A j \in Ids(b) : j # i => c.units[j] = b.units[j]
  BY <1>1, <1>4 DEF Ids
<1>7. i \in Ids(b) => c.units[i] = v
  BY <1>1, <1>4 DEF Ids
<1> QED BY <1>2, <1>4, <1>5, <1>6, <1>7

LEMMA RemoveFacts ==
    ASSUME NEW q, Sound(q, Scale), NEW i
    PROVE  /\ Queued(RemoveFrom(q, i)) = Queued(q) \ {i}
           /\ \A j \in Queued(q) \ {i} : RemoveFrom(q, i).entries[j] = q.entries[j]
BY DEF RemoveFrom, Sound, IsQueue, Queued

LEMMA StruckFamilies ==
    ASSUME NEW b, Fielded(b), Lined(b), b.asked = 0, NEW i, NEW c, c = Struck(b, i), NEW y,
           \A j \in Ids(b) : Born(b, j),
           \A j \in Living(b) \ {i} : OnTime(b, j) /\ LivesBy(c, j, y)
    PROVE  Mid(c, y)
<1>1. /\ Fielded(c) /\ Ids(c) = Ids(b) /\ c.asked = b.asked
      /\ c.queue = RemoveFrom(b.queue, i)
      /\ \A j \in Ids(b) : j # i => c.units[j] = b.units[j]
      /\ i \in Ids(b) => /\ c.units[i].dead
                         /\ c.units[i].skills = b.units[i].skills
                         /\ c.units[i].summoner = b.units[i].summoner
                         /\ c.units[i].bound = b.units[i].bound
  BY StruckFacts
<1>2. Living(c) = Living(b) \ {i}
  BY <1>1 DEF Living
<1>3. /\ Queued(c.queue) = Queued(b.queue) \ {i}
      /\ \A j \in Queued(b.queue) \ {i} : c.queue.entries[j] = b.queue.entries[j]
  BY <1>1, RemoveFacts DEF Lined
<1>4. Lined(c)
  <2>1. Scale \in Nat
    BY ScaleAssumption
  <2>2. Sound(c.queue, Scale)
    BY <1>1, <2>1, RemoveKeeps DEF Lined
  <2> QED BY <1>2, <1>3, <2>2 DEF Lined
<1>6. \A j \in Ids(b) : /\ c.units[j].skills = b.units[j].skills
                        /\ c.units[j].summoner = b.units[j].summoner
                        /\ c.units[j].bound = b.units[j].bound
  BY <1>1
<1>7. ASSUME NEW j \in Ids(c) PROVE Born(c, j)
  <2>1. Born(b, j) /\ j \in Ids(b)
    BY <1>1
  <2>2. \A k \in Ids(b) : CallsNobody(c.units[k]) = CallsNobody(b.units[k])
    BY <1>6 DEF CallsNobody
  <2> QED BY <1>1, <1>6, <2>1, <2>2 DEF Born
<1>8. ASSUME NEW j \in Living(c) PROVE OnTime(c, j) /\ LivesBy(c, j, y)
  <2>1. j \in Living(b) \ {i} /\ j \in Ids(b) /\ j \in Queued(b.queue) \ {i}
    BY <1>2 DEF Living, Lined
  <2>2. Born(b, j) /\ OnTime(b, j)
    BY <2>1
  <2>3. c.units[j] = b.units[j] /\ c.queue.entries[j] = b.queue.entries[j]
    BY <1>1, <1>3, <2>1, SMTT(40)
  <2>4. OnTime(c, j)
    <3> DEFINE s == b.units[j].summoner
    <3>1. s # 0 => c.units[s].skills = b.units[s].skills
      BY <1>6, <2>2 DEF Born
    <3> QED BY <2>2, <2>3, <3>1 DEF OnTime
  <2> QED BY <2>1, <2>4
<1>9. Families(c, y)
  BY <1>7, <1>8 DEF Families
<1> QED BY <1>1, <1>4, <1>9 DEF Mid, Sturdy

LEMMA StruckKeeps ==
    ASSUME NEW b, NEW x, Mid(b, x), NEW i, NEW c, c = Struck(b, i), NEW y,
           \A j \in Living(b) \ {i} : LivesBy(b, j, x) => LivesBy(c, j, y)
    PROVE  Mid(c, y)
<1>1. /\ Fielded(b) /\ Lined(b) /\ b.asked = 0
      /\ \A j \in Ids(b) : Born(b, j)
      /\ \A j \in Living(b) : OnTime(b, j) /\ LivesBy(b, j, x)
  BY DEF Mid, Sturdy, Families
<1> QED BY <1>1, StruckFamilies

\* Whoever falls leaves the bound ones to be dismissed ...
LEMMA StruckLeaves ==
    ASSUME NEW b, Mid(b, 0), NEW i
    PROVE  Mid(Struck(b, i), i)
<1> DEFINE c == Struck(b, i)
<1>1. \A j \in Ids(b) : j # i => c.units[j] = b.units[j]
  BY StruckFacts DEF Mid, Sturdy
<1> HIDE DEF c
<1>2. ASSUME NEW j \in Living(b) \ {i}, LivesBy(b, j, 0)
      PROVE  LivesBy(c, j, i)
  <2>1. j \in Ids(b) /\ Born(b, j)
    BY DEF Mid, Sturdy, Families, Living
  <2>2. c.units[j] = b.units[j]
    BY <1>1, <2>1
  <2>3. CASE b.units[j].bound /\ b.units[j].summoner # i
    <3>1. b.units[j].summoner # 0 /\ b.units[j].summoner \in Ids(b)
      BY <2>1, <2>3 DEF Born
    <3>2. c.units[b.units[j].summoner] = b.units[b.units[j].summoner]
      BY <1>1, <2>3, <3>1
    <3> QED BY <1>2, <2>2, <2>3, <3>1, <3>2 DEF LivesBy
  <2>4. CASE ~b.units[j].bound \/ b.units[j].summoner = i
    BY <2>2, <2>4 DEF LivesBy
  <2> QED BY <2>3, <2>4
<1>3. Mid(c, i)
  BY <1>2, StruckKeeps DEF c
<1> QED BY <1>3 DEF c

\* ... and a summon that falls leaves nobody, for it calls nobody.
LEMMA StruckAlone ==
    ASSUME NEW b, NEW x, Mid(b, x), NEW i, i \in Ids(b) => b.units[i].summoner # 0
    PROVE  Mid(Struck(b, i), x)
<1> DEFINE c == Struck(b, i)
<1>1. \A j \in Ids(b) : j # i => c.units[j] = b.units[j]
  BY StruckFacts DEF Mid, Sturdy
<1> HIDE DEF c
<1>2. ASSUME NEW j \in Living(b) \ {i}, LivesBy(b, j, x)
      PROVE  LivesBy(c, j, x)
  <2>1. j \in Ids(b) /\ Born(b, j)
    BY DEF Mid, Sturdy, Families, Living
  <2>2. c.units[j] = b.units[j]
    BY <1>1, <2>1
  <2>3. CASE b.units[j].bound
    <3> DEFINE s == b.units[j].summoner
    <3>1. s \in Ids(b) /\ ~CallsNobody(b.units[s])
      BY <2>1, <2>3 DEF Born
    <3>2. s # i
      <4>1. ASSUME s = i PROVE FALSE
        <5>1. i \in Ids(b) /\ Born(b, i)
          BY <3>1, <4>1 DEF Mid, Sturdy, Families
        <5>2. CallsNobody(b.units[i])
          BY <5>1 DEF Born
        <5> QED BY <3>1, <4>1, <5>2
      <4> QED BY <4>1
    <3>3. c.units[s] = b.units[s]
      BY <1>1, <3>1, <3>2
    <3> QED BY <1>2, <2>2, <2>3, <3>3 DEF LivesBy
  <2>4. CASE ~b.units[j].bound
    BY <2>2, <2>4 DEF LivesBy
  <2> QED BY <2>3, <2>4
<1>3. Mid(c, x)
  BY <1>2, StruckKeeps DEF c
<1> QED BY <1>3 DEF c

LEMMA DismissKeeps ==
    ASSUME NEW b, NEW x, Mid(b, x), NEW i, i \in Ids(b) => b.units[i].summoner # 0
    PROVE  /\ Mid(Dismiss(b, i), x) /\ Ids(Dismiss(b, i)) = Ids(b)
           /\ i \in Ids(b) => Dismiss(b, i).units[i].dead
           /\ \A j \in Ids(b) :
                 j # i => Dismiss(b, i).units[j] = b.units[j]
           /\ \A j \in Ids(b) : /\ Dismiss(b, i).units[j].bound = b.units[j].bound
                                /\ Dismiss(b, i).units[j].summoner = b.units[j].summoner
<1> DEFINE c == Struck(b, i)
           d == CheckEnd(c)
<1>1. CASE b.units[i].dead
  BY <1>1 DEF Dismiss
<1>2. CASE ~b.units[i].dead
  <2>1. /\ Fielded(c) /\ Ids(c) = Ids(b) /\ (\A j \in Ids(b) : j # i => c.units[j] = b.units[j])
        /\ i \in Ids(b) => /\ c.units[i].dead
                           /\ c.units[i].summoner = b.units[i].summoner
                           /\ c.units[i].bound = b.units[i].bound
    BY StruckFacts DEF Mid, Sturdy
  <2>2. Mid(c, x)
    BY StruckAlone
  <2> HIDE DEF c
  <2>3. Touch(c, d) /\ d.units = c.units
    BY <2>1, TouchCheckEnd
  <2>4. Dismiss(b, i) = d
    BY <1>2 DEF Dismiss, c
  <2> HIDE DEF d
  <2>5. Mid(d, x)
    BY <2>2, <2>3, TouchKeeps
  <2> QED BY <2>1, <2>3, <2>4, <2>5 DEF Ids
<1> QED BY <1>1, <1>2

BoundStep(ctx, c, j) ==
    IF c.units[j].bound /\ c.units[j].summoner = ctx.i THEN Dismiss(c, j) ELSE c
BoundKeeps(ctx, k, c) ==
    /\ Mid(c, ctx.i) /\ Ids(c) = 1..ctx.n
    /\ \A j \in 1..k : c.units[j].bound /\ c.units[j].summoner = ctx.i => c.units[j].dead
BoundFold == INSTANCE Folding WITH Step <- BoundStep, Keeps <- BoundKeeps

LEMMA DismissBoundKeeps ==
    ASSUME NEW b, NEW i, Mid(b, i)
    PROVE  Mid(DismissBound(b, i), 0) /\ Ids(DismissBound(b, i)) = Ids(b)
<1> DEFINE n == Len(b.units)
           ctx == [i |-> i, n |-> n]
           seq == InOrder(b)
<1>1. n \in Nat /\ Ids(b) = 1..n
  BY ListedFacts DEF Mid, Sturdy, Fielded, Ids
<1>2. DOMAIN seq = 1..n /\ \A k \in 1..n : seq[k] = k
  BY <1>1 DEF InOrder
<1>3. DismissBound(b, i) = BoundFold!Fold(ctx, b, seq)
  BY DEF DismissBound, BoundStep, BoundFold!Fold, FoldLeft, MapThenFoldSet,
         BoundFold!MapThenFoldSet, Max, BoundFold!Max
<1> HIDE DEF n, seq
<1>4. ctx.i = i /\ ctx.n = n
  OBVIOUS
<1> HIDE DEF ctx
<1>5. BoundKeeps(ctx, 0, b)
  BY <1>1, <1>4 DEF BoundKeeps
<1>6. ASSUME NEW k \in 1..n, NEW c, BoundKeeps(ctx, k - 1, c)
      PROVE  BoundKeeps(ctx, k, BoundStep(ctx, c, k))
  <2>1. /\ Mid(c, i) /\ Ids(c) = 1..n
        /\ \A j \in 1..k - 1 : c.units[j].bound /\ c.units[j].summoner = i => c.units[j].dead
    BY <1>4, <1>6 DEF BoundKeeps
  <2>2. \A j \in 1..k : j \in Ids(c) /\ (j # k => j \in 1..k - 1)
    BY <1>1, <2>1
  <2>3. CASE c.units[k].bound /\ c.units[k].summoner = i
    <3> DEFINE d == Dismiss(c, k)
    <3>1. c.units[k].summoner # 0
      BY <2>1, <2>2, <2>3 DEF Mid, Sturdy, Families, Born
    <3>2. /\ Mid(d, i) /\ Ids(d) = Ids(c) /\ d.units[k].dead
          /\ \A j \in Ids(c) : j # k => d.units[j] = c.units[j]
      BY <2>1, <2>2, <3>1, DismissKeeps, ZenonT(60)
    <3>3. BoundStep(ctx, c, k) = d
      BY <1>4, <2>3 DEF BoundStep
    <3> HIDE DEF d
    <3>4. \A j \in 1..k : d.units[j].bound /\ d.units[j].summoner = i => d.units[j].dead
      BY <2>1, <2>2, <3>2
    <3> QED BY <1>4, <2>1, <3>2, <3>3, <3>4 DEF BoundKeeps
  <2>4. CASE ~(c.units[k].bound /\ c.units[k].summoner = i)
    <3>1. BoundStep(ctx, c, k) = c
      BY <1>4, <2>4 DEF BoundStep
    <3>2. \A j \in 1..k : c.units[j].bound /\ c.units[j].summoner = i => c.units[j].dead
      BY <2>1, <2>2, <2>4
    <3> QED BY <1>4, <2>1, <3>1, <3>2 DEF BoundKeeps
  <2> QED BY <2>3, <2>4
<1>7. BoundKeeps(ctx, n, BoundFold!Fold(ctx, b, seq))
  BY <1>1, <1>2, <1>5, <1>6, BoundFold!FoldKeeps
<1> DEFINE c == BoundFold!Fold(ctx, b, seq)
<1> HIDE DEF c
<1>8. /\ Mid(c, i) /\ Ids(c) = 1..n
      /\ \A j \in 1..n : c.units[j].bound /\ c.units[j].summoner = i => c.units[j].dead
  BY <1>4, <1>7 DEF BoundKeeps, c
<1>9. \A j \in Living(c) : LivesBy(c, j, i) => LivesBy(c, j, 0)
  BY <1>8 DEF LivesBy, Living
<1>10. Mid(c, 0)
  BY <1>8, <1>9 DEF Mid, Sturdy, Families
<1> QED BY <1>1, <1>3, <1>8, <1>10 DEF c

-----------------------------------------------------------------------------
(* Speeds are set again: each entry as Reschedule leaves it.               *)

AtSpeed(b) ==
    \A i \in Living(b) : b.queue.entries[i].speed = AtLeastOne(SpeedOf(b.units[i]))

LEMMA SpeedOfFits ==
    ASSUME NEW u, Able(u)
    PROVE  SpeedOf(u) \in Int /\ AtLeastOne(SpeedOf(u)) \in 1..Scale
<1>1. Sane(u.statuses) /\ u.base["speed"] \in Int /\ u.base["speed"] <= Ceilings["speed"]
  BY DEF Able, IsBase
<1>2. SpeedOf(u) = StatOf(Terms(u.statuses), "speed", u.base["speed"])
  BY DEF SpeedOf
<1> QED BY <1>1, <1>2, SpeedsFit

LEMMA RescheduledEntry ==
    ASSUME NEW q, Sound(q, Scale), NEW i \in Queued(q), NEW speed \in Int,
           AtLeastOne(speed) \in 1..Scale, NEW e, e = Reschedule(q, i, speed).entries[i]
    PROVE  /\ e \in Entry(Scale) /\ e.speed = AtLeastOne(speed)
           /\ e.turns = q.entries[i].turns /\ e.seq = q.entries[i].seq
           /\ e.next >= q.now /\ (e.next - q.now) * e.speed <= Scale
<1> DEFINE r == Reschedule(q, i, speed)
           f == q.entries[i]
<1>1. Scale \in Nat /\ Scale <= Scale
  BY ScaleAssumption
<1>2. Sound(r, Scale)
  BY <1>1, RescheduleKeeps
<1>3. /\ Queued(r) = Queued(q) /\ r.now = q.now
      /\ e.speed = AtLeastOne(speed) /\ e.turns = f.turns /\ e.seq = f.seq
  <2>1. /\ q = [now |-> q.now, entries |-> q.entries, joined |-> q.joined]
        /\ q.entries = [j \in Queued(q) |-> q.entries[j]]
        /\ f \in Entry(Scale)
    BY DEF Sound, IsQueue
  <2>2. CASE f.speed = AtLeastOne(speed)
    BY <2>2 DEF Reschedule
  <2>3. CASE f.speed # AtLeastOne(speed)
    <3> DEFINE g == [f EXCEPT !.speed = AtLeastOne(speed),
                              !.next = q.now + (Pending(q, i) * f.speed) \div AtLeastOne(speed)]
    <3>1. r = [q EXCEPT !.entries[i] = g]
      BY <2>3 DEF Reschedule
    <3>2. DOMAIN f = {"speed", "next", "turns", "seq"}
      BY <2>1 DEF Entry
    <3>3. g.speed = AtLeastOne(speed) /\ g.turns = f.turns /\ g.seq = f.seq
      BY <3>2
    <3> HIDE DEF g, r
    <3>4. Queued(r) = Queued(q) /\ r.now = q.now /\ r.entries[i] = g
      BY <2>1, <3>1 DEF Queued
    <3> QED BY <3>3, <3>4 DEF r
  <2> QED BY <2>2, <2>3
<1> HIDE DEF r, f
<1>4. e = r.entries[i]
  BY DEF r
<1>5. e \in Entry(Scale) /\ e.next >= q.now /\ (e.next - q.now) * e.speed <= Scale
  BY <1>2, <1>3, <1>4 DEF Sound, IsQueue, WaitsAreOwed, Debt
<1> QED BY <1>3, <1>5 DEF f

LEMMA RetuneKeeps ==
    ASSUME NEW b, NEW x, Mid(b, x), NEW c, c = RetuneAll(b)
    PROVE  Mid(c, x) /\ Frame(b, c) /\ AtSpeed(c) /\ c.finished = b.finished
<1> DEFINE q == b.queue
           E(i) == Reschedule(q, i, SpeedOf(b.units[i])).entries[i]
           entries == [i \in Queued(q) |-> E(i)]
           r == [now |-> q.now, entries |-> entries, joined |-> q.joined]
<1>1. /\ Fielded(b) /\ Lined(b) /\ Sound(q, Scale) /\ Queued(q) = Living(b) /\ b.asked = 0
      /\ q = [now |-> q.now, entries |-> q.entries, joined |-> q.joined]
  BY DEF Mid, Sturdy, Lined, Sound, IsQueue
<1>2. ASSUME NEW i \in Queued(q)
      PROVE  /\ E(i) \in Entry(Scale) /\ E(i).speed = AtLeastOne(SpeedOf(b.units[i]))
             /\ E(i).turns = q.entries[i].turns /\ E(i).seq = q.entries[i].seq
             /\ E(i).next >= q.now /\ (E(i).next - q.now) * E(i).speed <= Scale
  <2>1. Able(b.units[i])
    BY <1>1 DEF Fielded, Living
  <2>2. SpeedOf(b.units[i]) \in Int /\ AtLeastOne(SpeedOf(b.units[i])) \in 1..Scale
    BY <2>1, SpeedOfFits
  <2> HIDE DEF q
  <2> QED BY <1>1, <2>2, RescheduledEntry
<1>3. c = [b EXCEPT !.queue = r]
  BY <1>1 DEF RetuneAll
<1> HIDE DEF E
<1>4. /\ Queued(r) = Queued(q) /\ r.now = q.now /\ r.joined = q.joined
      /\ \A i \in Queued(q) : r.entries[i] = E(i)
  BY DEF Queued
<1>5. r = [now |-> r.now, entries |-> r.entries, joined |-> r.joined]
      /\ r.entries = [i \in Queued(r) |-> r.entries[i]]
  BY DEF Queued
<1> HIDE DEF q, r
<1>6. Sound(r, Scale)
  <2>1. r.now \in Nat /\ r.joined \in Nat
    BY <1>1, <1>4 DEF Sound, IsQueue
  <2>2. \A i \in Queued(r) : r.entries[i] \in Entry(Scale) /\ r.entries[i].seq <= r.joined
    BY <1>1, <1>2, <1>4 DEF Sound, IsQueue
  <2>3. \A i, j \in Queued(r) : i # j => r.entries[i].seq # r.entries[j].seq
    BY <1>1, <1>2, <1>4 DEF Sound, IsQueue
  <2>4. WaitsAreOwed(r)
    BY <1>2, <1>4 DEF WaitsAreOwed, Debt
  <2> QED BY <1>5, <2>1, <2>2, <2>3, <2>4 DEF Sound, IsQueue
<1>7. DOMAIN c = BattleFields /\ c.units = b.units /\ c.asked = 0 /\ c.finished = b.finished
      /\ c.queue = r
  BY <1>1, <1>3 DEF Fielded, BattleFields
<1>8. Fielded(c) /\ Frame(b, c) /\ Living(c) = Living(b) /\ Ids(c) = Ids(b)
  BY <1>1, <1>7 DEF Fielded, Frame, Same, Ids, Living
<1>9. Lined(c)
  BY <1>1, <1>4, <1>6, <1>7, <1>8 DEF Lined
<1>10. \A j \in Ids(b) : Born(b, j) /\ (j \in Living(b) => OnTime(b, j) /\ LivesBy(b, j, x))
  BY DEF Mid, Sturdy, Families
<1>11. \A j \in Ids(c) : Born(c, j)
  BY <1>8, <1>10, FrameFacts
<1>12. ASSUME NEW j \in Living(c) PROVE OnTime(c, j) /\ LivesBy(c, j, x)
  <2>1. j \in Ids(b) /\ j \in Living(b)
    BY <1>8 DEF Living
  <2>2. Born(b, j) /\ OnTime(b, j) /\ LivesBy(b, j, x)
    BY <1>10, <2>1
  <2>3. c.queue.entries[j].turns = b.queue.entries[j].turns
    BY <1>1, <1>2, <1>4, <1>7, <2>1 DEF q
  <2> QED BY <1>8, <2>1, <2>2, <2>3, FrameFacts
<1>13. AtSpeed(c)
  BY <1>1, <1>2, <1>4, <1>7, <1>8 DEF AtSpeed
<1> QED BY <1>7, <1>8, <1>9, <1>11, <1>12, <1>13 DEF Mid, Sturdy, Families
-----------------------------------------------------------------------------
(* A battle in the middle of a call, among the same units as before.       *)
Amid(b, ids) == Mid(b, 0) /\ Ids(b) = ids

LEMMA AmidFacts ==
    ASSUME NEW ids, NEW b, Amid(b, ids)
    PROVE  /\ Mid(b, 0) /\ Fielded(b) /\ Ids(b) = ids /\ \A i \in ids : Able(b.units[i])
           /\ \E n \in Nat : ids = 1..n
<1>1. Fielded(b) /\ Ids(b) = ids /\ Listed(b.units)
  BY DEF Amid, Mid, Sturdy, Fielded
<1>2. Len(b.units) \in Nat /\ ids = 1..Len(b.units)
  BY <1>1, ListedFacts DEF Ids
<1> QED BY <1>1, <1>2 DEF Amid, Fielded

LEMMA TouchAmid ==
    ASSUME NEW ids, NEW b, Amid(b, ids), NEW c, Touch(b, c)
    PROVE  Amid(c, ids)
BY TouchKeeps DEF Amid, Touch, Frame

LEMMA RetuneAmid ==
    ASSUME NEW ids, NEW b, Amid(b, ids)
    PROVE  Amid(RetuneAll(b), ids)
<1>1. Mid(RetuneAll(b), 0) /\ Frame(b, RetuneAll(b))
  BY RetuneKeeps DEF Amid
<1> QED BY <1>1 DEF Amid, Frame

LEMMA KillAmid ==
    ASSUME NEW ids, NEW b, Amid(b, ids), NEW i
    PROVE  Amid(Kill(b, i), ids)
<1> DEFINE s == Struck(b, i)
           c == DismissBound(s, i)
<1>1. Mid(s, i) /\ Ids(s) = ids
  BY StruckLeaves, StruckFacts DEF Amid, Mid, Sturdy
<1> HIDE DEF s
<1>2. Amid(c, ids)
  BY <1>1, DismissBoundKeeps DEF Amid
<1>3. Kill(b, i) = b \/ Kill(b, i) = CheckEnd(c)
  BY DEF Kill, s
<1> HIDE DEF c
<1>4. Amid(CheckEnd(c), ids)
  <2>1. Touch(c, CheckEnd(c))
    BY <1>2, AmidFacts, TouchCheckEnd
  <2> QED BY <1>2, <2>1, TouchAmid
<1> QED BY <1>2, <1>3, <1>4

-----------------------------------------------------------------------------
(* Health, and the gates that open with it.                                *)

LEMMA PassivesAreTyped ==
    ASSUME NEW id \in DOMAIN PassiveBook
    PROVE  PassiveShape(PassiveBook[id])
BY BooksAssumption DEF ValidPassive

LEMMA GrantsAreTyped ==
    ASSUME NEW u, Able(u)
    PROVE  GrantsOf(u) \in Seq([grant : GrantType, gate : GateType])
<1> DEFINE T == [grant : GrantType, gate : GateType]
           P(n) == PassiveBook[u.passives[n]]
           G(n) == [k \in DOMAIN P(n).grants |->
                       [grant |-> P(n).grants[k], gate |-> GateOver(P(n), P(n).grants[k])]]
           all == [n \in DOMAIN u.passives |-> G(n)]
<1>1. u.passives \in Seq(DOMAIN PassiveBook)
  BY DEF Able
<1>2. Listed(u.passives) /\ \A n \in DOMAIN u.passives : u.passives[n] \in DOMAIN PassiveBook
  BY <1>1, SeqIsListed
<1>3. ASSUME NEW n \in DOMAIN u.passives PROVE G(n) \in Seq(T)
  <2>1. PassiveShape(P(n))
    BY <1>2, PassivesAreTyped
  <2> HIDE DEF P
  <2>2. P(n).grants \in Seq(GrantType) /\ P(n).while \in GateType
    BY <2>1 DEF PassiveShape
  <2>3. \A k \in DOMAIN P(n).grants : G(n)[k] \in T
    <3> SUFFICES ASSUME NEW k \in DOMAIN P(n).grants PROVE G(n)[k] \in T
      OBVIOUS
    <3> DEFINE g == P(n).grants[k]
    <3>1. g \in GrantType
      BY <2>2
    <3>2. g.while \in GateType
      BY <3>1 DEF GrantType
    <3> HIDE DEF g
    <3>3. GateOver(P(n), g) \in GateType
      BY <2>2, <3>2 DEF GateOver
    <3>4. [grant |-> g, gate |-> GateOver(P(n), g)] \in T
      BY <3>1, <3>3
    <3> QED BY <3>4 DEF g
  <2>4. Len(P(n).grants) \in Nat /\ DOMAIN G(n) = 1..Len(P(n).grants)
    BY <2>2
  <2> HIDE DEF T
  <2>5. Listed(G(n))
    BY <2>4, MappedIsListed
  <2>6. \A k \in DOMAIN G(n) : G(n)[k] \in T
    BY <2>3
  <2> HIDE DEF G
  <2> QED BY <2>5, <2>6, ListedIsSeq
<1> HIDE DEF T
<1>4. Listed(all)
  <2>1. Len(u.passives) \in Nat /\ DOMAIN all = 1..Len(u.passives)
    BY <1>2, ListedFacts
  <2> QED BY <2>1, MappedIsListed
<1>5. \A n \in DOMAIN all : all[n] \in Seq(T)
  BY <1>3
<1>6. GrantsOf(u) = Flattened(all)
  BY DEF GrantsOf
<1> HIDE DEF all
<1> QED BY <1>4, <1>5, <1>6, FlatIsSeq DEF T

RegatedStep(ctx, acc, g) == Regated(acc, g)
RegatedKeeps(ctx, k, acc) ==
    DOMAIN acc = {"changed", "unit"} /\ Able(acc.unit) /\ Same(ctx, acc.unit)
RegatedFold == INSTANCE Folding WITH Step <- RegatedStep, Keeps <- RegatedKeeps

LEMMA RegatedUnit ==
    ASSUME NEW u, Able(u), NEW moved,
           moved = FoldLeft(Regated, [changed |-> FALSE, unit |-> u], GrantsOf(u))
    PROVE  Able(moved.unit) /\ Same(u, moved.unit)
<1> DEFINE base == [changed |-> FALSE, unit |-> u]
           seq == GrantsOf(u)
           T == [grant : GrantType, gate : GateType]
<1>1. RegatedKeeps(u, 0, base)
  BY DEF RegatedKeeps, Same
<1>2. seq \in Seq(T)
  BY GrantsAreTyped
<1>3. moved = RegatedFold!Fold(u, base, seq)
  BY DEF RegatedStep, RegatedFold!Fold, FoldLeft, MapThenFoldSet,
         RegatedFold!MapThenFoldSet, Max, RegatedFold!Max
<1> HIDE DEF base, seq
<1>4. Len(seq) \in Nat /\ DOMAIN seq = 1..Len(seq) /\ \A k \in 1..Len(seq) : seq[k] \in T
  <2> HIDE DEF T
  <2> QED BY <1>2
<1>5. ASSUME NEW acc, NEW g \in T, NEW k, NEW l, RegatedKeeps(u, k, acc)
      PROVE  RegatedKeeps(u, l, RegatedStep(u, acc, g))
  <2> DEFINE v == acc.unit
             s == Hold(v.statuses, g.grant.status, Granted(v, g.grant), g.grant.stacks)
             r == Release(v.statuses, g.grant.status)
  <2>1. Able(v) /\ Same(u, v) /\ DOMAIN acc = {"changed", "unit"}
    BY <1>5 DEF RegatedKeeps
  <2>2. Sane(v.statuses)
    BY <2>1 DEF Able
  <2>3. g.grant.status \in DOMAIN StatusBook /\ g.grant.stacks \in Nat
    BY DEF GrantType
  <2>4. Regated(acc, g) = acc
        \/ Regated(acc, g) = [changed |-> TRUE, unit |-> [v EXCEPT !.statuses = s]]
        \/ Regated(acc, g) = [changed |-> TRUE, unit |-> [v EXCEPT !.statuses = r]]
    BY DEF Regated
  <2> HIDE DEF v
  <2>5. Sane(s) /\ Sane(r)
    BY <2>2, <2>3, SaneHold, SaneRelease
  <2> HIDE DEF s, r
  <2>6. /\ Able([v EXCEPT !.statuses = s]) /\ Same(v, [v EXCEPT !.statuses = s])
        /\ Able([v EXCEPT !.statuses = r]) /\ Same(v, [v EXCEPT !.statuses = r])
    BY <2>1, <2>5, AbleStatuses
  <2> DEFINE vs == [v EXCEPT !.statuses = s]
             vr == [v EXCEPT !.statuses = r]
  <2> HIDE DEF vs, vr
  <2>7. Able(vs) /\ Same(u, vs) /\ Able(vr) /\ Same(u, vr)
    BY <2>1, <2>6 DEF Same, vs, vr
  <2>8. Regated(acc, g) = acc \/ Regated(acc, g) = [changed |-> TRUE, unit |-> vs]
        \/ Regated(acc, g) = [changed |-> TRUE, unit |-> vr]
    BY <2>4 DEF vs, vr
  <2> QED BY <1>5, <2>7, <2>8 DEF RegatedKeeps, RegatedStep
<1>6. RegatedKeeps(u, Len(seq), RegatedFold!Fold(u, base, seq))
  BY <1>1, <1>4, <1>5, RegatedFold!FoldKeeps
<1> QED BY <1>3, <1>6 DEF RegatedKeeps

LEMMA ReconsiderAmid ==
    ASSUME NEW ids, NEW b, Amid(b, ids), NEW i
    PROVE  Amid(Reconsider(b, i), ids)
<1> DEFINE u == b.units[i]
           moved == FoldLeft(Regated, [changed |-> FALSE, unit |-> u], GrantsOf(u))
           c == [b EXCEPT !.units[i] = moved.unit]
<1>1. i \in Ids(b) => Able(u)
  BY AmidFacts
<1>2. i \in Ids(b) => Able(moved.unit) /\ Same(u, moved.unit)
  BY <1>1, RegatedUnit
<1>3. Reconsider(b, i) = b \/ Reconsider(b, i) = RetuneAll(c)
  BY DEF Reconsider, Moved
<1> HIDE DEF moved
<1>4. Touch(b, c)
  BY <1>2, AmidFacts, TouchUnit
<1> HIDE DEF c
<1>5. Amid(RetuneAll(c), ids)
  BY <1>4, TouchAmid, RetuneAmid
<1> QED BY <1>3, <1>5

LEMMA HpAmid ==
    ASSUME NEW ids, NEW b, Amid(b, ids), NEW i, NEW x
    PROVE  Amid([b EXCEPT !.units[i].hp = x], ids)
<1>1. Touch(b, [b EXCEPT !.units[i].hp = x])
  BY AmidFacts, TouchHp
<1> QED BY <1>1, TouchAmid

LEMMA StatusesAmid ==
    ASSUME NEW ids, NEW b, Amid(b, ids), NEW i, NEW x, i \in ids => Sane(x)
    PROVE  Amid([b EXCEPT !.units[i].statuses = x], ids)
<1>1. Touch(b, [b EXCEPT !.units[i].statuses = x])
  BY AmidFacts, TouchStatuses
<1> QED BY <1>1, TouchAmid

LEMMA HealAmid ==
    ASSUME NEW ids, NEW b, Amid(b, ids), NEW i, NEW amount
    PROVE  Amid(Heal(b, i, amount), ids)
<1> DEFINE x == b.units[i].hp + AtMost(HealingFor(b.units[i], amount), MaxHP(b.units[i]) - b.units[i].hp)
           c == [b EXCEPT !.units[i].hp = x]
<1>1. Heal(b, i, amount) = b \/ Heal(b, i, amount) = Reconsider(c, i)
  BY DEF Heal
<1> HIDE DEF x
<1>2. Amid(c, ids)
  BY HpAmid
<1> HIDE DEF c
<1> QED BY <1>1, <1>2, ReconsiderAmid

LEMMA FedAmid ==
    ASSUME NEW ids, NEW b, Amid(b, ids), NEW i, NEW dealt, NEW share
    PROVE  Amid(Fed(b, i, dealt, share), ids)
BY HealAmid DEF Fed, Drain

LEMMA HurtAmid ==
    ASSUME NEW ids, NEW b, Amid(b, ids), NEW i
    PROVE  Amid(Hurt(b, i), ids)
BY KillAmid, ReconsiderAmid DEF Hurt

LEMMA WoundAmid ==
    ASSUME NEW ids, NEW b, Amid(b, ids), NEW i, NEW damage
    PROVE  Amid(Wound(b, i, damage), ids)
<1> DEFINE x == b.units[i].hp - damage
           c == [b EXCEPT !.units[i].hp = x]
<1>1. Wound(b, i, damage) = Hurt(c, i)
  BY DEF Wound
<1> HIDE DEF x
<1>2. Amid(c, ids)
  BY HpAmid
<1> HIDE DEF c
<1> QED BY <1>1, <1>2, HurtAmid

LEMMA SpendHealthTouch ==
    ASSUME NEW b, Fielded(b), NEW i, NEW known
    PROVE  Touch(b, SpendHealth(b, i, known))
<1> DEFINE x == b.units[i].hp - AtMost(Share(Share(MaxHP(b.units[i]), known.cost),
                                             Base - Spared(b.units[i])), b.units[i].hp - 1)
           c == [b EXCEPT !.units[i].hp = x]
<1>1. SpendHealth(b, i, known) = b \/ SpendHealth(b, i, known) = c
  BY DEF SpendHealth
<1> HIDE DEF x
<1>2. Touch(b, c)
  BY TouchHp
<1> HIDE DEF c
<1> QED BY <1>1, <1>2, TouchSelf

-----------------------------------------------------------------------------
(* Statuses from one unit to another.                                      *)

LEMMA InflictedTouch ==
    ASSUME NEW b, Fielded(b), NEW drawn, NEW target, NEW application \in ApplicationType, NEW amount
    PROVE  Touch(b, Inflicted(b, drawn, target, application, amount))
<1> DEFINE c == [b EXCEPT !.source = drawn.source]
           x == ApplyTimes(c.units[target].statuses, application.status, amount, application.stacks)
           d == [c EXCEPT !.units[target].statuses = x]
<1>1. Touch(b, c)
  BY TouchSource
<1>2. c.units = b.units
  BY DEF Fielded, BattleFields
<1>3. Inflicted(b, drawn, target, application, amount) = c
      \/ Inflicted(b, drawn, target, application, amount) = d
  <2>1. x = ApplyTimes(b.units[target].statuses, application.status, amount, application.stacks)
    BY <1>2
  <2>2. d = [b EXCEPT !.source = drawn.source, !.units[target].statuses = x]
    BY DEF Fielded, BattleFields
  <2> QED BY <2>1, <2>2 DEF Inflicted
<1> HIDE DEF c
<1>4. target \in Ids(c) => Sane(x)
  <2>1. application.status \in DOMAIN StatusBook /\ application.stacks \in Nat
    BY DEF ApplicationType
  <2>2. ASSUME target \in Ids(c) PROVE Sane(c.units[target].statuses)
    BY <1>1, <2>2 DEF Touch, Fielded, Able
  <2> QED BY <2>1, <2>2, SaneApplyTimes
<1> HIDE DEF x
<1>5. Touch(c, d)
  BY <1>1, <1>4, TouchStatuses DEF Touch
<1> HIDE DEF d
<1> QED BY <1>1, <1>3, <1>5, TouchTrans

LEMMA InflictTouch ==
    ASSUME NEW b, Fielded(b), NEW actor, NEW target, NEW from,
           NEW application \in ApplicationType
    PROVE  Touch(b, Inflict(b, actor, target, from, application))
BY TouchSelf, InflictedTouch DEF Inflict, Boosting

InflictStep(ctx, c, application) == Inflict(c, ctx.actor, ctx.target, ctx.from, application)
InflictKeeps(ctx, k, c) == Touch(ctx.b, c)
InflictFold == INSTANCE Folding WITH Step <- InflictStep, Keeps <- InflictKeeps

LEMMA InflictAllTouch ==
    ASSUME NEW b, Fielded(b), NEW actor, NEW target, NEW from,
           NEW applications \in Seq(ApplicationType)
    PROVE  Touch(b, InflictAll(b, actor, target, from, applications))
<1> DEFINE ctx == [b |-> b, actor |-> actor, target |-> target, from |-> from]
<1>1. InflictAll(b, actor, target, from, applications)
         = InflictFold!Fold(ctx, b, applications)
  BY DEF InflictAll, InflictStep, InflictFold!Fold, FoldLeft, MapThenFoldSet,
         InflictFold!MapThenFoldSet, Max, InflictFold!Max
<1>2. ctx.b = b
  OBVIOUS
<1> HIDE DEF ctx
<1>3. InflictKeeps(ctx, 0, b)
  BY <1>2, TouchSelf DEF InflictKeeps
<1>4. ASSUME NEW c, NEW a \in ApplicationType, NEW k, NEW l, InflictKeeps(ctx, k, c)
      PROVE  InflictKeeps(ctx, l, InflictStep(ctx, c, a))
  <2>1. Touch(b, c) /\ Fielded(c)
    BY <1>2, <1>4 DEF InflictKeeps, Touch
  <2>2. Touch(c, InflictStep(ctx, c, a))
    BY <2>1, InflictTouch DEF InflictStep
  <2> QED BY <1>2, <2>1, <2>2, TouchTrans DEF InflictKeeps
<1>5. /\ Len(applications) \in Nat /\ DOMAIN applications = 1..Len(applications)
      /\ \A k \in 1..Len(applications) : applications[k] \in ApplicationType
  OBVIOUS
<1>6. InflictKeeps(ctx, Len(applications), InflictFold!Fold(ctx, b, applications))
  BY <1>3, <1>4, <1>5, InflictFold!FoldKeeps
<1> QED BY <1>1, <1>2, <1>6 DEF InflictKeeps

LEMMA InflictAllAmid ==
    ASSUME NEW ids, NEW b, Amid(b, ids), NEW actor, NEW target, NEW from,
           NEW applications \in Seq(ApplicationType)
    PROVE  Amid(InflictAll(b, actor, target, from, applications), ids)
BY AmidFacts, InflictAllTouch, TouchAmid

-----------------------------------------------------------------------------
(* Traits that answer, and traits that renew.                              *)

LEMMA MarkingAmid ==
    ASSUME NEW ids, NEW b, Amid(b, ids), NEW holder, NEW attacker, NEW p, PassiveShape(p)
    PROVE  Amid(Marking(b, holder, attacker, p), ids)
<1>1. p.replies.applies \in Seq(ApplicationType)
  BY DEF PassiveShape, ReplyType
<1> QED BY <1>1, InflictAllAmid DEF Marking

LEMMA ReplyAmid ==
    ASSUME NEW ids, NEW b, Amid(b, ids), NEW holder, NEW attacker, NEW p, PassiveShape(p)
    PROVE  Amid(Reply(b, holder, attacker, p), ids)
<1> DEFINE damage == ReplyDamage(b.units[holder], b.units[attacker], p)
           c == [b EXCEPT !.units[attacker].hp = Positive(b.units[attacker].hp - damage)]
           d == Fed(c, holder, damage, Lifesteal(c.units[holder]))
           e == Hurt(d, attacker)
<1>1. Reply(b, holder, attacker, p) = Marking(b, holder, attacker, p)
      \/ Reply(b, holder, attacker, p) = Marking(e, holder, attacker, p)
  BY DEF Reply
<1>2. Amid(c, ids)
  BY HpAmid
<1> HIDE DEF c
<1>3. Amid(d, ids)
  BY <1>2, FedAmid
<1> HIDE DEF d
<1>4. Amid(e, ids)
  BY <1>3, HurtAmid
<1> HIDE DEF e
<1> QED BY <1>1, <1>4, MarkingAmid

AnswerStep(ctx, acc, id) == Answering(acc, PassiveBook[id], ctx.actor, ctx.holder)
AnswerKeeps(ctx, k, acc) == Amid(acc.b, ctx.ids)
AnswerFold == INSTANCE Folding WITH Step <- AnswerStep, Keeps <- AnswerKeeps

LEMMA AnswerAmid ==
    ASSUME NEW ids, NEW b, Amid(b, ids), NEW actor, NEW holder, holder \in ids
    PROVE  Amid(Answer(b, actor, holder), ids)
<1> DEFINE ctx == [ids |-> ids, actor |-> actor, holder |-> holder]
           base == [b |-> b, done |-> FALSE]
           seq == b.units[holder].passives
<1>1. Answer(b, actor, holder) = b
      \/ Answer(b, actor, holder) = AnswerFold!Fold(ctx, base, seq).b
  <2>1. FoldLeft(LAMBDA acc, id : Answering(acc, PassiveBook[id], actor, holder), base, seq)
           = AnswerFold!Fold(ctx, base, seq)
    BY DEF AnswerStep, AnswerFold!Fold, FoldLeft, MapThenFoldSet,
           AnswerFold!MapThenFoldSet, Max, AnswerFold!Max
  <2> QED BY <2>1 DEF Answer
<1>2. ctx.ids = ids /\ base.b = b
  OBVIOUS
<1>3. seq \in Seq(DOMAIN PassiveBook)
  BY AmidFacts DEF Able
<1> HIDE DEF ctx, base, seq
<1>4. AnswerKeeps(ctx, 0, base)
  BY <1>2 DEF AnswerKeeps
<1>5. ASSUME NEW acc, NEW id \in DOMAIN PassiveBook, NEW k, NEW l, AnswerKeeps(ctx, k, acc)
      PROVE  AnswerKeeps(ctx, l, AnswerStep(ctx, acc, id))
  <2>1. Amid(acc.b, ids) /\ PassiveShape(PassiveBook[id])
    BY <1>2, <1>5, PassivesAreTyped DEF AnswerKeeps
  <2>2. Amid(Reply(acc.b, ctx.holder, ctx.actor, PassiveBook[id]), ids)
    BY <2>1, ReplyAmid
  <2>3. AnswerStep(ctx, acc, id).b = acc.b
        \/ AnswerStep(ctx, acc, id).b = Reply(acc.b, ctx.holder, ctx.actor, PassiveBook[id])
    BY DEF AnswerStep, Answering, Replied
  <2> QED BY <1>2, <2>1, <2>2, <2>3 DEF AnswerKeeps
<1>6. /\ Len(seq) \in Nat /\ DOMAIN seq = 1..Len(seq)
      /\ \A k \in 1..Len(seq) : seq[k] \in DOMAIN PassiveBook
  BY <1>3
<1>7. AnswerKeeps(ctx, Len(seq), AnswerFold!Fold(ctx, base, seq))
  BY <1>4, <1>5, <1>6, AnswerFold!FoldKeeps
<1> QED BY <1>1, <1>2, <1>7 DEF AnswerKeeps

RenewStep(ctx, c, id) ==
    IF ~InForce(c.units[ctx.i], PassiveBook[id]) THEN c
    ELSE InflictAll(c, ctx.i, ctx.i, FromTrait(PassiveBook[id]), PassiveBook[id].renews)
RenewKeeps(ctx, k, c) == Amid(c, ctx.ids)
RenewFold == INSTANCE Folding WITH Step <- RenewStep, Keeps <- RenewKeeps

LEMMA RenewAmid ==
    ASSUME NEW ids, NEW b, Amid(b, ids), NEW i \in ids
    PROVE  Amid(Renew(b, i), ids)
<1> DEFINE ctx == [ids |-> ids, i |-> i]
           seq == b.units[i].passives
<1>1. Renew(b, i) = b \/ Renew(b, i) = RenewFold!Fold(ctx, b, seq)
  <2>1. FoldLeft(LAMBDA c, id :
                     IF ~InForce(c.units[i], PassiveBook[id]) THEN c
                     ELSE InflictAll(c, i, i, FromTrait(PassiveBook[id]), PassiveBook[id].renews),
                 b, seq)
           = RenewFold!Fold(ctx, b, seq)
    BY DEF RenewStep, RenewFold!Fold, FoldLeft, MapThenFoldSet,
           RenewFold!MapThenFoldSet, Max, RenewFold!Max
  <2> QED BY <2>1 DEF Renew
<1>2. ctx.ids = ids
  OBVIOUS
<1>3. seq \in Seq(DOMAIN PassiveBook)
  BY AmidFacts DEF Able
<1> HIDE DEF ctx, seq
<1>4. RenewKeeps(ctx, 0, b)
  BY <1>2 DEF RenewKeeps
<1>5. ASSUME NEW c, NEW id \in DOMAIN PassiveBook, NEW k, NEW l, RenewKeeps(ctx, k, c)
      PROVE  RenewKeeps(ctx, l, RenewStep(ctx, c, id))
  <2>1. Amid(c, ids) /\ PassiveBook[id].renews \in Seq(ApplicationType)
    BY <1>2, <1>5, PassivesAreTyped DEF RenewKeeps, PassiveShape
  <2> DEFINE d == InflictAll(c, ctx.i, ctx.i, FromTrait(PassiveBook[id]), PassiveBook[id].renews)
  <2>2. Amid(d, ids)
    BY <2>1, InflictAllAmid
  <2>3. RenewStep(ctx, c, id) = c \/ RenewStep(ctx, c, id) = d
    BY DEF RenewStep
  <2> HIDE DEF d
  <2> QED BY <1>2, <2>1, <2>2, <2>3 DEF RenewKeeps
<1>6. /\ Len(seq) \in Nat /\ DOMAIN seq = 1..Len(seq)
      /\ \A k \in 1..Len(seq) : seq[k] \in DOMAIN PassiveBook
  BY <1>3
<1>7. RenewKeeps(ctx, Len(seq), RenewFold!Fold(ctx, b, seq))
  BY <1>4, <1>5, <1>6, RenewFold!FoldKeeps
<1> QED BY <1>1, <1>2, <1>7 DEF RenewKeeps

NurseStep(ctx, c, e) ==
    IF Kind(e.kind).category # "regen" THEN c
    ELSE Heal(c, ctx.i, Total(e.stacks, LAMBDA stack : stack.tick))
NurseKeeps(ctx, k, c) == Amid(c, ctx.ids)
NurseFold == INSTANCE Folding WITH Step <- NurseStep, Keeps <- NurseKeeps

LEMMA NursedAmid ==
    ASSUME NEW ids, NEW b, Amid(b, ids), NEW i, NEW statuses, Listed(statuses)
    PROVE  Amid(Nursed(b, i, statuses), ids)
<1> DEFINE ctx == [ids |-> ids, i |-> i]
<1>1. Nursed(b, i, statuses) = NurseFold!Fold(ctx, b, statuses)
  BY DEF Nursed, NurseStep, NurseFold!Fold, FoldLeft, MapThenFoldSet,
         NurseFold!MapThenFoldSet, Max, NurseFold!Max
<1>2. ctx.ids = ids
  OBVIOUS
<1> HIDE DEF ctx
<1>3. NurseKeeps(ctx, 0, b)
  BY <1>2 DEF NurseKeeps
<1>4. ASSUME NEW c, NEW e, NEW k, NEW l, NurseKeeps(ctx, k, c)
      PROVE  NurseKeeps(ctx, l, NurseStep(ctx, c, e))
  <2> DEFINE d == Heal(c, ctx.i, Total(e.stacks, LAMBDA stack : stack.tick))
  <2>1. Amid(c, ids) /\ Amid(d, ids)
    BY <1>2, <1>4, HealAmid DEF NurseKeeps
  <2>2. NurseStep(ctx, c, e) = c \/ NurseStep(ctx, c, e) = d
    BY DEF NurseStep
  <2> HIDE DEF d
  <2> QED BY <1>2, <2>1, <2>2 DEF NurseKeeps
<1>5. Len(statuses) \in Nat /\ DOMAIN statuses = 1..Len(statuses)
  BY ListedFacts
<1>6. NurseKeeps(ctx, Len(statuses), NurseFold!Fold(ctx, b, statuses))
  BY <1>3, <1>4, <1>5, NurseFold!FoldKeeps
<1> QED BY <1>1, <1>2, <1>6 DEF NurseKeeps

LEMMA TickStatusesAmid ==
    ASSUME NEW ids, NEW b, Amid(b, ids), NEW i \in ids
    PROVE  Amid(TickStatuses(b, i), ids)
<1> DEFINE before == b.units[i].statuses
           aged == [b EXCEPT !.units[i].statuses = Aged(before)]
           c == Nursed(aged, i, before)
           d == Wound(c, i, TickDamage(before))
<1>1. TickStatuses(b, i) = c \/ TickStatuses(b, i) = d
  BY DEF TickStatuses
<1>2. Sane(before)
  BY AmidFacts DEF Able
<1> HIDE DEF before
<1>3. Amid(aged, ids)
  BY <1>2, SaneAged, StatusesAmid
<1> HIDE DEF aged
<1>4. Amid(c, ids)
  BY <1>2, <1>3, NursedAmid DEF Sane
<1> HIDE DEF c
<1>5. Amid(d, ids)
  BY <1>4, WoundAmid
<1> HIDE DEF d
<1> QED BY <1>1, <1>4, <1>5

LEMMA StripAmid ==
    ASSUME NEW ids, NEW b, Amid(b, ids), NEW target, NEW known
    PROVE  Amid(Strip(b, target, known), ids)
<1> DEFINE x == Cleanse(b.units[target].statuses, known.strips.categories, known.strips.stacks)
<1>1. target \in ids => Sane(x)
  BY AmidFacts, SaneCleanse DEF Able
<1>2. Strip(b, target, known) = [b EXCEPT !.units[target].statuses = x]
  BY DEF Strip
<1> HIDE DEF x
<1> QED BY <1>1, <1>2, StatusesAmid

LEMMA RestoreAmid ==
    ASSUME NEW ids, NEW b, Amid(b, ids), NEW actor, NEW target, NEW known, NEW brought, NEW position
    PROVE  Amid(Restore(b, actor, target, known, brought, position), ids)
BY HealAmid DEF Restore

LEMMA SpendKeeps ==
    ASSUME NEW ids, NEW b, Amid(b, ids), NEW i, NEW known
    PROVE  Amid(Spend(b, i, known), ids) /\ Frame(b, Spend(b, i, known))
<1> DEFINE x == Take(b.units[i].statuses, known.selfRequires.status,
                     Takes(known.selfRequires, SeenFor(b.units[i], known.selfRequires).stacks))
           c == [b EXCEPT !.units[i].statuses = x]
           d == RetuneAll(c)
<1>1. Spend(b, i, known) = b \/ Spend(b, i, known) = d
  BY DEF Spend
<1>2. i \in Ids(b) => Sane(x)
  BY AmidFacts, SaneTake DEF Able
<1> HIDE DEF x
<1>3. Touch(b, b) /\ Touch(b, c)
  BY <1>2, AmidFacts, TouchStatuses, TouchSelf
<1> HIDE DEF c
<1>4. Amid(c, ids)
  BY <1>3, TouchAmid
<1>5. Amid(d, ids) /\ Frame(c, d)
  BY <1>4, RetuneKeeps, RetuneAmid DEF Amid
<1> HIDE DEF d
<1>6. Frame(b, d) /\ Frame(b, b)
  BY <1>3, <1>5 DEF Touch, Frame, Same
<1> QED BY <1>1, <1>5, <1>6

-----------------------------------------------------------------------------
(* A discharge.                                                            *)

LEMMA NeighboursAreListed ==
    ASSUME NEW cell
    PROVE  Listed(Neighbours(cell))
<1> DEFINE around == [n \in DOMAIN Around |->
                         Offset(<<Cube(cell)[1] + Step[Around[n]][1],
                                  Cube(cell)[2] + Step[Around[n]][2]>>)]
<1>1. DOMAIN around = 1..6
  BY DEF Around
<1>2. Listed(around)
  BY <1>1, MappedIsListed
<1>3. Neighbours(cell) = Only(around, {near \in ToSet(around) : OnBoard(near)})
  BY DEF Neighbours
<1> HIDE DEF around
<1> QED BY <1>2, <1>3, OnlyListed

ListKeeps(ctx, k, acc) == Listed(acc)
LinkStep(ctx, chain, cell) == Linked(ctx.b, ctx.actor, ctx.known, chain, cell)
LinkFold == INSTANCE Folding WITH Step <- LinkStep, Keeps <- ListKeeps
GrowStep(ctx, chain, n) == Grown(ctx.b, ctx.actor, ctx.known, chain, n)
GrowFold == INSTANCE Folding WITH Step <- GrowStep, Keeps <- ListKeeps

LEMMA InOrderFacts ==
    ASSUME NEW b, Fielded(b)
    PROVE  Listed(InOrder(b)) /\ Len(b.units) \in Nat /\ DOMAIN InOrder(b) = 1..Len(b.units)
<1>1. Len(b.units) \in Nat /\ DOMAIN InOrder(b) = 1..Len(b.units)
  BY ListedFacts DEF Fielded, Ids, InOrder
<1>2. Listed(InOrder(b))
  BY <1>1, MappedIsListed DEF InOrder
<1> QED BY <1>1, <1>2

LEMMA GrownIsListed ==
    ASSUME NEW b, Fielded(b), NEW actor, NEW known, NEW chain, Listed(chain), NEW n
    PROVE  Listed(Grown(b, actor, known, chain, n))
<1> DEFINE ctx == [b |-> b, actor |-> actor, known |-> known]
           cells == Neighbours(b.units[chain[n]].cell)
<1>1. Grown(b, actor, known, chain, n) = chain
      \/ Grown(b, actor, known, chain, n) = LinkFold!Fold(ctx, chain, cells)
  <2>1. FoldLeft(LAMBDA links, cell : Linked(b, actor, known, links, cell), chain, cells)
           = LinkFold!Fold(ctx, chain, cells)
    BY DEF LinkStep, LinkFold!Fold, FoldLeft, MapThenFoldSet, LinkFold!MapThenFoldSet,
           Max, LinkFold!Max
  <2> QED BY <2>1 DEF Grown
<1>2. ctx.b = b
  OBVIOUS
<1>3. Listed(cells)
  BY NeighboursAreListed
<1> HIDE DEF ctx, cells
<1>4. ListKeeps(ctx, 0, chain)
  BY DEF ListKeeps
<1>5. ASSUME NEW acc, NEW cell, NEW k, NEW l, ListKeeps(ctx, k, acc)
      PROVE  ListKeeps(ctx, l, LinkStep(ctx, acc, cell))
  BY <1>2, <1>5, InOrderFacts, OnlyListed, ConcatIsListed DEF ListKeeps, LinkStep, Linked
<1>6. Len(cells) \in Nat /\ DOMAIN cells = 1..Len(cells)
  BY <1>3, ListedFacts
<1>7. ListKeeps(ctx, Len(cells), LinkFold!Fold(ctx, chain, cells))
  BY <1>4, <1>5, <1>6, LinkFold!FoldKeeps
<1> QED BY <1>1, <1>7 DEF ListKeeps

LEMMA ChainIsListed ==
    ASSUME NEW b, Fielded(b), NEW actor, NEW known, NEW aim
    PROVE  Listed(ChainFrom(b, actor, known, aim))
<1> DEFINE seq == InOrder(b)
           ctx == [b |-> b, actor |-> actor, known |-> known]
           head == Only(seq, {j \in Occupant(b, aim) : Sparks(b, known, j)})
<1>1. ChainFrom(b, actor, known, aim) = head
      \/ ChainFrom(b, actor, known, aim) = GrowFold!Fold(ctx, head, seq)
  <2>1. FoldLeft(LAMBDA chain, n : Grown(b, actor, known, chain, n), head, seq)
           = GrowFold!Fold(ctx, head, seq)
    BY DEF GrowStep, GrowFold!Fold, FoldLeft, MapThenFoldSet, GrowFold!MapThenFoldSet,
           Max, GrowFold!Max
  <2> QED BY <2>1 DEF ChainFrom
<1>2. ctx.b = b
  OBVIOUS
<1>3. Listed(seq) /\ Len(b.units) \in Nat /\ DOMAIN seq = 1..Len(b.units)
  BY InOrderFacts
<1> HIDE DEF seq, ctx
<1>4. Listed(head)
  BY <1>3, OnlyListed
<1> HIDE DEF head
<1>5. ListKeeps(ctx, 0, head)
  BY <1>4 DEF ListKeeps
<1>6. ASSUME NEW chain, NEW n, NEW k, NEW l, ListKeeps(ctx, k, chain)
      PROVE  ListKeeps(ctx, l, GrowStep(ctx, chain, n))
  BY <1>2, <1>6, GrownIsListed DEF ListKeeps, GrowStep
<1>7. ListKeeps(ctx, Len(b.units), GrowFold!Fold(ctx, head, seq))
  BY <1>3, <1>5, <1>6, GrowFold!FoldKeeps
<1> QED BY <1>1, <1>4, <1>7 DEF ListKeeps

LEMMA SparkAmid ==
    ASSUME NEW ids, NEW acc, DOMAIN acc = {"b", "dealt"}, Amid(acc.b, ids), NEW j, NEW actor, NEW known
    PROVE  /\ Amid(Spark(acc, j, actor, known).b, ids)
           /\ DOMAIN Spark(acc, j, actor, known) = {"b", "dealt"}
<1> DEFINE status == known.requires.status
           u == acc.b.units[j]
           held == Removed(u.statuses, status, Takes(known.requires, Stacks(u.statuses, status)))
           x == Take(u.statuses, status, held)
           spent == [acc.b EXCEPT !.units[j].statuses = x]
           amount == Damage(Scaling(spent.units[actor], known.scaling),
                            Current(spent.units[j]).defense, known.requires.arcPower * held,
                            MultiplierAgainst(known.element, u.affinity))
           hurt == Wound(spent, j, amount)
           r == Spark(acc, j, actor, known)
<1>1. j \in ids => Sane(x)
  BY AmidFacts, SaneTake, SMTT(40) DEF Able
<1>2. r = acc \/ r = [acc EXCEPT !.b = spent] \/ r = Sparked(acc, hurt, j)
  BY DEF Spark
<1> HIDE DEF x
<1>3. Amid(spent, ids)
  BY <1>1, StatusesAmid
<1> HIDE DEF spent, amount, r
<1>4. Amid(hurt, ids)
  BY <1>3, WoundAmid
<1> HIDE DEF hurt
<1>5. Amid(r.b, ids) /\ DOMAIN r = {"b", "dealt"}
  BY <1>2, <1>3, <1>4 DEF Sparked
<1> QED BY <1>5 DEF r

SparkStep(ctx, acc, j) == Spark(acc, j, ctx.actor, ctx.known)
SparkKeeps(ctx, k, acc) == DOMAIN acc = {"b", "dealt"} /\ Amid(acc.b, ctx.ids)
SparkFold == INSTANCE Folding WITH Step <- SparkStep, Keeps <- SparkKeeps

LEMMA DischargeAmid ==
    ASSUME NEW ids, NEW b, Amid(b, ids), NEW actor, NEW known, NEW aim
    PROVE  Amid(Discharge(b, actor, known, aim).b, ids)
<1> DEFINE ctx == [ids |-> ids, actor |-> actor, known |-> known]
           base == [b |-> b, dealt |-> 0]
           seq == ChainFrom(b, actor, known, aim)
<1>1. Discharge(b, actor, known, aim) = SparkFold!Fold(ctx, base, seq)
  BY DEF Discharge, SparkStep, SparkFold!Fold, FoldLeft, MapThenFoldSet,
         SparkFold!MapThenFoldSet, Max, SparkFold!Max
<1>2. ctx.ids = ids /\ base.b = b /\ DOMAIN base = {"b", "dealt"}
  OBVIOUS
<1>3. Listed(seq)
  BY AmidFacts, ChainIsListed
<1> HIDE DEF ctx, base, seq
<1>4. SparkKeeps(ctx, 0, base)
  BY <1>2 DEF SparkKeeps
<1>5. ASSUME NEW acc, NEW j, NEW k, NEW l, SparkKeeps(ctx, k, acc)
      PROVE  SparkKeeps(ctx, l, SparkStep(ctx, acc, j))
  BY <1>5, SparkAmid DEF SparkKeeps, SparkStep
<1>6. Len(seq) \in Nat /\ DOMAIN seq = 1..Len(seq)
  BY <1>3, ListedFacts
<1>7. SparkKeeps(ctx, Len(seq), SparkFold!Fold(ctx, base, seq))
  BY <1>4, <1>5, <1>6, SparkFold!FoldKeeps
<1> QED BY <1>1, <1>2, <1>7 DEF SparkKeeps

-----------------------------------------------------------------------------
(* A skill against one target.                                             *)

AgainStep(ctx, acc, n) == Again(ctx, acc, n)
AgainKeeps(ctx, k, acc) == acc.count \in Int
AgainFold == INSTANCE Folding WITH Step <- AgainStep, Keeps <- AgainKeeps

LEMMA CountIsInt ==
    ASSUME NEW hit, hit.strikes \in Nat, hit.maxStrikes \in Nat, NEW source
    PROVE  RollStrikes(hit, source).count \in Int
<1> DEFINE least == IF hit.strikes < 1 THEN 1 ELSE hit.strikes
           base == [count |-> least, source |-> source, done |-> hit.repeat <= 0]
           seq == [i \in 1..(hit.maxStrikes - least) |-> least + i]
           n == IF hit.maxStrikes < least THEN 0 ELSE hit.maxStrikes - least
<1>1. RollStrikes(hit, source) = AgainFold!Fold(hit, base, seq)
  BY DEF RollStrikes, AgainStep, AgainFold!Fold, FoldLeft, MapThenFoldSet,
         AgainFold!MapThenFoldSet, Max, AgainFold!Max
<1>2. least \in Nat /\ n \in Nat /\ 1..(hit.maxStrikes - least) = 1..n
  OBVIOUS
<1>3. DOMAIN seq = 1..n /\ \A k \in 1..n : seq[k] \in Int
  BY <1>2
<1>4. base.count \in Int
  BY <1>2
<1> HIDE DEF base, seq, n, least
<1>5. AgainKeeps(hit, 0, base)
  BY <1>4 DEF AgainKeeps
<1>6. ASSUME NEW acc, NEW i \in Int, NEW k, NEW l, AgainKeeps(hit, k, acc)
      PROVE  AgainKeeps(hit, l, AgainStep(hit, acc, i))
  BY <1>6 DEF AgainKeeps, AgainStep, Again
<1>7. AgainKeeps(hit, n, AgainFold!Fold(hit, base, seq))
  BY <1>2, <1>3, <1>5, <1>6, AgainFold!FoldKeeps
<1> QED BY <1>1, <1>7 DEF AgainKeeps

RollStep(ctx, acc, n) == Attempt(acc, ctx, Draw(acc.source, Chance(ctx)))
RollKeeps(ctx, k, acc) == DOMAIN acc = {"source", "blocks", "attempts"} /\ Listed(acc.attempts)
RollFold == INSTANCE Folding WITH Step <- RollStep, Keeps <- RollKeeps

LEMMA AttemptsAreListed ==
    ASSUME NEW hit, hit.strikes \in Nat, hit.maxStrikes \in Nat, NEW blocks, NEW source
    PROVE  Listed(Roll(hit, blocks, source).attempts)
<1> DEFINE count == RollStrikes(hit, source)
           base == [source |-> count.source, blocks |-> blocks, attempts |-> <<>>]
           seq == [i \in 1..count.count |-> i]
           n == IF count.count < 0 THEN 0 ELSE count.count
<1>1. Roll(hit, blocks, source) = RollFold!Fold(hit, base, seq)
  BY DEF Roll, RollCounted, RollStep, RollFold!Fold, FoldLeft, MapThenFoldSet,
         RollFold!MapThenFoldSet, Max, RollFold!Max
<1>2. count.count \in Int
  BY CountIsInt
<1> HIDE DEF count
<1>3. n \in Nat /\ DOMAIN seq = 1..n
  BY <1>2
<1>4. RollKeeps(hit, 0, base)
  BY EmptyIsListed DEF RollKeeps
<1> HIDE DEF base, seq, n
<1>5. ASSUME NEW acc, NEW i, NEW k, NEW l, RollKeeps(hit, k, acc)
      PROVE  RollKeeps(hit, l, RollStep(hit, acc, i))
  <2>1. ASSUME NEW from, NEW outcome, NEW damage
        PROVE  RollKeeps(hit, l, Tried(acc, from, outcome, damage))
    <3> DEFINE x == Append(acc.attempts, [outcome |-> outcome, damage |-> damage])
    <3>1. Listed(x)
      BY <1>5, AppendFacts DEF RollKeeps
    <3>2. DOMAIN Tried(acc, from, outcome, damage) = {"source", "blocks", "attempts"}
          /\ Tried(acc, from, outcome, damage).attempts = x
      BY <1>5 DEF RollKeeps, Tried
    <3> QED BY <3>1, <3>2 DEF RollKeeps
  <2>2. ASSUME NEW landed PROVE RollKeeps(hit, l, Attempt(acc, hit, landed))
    BY <2>1 DEF Attempt, Connected
  <2> QED BY <2>2 DEF RollStep
<1>6. RollKeeps(hit, n, RollFold!Fold(hit, base, seq))
  BY <1>3, <1>4, <1>5, RollFold!FoldKeeps
<1> QED BY <1>1, <1>6 DEF RollKeeps

AbsorbStep(ctx, acc, attempt) == Eaten(acc, attempt, AtMost(attempt.damage, acc.pool))
AbsorbKeeps(ctx, k, acc) == Listed(acc.attempts)
AbsorbFold == INSTANCE Folding WITH Step <- AbsorbStep, Keeps <- AbsorbKeeps

LEMMA AbsorbedAreListed ==
    ASSUME NEW attempts, Listed(attempts), NEW pool
    PROVE  Listed(Absorb(attempts, pool).attempts)
<1> DEFINE base == [pool |-> Positive(pool), attempts |-> <<>>]
<1>1. Absorb(attempts, pool) = AbsorbFold!Fold(0, base, attempts)
  BY DEF Absorb, AbsorbStep, AbsorbFold!Fold, FoldLeft, MapThenFoldSet,
         AbsorbFold!MapThenFoldSet, Max, AbsorbFold!Max
<1>2. AbsorbKeeps(0, 0, base)
  BY EmptyIsListed DEF AbsorbKeeps
<1> HIDE DEF base
<1>3. ASSUME NEW acc, NEW attempt, NEW k, NEW l, AbsorbKeeps(0, k, acc)
      PROVE  AbsorbKeeps(0, l, AbsorbStep(0, acc, attempt))
  BY <1>3, AppendFacts DEF AbsorbKeeps, AbsorbStep, Eaten
<1>4. Len(attempts) \in Nat /\ DOMAIN attempts = 1..Len(attempts)
  BY ListedFacts
<1>5. AbsorbKeeps(0, Len(attempts), AbsorbFold!Fold(0, base, attempts))
  BY <1>2, <1>3, <1>4, AbsorbFold!FoldKeeps
<1> QED BY <1>1, <1>5 DEF AbsorbKeeps

LEMMA AnsweredAmid ==
    ASSUME NEW ids, NEW b, Amid(b, ids), NEW actor, NEW target \in ids, NEW attempt, NEW dealt, NEW known
    PROVE  Amid(Answered(b, actor, target, attempt, dealt, known), ids)
<1> DEFINE fed == Fed(b, actor, dealt, known.drains + Lifesteal(b.units[actor]))
<1>1. Amid(fed, ids)
  BY FedAmid
<1>2. Answered(b, actor, target, attempt, dealt, known) = fed
      \/ Answered(b, actor, target, attempt, dealt, known) = Answer(fed, actor, target)
  BY DEF Answered
<1> HIDE DEF fed
<1> QED BY <1>1, <1>2, AnswerAmid

BlowFields == {"b", "out", "done", "connected", "blocked"}
StruckOn(acc, ids) == DOMAIN acc = BlowFields /\ Amid(acc.b, ids)

LEMMA StrikeOnceAmid ==
    ASSUME NEW ids, NEW acc, StruckOn(acc, ids), NEW attempt, NEW actor, NEW target \in ids,
           NEW known, NEW aim, NEW conduit
    PROVE  StruckOn(StrikeOnce(acc, attempt, actor, target, known, aim, conduit), ids)
<1> DEFINE x == IF attempt.outcome = "struck" THEN Positive(acc.b.units[target].hp - attempt.damage)
                ELSE acc.b.units[target].hp
           hit == [acc.b EXCEPT !.units[target].hp = x]
           shoots == conduit /\ attempt.outcome # "missed"
           shot == IF shoots THEN Discharge(hit, actor, known, aim) ELSE [b |-> hit, dealt |-> 0]
           c == IF attempt.outcome = "struck" THEN Reconsider(shot.b, target) ELSE shot.b
           d == Answered(c, actor, target, attempt, attempt.damage + shot.dealt, known)
           r == StrikeOnce(acc, attempt, actor, target, known, aim, conduit)
<1>1. r = acc \/ r = [acc EXCEPT !.b = shot.b, !.out = TRUE, !.done = TRUE]
      \/ r = Outcome(acc, attempt, d, actor, target)
  BY DEF StrikeOnce, AfterShot
<1> HIDE DEF r, x
<1>2. Amid(hit, ids)
  BY HpAmid DEF StruckOn
<1> HIDE DEF hit, shoots
<1>3. Amid(shot.b, ids)
  BY <1>2, DischargeAmid
<1> HIDE DEF shot
<1>4. Amid(c, ids)
  BY <1>3, ReconsiderAmid
<1> HIDE DEF c
<1>5. Amid(d, ids)
  BY <1>4, AnsweredAmid
<1> HIDE DEF d
<1> DEFINE e == Outcome(acc, attempt, d, actor, target)
           f == [acc EXCEPT !.b = shot.b, !.out = TRUE, !.done = TRUE]
<1>6. DOMAIN e = BlowFields /\ e.b = d
  BY DEF BlowFields, Outcome
<1>7. DOMAIN f = BlowFields /\ f.b = shot.b
  BY DEF BlowFields, StruckOn
<1> HIDE DEF e, f
<1>8. StruckOn(r, ids)
  BY <1>1, <1>3, <1>5, <1>6, <1>7 DEF StruckOn, e, f
<1> QED BY <1>8, SMTT(40) DEF r

StrikeStep(ctx, acc, attempt) ==
    StrikeOnce(acc, attempt, ctx.actor, ctx.target, ctx.known, ctx.aim, ctx.conduit)
StrikeKeeps(ctx, k, acc) == StruckOn(acc, ctx.ids)
StrikeFold == INSTANCE Folding WITH Step <- StrikeStep, Keeps <- StrikeKeeps

LEMMA StrikesAmid ==
    ASSUME NEW ids, NEW b, Amid(b, ids), NEW actor, NEW target \in ids, NEW known, NEW aim,
           NEW conduit, NEW hit, hit.strikes \in Nat, hit.maxStrikes \in Nat
    PROVE  Amid(Strikes(b, actor, target, known, aim, conduit, hit).b, ids)
<1> DEFINE held == b.units[target].statuses
           charges == IF known.unblockable THEN 0 ELSE Stacks(held, Block)
           rolled == Roll(hit, charges, b.source)
           guard == IF known.unblockable THEN 0 ELSE PoolIn(held, "absorb")
           absorbed == Absorb(rolled.attempts, guard)
           x == SpendPool(Take(held, Block, charges - rolled.blocks), "absorb",
                          guard - absorbed.pool)
           drawn == [b EXCEPT !.source = rolled.source]
           met == [drawn EXCEPT !.units[target].statuses = x]
           base == [b |-> met, out |-> FALSE, done |-> FALSE, connected |-> FALSE, blocked |-> FALSE]
           ctx == [ids |-> ids, actor |-> actor, target |-> target, known |-> known, aim |-> aim,
                   conduit |-> conduit]
           seq == absorbed.attempts
<1>1. Fielded(b)
  BY AmidFacts
<1>2. met = [b EXCEPT !.source = rolled.source, !.units[target].statuses = x]
  BY <1>1 DEF Fielded, BattleFields
<1>3. Listed(seq)
  BY AttemptsAreListed, AbsorbedAreListed
<1>4. Sane(x)
  BY AmidFacts, SaneTake, SaneSpendPool DEF Able
<1>5. Strikes(b, actor, target, known, aim, conduit, hit) = StrikeFold!Fold(ctx, base, seq)
  <2>1. FoldLeft(LAMBDA acc, attempt :
                     StrikeOnce(acc, attempt, actor, target, known, aim, conduit), base, seq)
           = StrikeFold!Fold(ctx, base, seq)
    <3> HIDE DEF base, seq
    <3> QED BY DEF StrikeStep, StrikeFold!Fold, FoldLeft, MapThenFoldSet,
                   StrikeFold!MapThenFoldSet, Max, StrikeFold!Max
  <2>2. Strikes(b, actor, target, known, aim, conduit, hit)
          = FoldLeft(LAMBDA acc, attempt :
                         StrikeOnce(acc, attempt, actor, target, known, aim, conduit), base, seq)
    <3> HIDE DEF met
    <3> QED BY <1>2 DEF Strikes
  <2> HIDE DEF base, seq, ctx
  <2> QED BY <2>1, <2>2
<1> HIDE DEF x, seq, absorbed, guard, charges, held
<1>6. Touch(b, drawn)
  BY <1>1, TouchSource
<1> HIDE DEF drawn, rolled
<1>7. Amid(met, ids)
  BY <1>4, <1>6, TouchAmid, StatusesAmid
<1>8. ctx.ids = ids /\ ctx.target = target /\ base.b = met /\ DOMAIN base = BlowFields
  BY DEF BlowFields
<1> HIDE DEF met, base, ctx
<1>9. StrikeKeeps(ctx, 0, base)
  BY <1>7, <1>8 DEF StrikeKeeps, StruckOn
<1>10. ASSUME NEW acc, NEW attempt, NEW k, NEW l, StrikeKeeps(ctx, k, acc)
       PROVE  StrikeKeeps(ctx, l, StrikeStep(ctx, acc, attempt))
  BY <1>8, <1>10, StrikeOnceAmid DEF StrikeKeeps, StrikeStep
<1>11. Len(seq) \in Nat /\ DOMAIN seq = 1..Len(seq)
  BY <1>3, ListedFacts
<1>12. StrikeKeeps(ctx, Len(seq), StrikeFold!Fold(ctx, base, seq))
  BY <1>9, <1>10, <1>11, StrikeFold!FoldKeeps
<1> QED BY <1>5, <1>8, <1>12 DEF StrikeKeeps, StruckOn

LEMMA SkillsAreTyped ==
    ASSUME NEW id \in DOMAIN SkillBook
    PROVE  SkillBook[id] \in SkillType /\ ValidSummons(SkillBook[id].summons)
BY BooksAssumption DEF ValidSkill

LEMMA SkillFields ==
    ASSUME NEW known \in SkillType
    PROVE  /\ known.strikes \in Nat /\ known.maxStrikes \in Nat
           /\ known.applies \in Seq(ApplicationType) /\ known.selfApplies \in Seq(ApplicationType)
           /\ known.requires.applies \in Seq(ApplicationType)
           /\ known.pattern \in DOMAIN Pattern /\ known.summons \in SummonType
<1>1. known.requires \in ConditionType
  BY DEF SkillType
<1>2. known.requires.applies \in Seq(ApplicationType)
  BY <1>1 DEF ConditionType
<1>3. /\ known.strikes \in Nat /\ known.maxStrikes \in Nat
      /\ known.pattern \in DOMAIN Pattern /\ known.summons \in SummonType
  BY DEF SkillType
<1>4. known.applies \in Seq(ApplicationType) /\ known.selfApplies \in Seq(ApplicationType)
  BY DEF SkillType
<1> QED BY <1>2, <1>3, <1>4

LEMMA BlowAmid ==
    ASSUME NEW ids, NEW b, Amid(b, ids), NEW actor, NEW target \in ids, NEW known \in SkillType,
           NEW aim, NEW conduit, NEW power
    PROVE  Amid(Blow(b, actor, target, known, aim, conduit, power).b, ids)
<1> DEFINE hit == HitOf(b, actor, target, known, power)
           struck == Strikes(b, actor, target, known, aim, conduit, hit)
           c == [b EXCEPT !.source = Draw(b.source, Chance(hit)).source]
<1>1. hit.strikes \in Nat /\ hit.maxStrikes \in Nat
  BY SkillFields DEF HitOf
<1>2. Blow(b, actor, target, known, aim, conduit, power).b = struck.b
      \/ Blow(b, actor, target, known, aim, conduit, power).b = c
  BY DEF Blow
<1> HIDE DEF hit
<1>3. Amid(struck.b, ids)
  BY <1>1, StrikesAmid
<1> HIDE DEF struck
<1>4. Amid(c, ids)
  <2>1. Touch(b, c)
    BY AmidFacts, TouchSource
  <2> HIDE DEF c
  <2> QED BY <2>1, TouchAmid
<1> HIDE DEF c
<1> QED BY <1>2, <1>3, <1>4

\* What the traits of a unit put on whoever it hits.
LEMMA RidersAreTyped ==
    ASSUME NEW u, Able(u)
    PROVE  Riders(u) \in Seq(ApplicationType)
<1> DEFINE traits == [n \in DOMAIN u.passives |-> PassiveBook[u.passives[n]]]
           force == TraitsInForce(u)
           all == [n \in DOMAIN force |-> force[n].applies]
<1>1. u.passives \in Seq(DOMAIN PassiveBook)
  BY DEF Able
<1>2. /\ Len(u.passives) \in Nat /\ DOMAIN traits = 1..Len(u.passives)
      /\ \A n \in DOMAIN traits : u.passives[n] \in DOMAIN PassiveBook
  BY <1>1
<1>3. Listed(traits)
  BY <1>2, MappedIsListed
<1>4. \A p \in ToSet(traits) : PassiveShape(p)
  BY <1>2, PassivesAreTyped DEF ToSet
<1>5. force = Only(traits, {p \in ToSet(traits) : InForce(u, p)})
  BY DEF TraitsInForce
<1> HIDE DEF traits
<1>6. Listed(force) /\ \A n \in DOMAIN force : force[n] \in ToSet(traits)
  BY <1>3, <1>5, OnlyListed
<1> HIDE DEF force
<1>7. \A n \in DOMAIN force : force[n].applies \in Seq(ApplicationType)
  BY <1>4, <1>6 DEF PassiveShape
<1>8. Listed(all)
  <2>1. Len(force) \in Nat /\ DOMAIN all = 1..Len(force)
    BY <1>6, ListedFacts
  <2> QED BY <2>1, MappedIsListed
<1>9. Riders(u) = Flattened(all)
  BY DEF Riders, force
<1>10. \A n \in DOMAIN all : all[n] \in Seq(ApplicationType)
  BY <1>7
<1> HIDE DEF all
<1> QED BY <1>8, <1>9, <1>10, FlatIsSeq

LEMMA MarkedAmid ==
    ASSUME NEW ids, NEW blow, Amid(blow.b, ids), NEW actor \in ids, NEW target, NEW known,
           NEW carried \in Seq(ApplicationType), NEW power
    PROVE  Amid(Marked(blow, actor, target, known, carried, power), ids)
<1> DEFINE Rides(app) == blow.connected \/ OutlastsAShield(Kind(app.status).category)
           Riding(apps) == Only(apps, {app \in ToSet(apps) : Rides(app)})
           Mark(b, apps) == InflictAll(b, actor, target, FromSkill(known), Riding(apps))
           c == Mark(blow.b, carried)
           d == Mark(c, Riders(c.units[actor]))
           r == Marked(blow, actor, target, known, carried, power)
<1>1. r = blow.b \/ r = c \/ r = d
  BY DEF Marked
<1>2. ASSUME NEW b, Amid(b, ids), NEW apps \in Seq(ApplicationType)
      PROVE  Amid(Mark(b, apps), ids)
  <2> DEFINE set == {app \in ToSet(apps) : Rides(app)}
  <2>1. Only(apps, set) \in Seq(ApplicationType \cap set)
    BY OnlyIsSeq
  <2>2. Riding(apps) = Only(apps, set)
    OBVIOUS
  <2> HIDE DEF set, Riding
  <2>3. Riding(apps) \in Seq(ApplicationType)
    BY <2>1, <2>2
  <2> QED BY <1>2, <2>3, InflictAllAmid
<1> HIDE DEF Mark, r
<1>3. Amid(c, ids)
  BY <1>2
<1> HIDE DEF c
<1>4. Riders(c.units[actor]) \in Seq(ApplicationType)
  BY <1>3, AmidFacts, RidersAreTyped
<1>5. Amid(d, ids)
  BY <1>2, <1>3, <1>4
<1> HIDE DEF d
<1>6. Amid(r, ids)
  BY <1>1, <1>3, <1>5
<1> QED BY <1>6 DEF r

LEMMA ResolveAmid ==
    ASSUME NEW ids, NEW b, Amid(b, ids), NEW actor \in ids, NEW target \in ids,
           NEW known \in SkillType, NEW position, NEW aim, NEW brought
    PROVE  Amid(ResolveAgainst(b, actor, target, known, position, aim, brought), ids)
<1> DEFINE stripped == Strip(b, target, known)
           condition == known.requires
           seen == SeenFor(stripped.units[target], condition)
           amplified == position = 1 /\ Amplified(known, seen)
           conduit == amplified /\ condition.arcPower > 0
           x == Take(stripped.units[target].statuses, condition.status, Takes(condition, seen.stacks))
           taken1 == [stripped EXCEPT !.units[target].statuses = x]
           eased == IF amplified /\ condition.consume /\ ~conduit THEN taken1 ELSE stripped
           swung == Swung(IF amplified THEN PowerAgainst(known, seen) ELSE known.power,
                          brought.bonus, brought.share)
           power == IF position > 1 THEN Scaled(swung, SplashPower) ELSE swung
           carried == known.applies \o (IF amplified THEN condition.applies ELSE <<>>)
           blow == Blow(eased, actor, target, known, aim, conduit, power)
           marked == Marked(blow, actor, target, known, carried, power)
           restored == Restore(marked, actor, target, known, brought, position)
           r == ResolveAgainst(b, actor, target, known, position, aim, brought)
<1>1. r = blow.b \/ r = Felled(restored, target)
  BY DEF ResolveAgainst
<1> HIDE DEF r
<1>2. Amid(stripped, ids)
  BY StripAmid
<1> HIDE DEF stripped
<1>3. Sane(x)
  BY <1>2, AmidFacts, SaneTake DEF Able
<1> HIDE DEF x
<1>4. Amid(taken1, ids)
  BY <1>2, <1>3, StatusesAmid
<1> HIDE DEF taken1
<1>5. Amid(eased, ids)
  BY <1>2, <1>4
<1> HIDE DEF eased
<1>6. known.applies \in Seq(ApplicationType) /\ condition.applies \in Seq(ApplicationType)
  BY SkillFields
<1>7. carried \in Seq(ApplicationType)
  BY <1>6
<1> HIDE DEF carried, power, conduit
<1>8. Amid(blow.b, ids)
  BY <1>5, BlowAmid
<1> HIDE DEF blow
<1>9. Amid(marked, ids)
  BY <1>7, <1>8, MarkedAmid
<1> HIDE DEF marked
<1>10. Amid(restored, ids)
  BY <1>9, RestoreAmid
<1> HIDE DEF restored
<1>11. Amid(Felled(restored, target), ids)
  BY <1>10, KillAmid DEF Felled
<1>12. Amid(r, ids)
  BY <1>1, <1>8, <1>11
<1> QED BY <1>12 DEF r

CoverStep(ctx, cells, chain) ==
    LET cell == Walk(ctx.side, ctx.primary, chain)
    IN  IF /\ OnBoard(cell) /\ ~Contains(cells, cell)
           /\ ctx.across \/ SideOf(cell) = SideOf(ctx.primary)
        THEN Append(cells, cell) ELSE cells
CoverFold == INSTANCE Folding WITH Step <- CoverStep, Keeps <- ListKeeps

LEMMA CoveredAreListed ==
    ASSUME NEW splash, Listed(splash), NEW primary, NEW across, NEW side
    PROVE  Listed(Covered(splash, primary, across, side))
<1> DEFINE ctx == [side |-> side, primary |-> primary, across |-> across]
           base == <<primary>>
<1>1. Covered(splash, primary, across, side) = CoverFold!Fold(ctx, base, splash)
  BY DEF Covered, CoverStep, CoverFold!Fold, FoldLeft, MapThenFoldSet,
         CoverFold!MapThenFoldSet, Max, CoverFold!Max
<1>2. Listed(base)
  <2>1. base \in Seq({primary})
    OBVIOUS
  <2> QED BY ONLY <2>1, SeqIsListed
<1> HIDE DEF ctx, base
<1>3. ListKeeps(ctx, 0, base)
  BY <1>2 DEF ListKeeps
<1>4. ASSUME NEW acc, NEW chain, NEW k, NEW l, ListKeeps(ctx, k, acc)
      PROVE  ListKeeps(ctx, l, CoverStep(ctx, acc, chain))
  BY <1>4, AppendFacts DEF ListKeeps, CoverStep
<1>5. Len(splash) \in Nat /\ DOMAIN splash = 1..Len(splash)
  BY ListedFacts
<1>6. ListKeeps(ctx, Len(splash), CoverFold!Fold(ctx, base, splash))
  BY <1>3, <1>4, <1>5, CoverFold!FoldKeeps
<1> QED BY <1>1, <1>6 DEF ListKeeps

LandStep(ctx, acc, n) ==
    StrikeCell(acc, ctx.i, ctx.known, ctx.cells[n], n, ctx.aim, ctx.brought)
LandKeeps(ctx, k, acc) == Amid(acc.b, ctx.ids)
LandFold == INSTANCE Folding WITH Step <- LandStep, Keeps <- LandKeeps

LEMMA LandedKeeps ==
    ASSUME NEW ids, NEW b, Amid(b, ids), NEW i \in ids, NEW known \in SkillType, NEW aim, NEW brought
    PROVE  \E c : Amid(c, ids) /\ Landed(b, i, known, aim, brought) = Over(c)
<1> DEFINE cells == Covered(Pattern[known.pattern], aim, known.target = "all", b.units[i].side)
           ctx == [ids |-> ids, i |-> i, known |-> known, cells |-> cells, aim |-> aim,
                   brought |-> brought]
           base == [b |-> b, done |-> FALSE]
           seq == [n \in DOMAIN cells |-> n]
           last == LandFold!Fold(ctx, base, seq).b
<1>1. Landed(b, i, known, aim, brought) = Over(last)
  <2> DEFINE folded == FoldLeft(LAMBDA acc, n : StrikeCell(acc, i, known, cells[n], n, aim, brought),
                                base, seq)
  <2>1. folded = LandFold!Fold(ctx, base, seq)
    <3> HIDE DEF cells, seq, base
    <3> QED BY DEF LandStep, LandFold!Fold, FoldLeft, MapThenFoldSet,
                   LandFold!MapThenFoldSet, Max, LandFold!Max
  <2>2. Landed(b, i, known, aim, brought) = Over(folded.b)
    BY DEF Landed
  <2> HIDE DEF folded
  <2> QED BY <2>1, <2>2
<1>2. Listed(cells)
  <2>1. known.pattern \in DOMAIN Pattern
    BY SkillFields
  <2>2. Pattern[known.pattern] \in Seq(Seq(DOMAIN Step))
    BY <2>1, ContentAssumption
  <2>3. Listed(Pattern[known.pattern])
    BY ONLY <2>2, SeqIsListed
  <2> QED BY <2>3, CoveredAreListed
<1> HIDE DEF cells
<1>3. Len(cells) \in Nat /\ DOMAIN seq = 1..Len(cells)
  BY <1>2, ListedFacts
<1>4. ctx.ids = ids /\ ctx.i = i /\ ctx.known = known /\ base.b = b
  OBVIOUS
<1> HIDE DEF ctx, base, seq
<1>5. LandKeeps(ctx, 0, base)
  BY <1>4 DEF LandKeeps
<1>6. ASSUME NEW acc, NEW n, NEW k, NEW l, LandKeeps(ctx, k, acc)
      PROVE  LandKeeps(ctx, l, LandStep(ctx, acc, n))
  <2> DEFINE on == Occupant(acc.b, ctx.cells[n])
             j == CHOOSE j \in on : TRUE
             c == ResolveAgainst(acc.b, i, j, known, n, ctx.aim, ctx.brought)
  <2>1. Amid(acc.b, ids)
    BY <1>4, <1>6 DEF LandKeeps
  <2>2. CASE acc.done \/ on = {}
    <3>1. LandStep(ctx, acc, n) = acc
      BY <2>2 DEF LandStep, StrikeCell
    <3> QED BY <1>4, <2>1, <3>1 DEF LandKeeps
  <2>3. CASE ~(acc.done \/ on = {})
    <3>1. LandStep(ctx, acc, n) = Stepped(c, i)
      BY <1>4, <2>3 DEF LandStep, StrikeCell
    <3>2. j \in ids
      <4>1. on \subseteq ids
        BY <2>1, AmidFacts DEF Occupant, Living
      <4> HIDE DEF on
      <4> QED BY <2>3, <4>1
    <3> HIDE DEF on, j
    <3>3. Amid(c, ids)
      BY <2>1, <3>2, ResolveAmid
    <3> HIDE DEF c
    <3> QED BY <1>4, <3>1, <3>3 DEF LandKeeps, Stepped
  <2> QED BY <2>2, <2>3
<1>7. LandKeeps(ctx, Len(cells), LandFold!Fold(ctx, base, seq))
  BY <1>3, <1>5, <1>6, LandFold!FoldKeeps
<1>8. Amid(last, ids)
  BY <1>4, <1>7 DEF LandKeeps
<1> QED BY <1>1, <1>8

-----------------------------------------------------------------------------
(* A battle between two calls: whoever is asked lives, and as long as it   *)
(* goes on somebody does, and everybody is queued at the speed it has.     *)
Steady(b) ==
    /\ Sturdy(b, 0)
    /\ b.asked # 0 => b.asked \in Living(b)
    /\ ~b.finished => AtSpeed(b) /\ Living(b) # {}

\* Nobody's speed moves with the clock, the fates, a cooldown or the end.
LEMMA SpeedsStay ==
    ASSUME NEW b, NEW c, Touch(b, c), AtSpeed(b),
           \A j \in Ids(b) : c.units[j].statuses = b.units[j].statuses
                             /\ c.units[j].base = b.units[j].base
    PROVE  AtSpeed(c)
<1>1. Living(c) = Living(b) /\ c.queue = b.queue
  BY FrameFacts DEF Touch
<1>2. ASSUME NEW j \in Living(c)
      PROVE  c.queue.entries[j].speed = AtLeastOne(SpeedOf(c.units[j]))
  <2>1. j \in Ids(b) /\ j \in Living(b)
    BY <1>1 DEF Living
  <2>2. SpeedOf(c.units[j]) = SpeedOf(b.units[j])
    BY <2>1 DEF SpeedOf
  <2> QED BY <1>1, <2>1, <2>2 DEF AtSpeed
<1> QED BY <1>2 DEF AtSpeed

LEMMA SettleEnds ==
    ASSUME NEW b, Fielded(b), b.finished
    PROVE  Settle(b).finished
BY DEF Settle, CheckEnd

LEMMA SettleLeaves ==
    ASSUME NEW b, Fielded(b), ~Settle(b).finished
    PROVE  Living(b) # {}
<1>1. ~CheckEnd(b).finished
  BY DEF Settle
<1>2. {side \in Side : OnSide(b, side) # {}} = Side
  BY <1>1 DEF CheckEnd, Fielded, BattleFields
<1>3. "ally" \in Side
  BY DEF Side
<1>4. OnSide(b, "ally") # {}
  BY <1>2, <1>3
<1> QED BY <1>4 DEF OnSide

LEMMA SettledSteady ==
    ASSUME NEW b, Mid(b, 0), ~b.finished => AtSpeed(b)
    PROVE  Steady(Settle(b))
<1> DEFINE c == Settle(b)
<1>1. Fielded(b) /\ b.asked = 0
  BY DEF Mid, Sturdy
<1>2. Touch(b, c) /\ c.units = b.units
  BY <1>1, TouchSettle
<1>3. (b.finished => c.finished) /\ (~c.finished => Living(b) # {})
  BY <1>1, SettleEnds, SettleLeaves
<1> HIDE DEF c
<1>4. Mid(c, 0) /\ Living(c) = Living(b)
  BY <1>2, TouchKeeps, FrameFacts DEF Touch
<1>5. ~c.finished => AtSpeed(c) /\ Living(c) # {}
  BY <1>2, <1>3, <1>4, SpeedsStay
<1>6. Steady(c)
  BY <1>4, <1>5 DEF Steady, Mid
<1> QED BY <1>6 DEF c

LEMMA RetunedSteady ==
    ASSUME NEW b, Mid(b, 0)
    PROVE  Steady(Settle(RetuneAll(b)))
BY RetuneKeeps, SettledSteady

LEMMA OverSteady ==
    ASSUME NEW b, Mid(b, 0)
    PROVE  Steady(Over(b))
<1>1. CASE b.finished
  BY <1>1 DEF Over, Steady, Mid
<1>2. CASE ~b.finished
  BY <1>2, RetunedSteady DEF Over
<1> QED BY <1>1, <1>2

LEMMA CooldownsTouch ==
    ASSUME NEW b, Fielded(b), NEW i
    PROVE  /\ Touch(b, SpendCooldowns(b, i))
           /\ \A j \in Ids(b) :
                 /\ SpendCooldowns(b, i).units[j].statuses = b.units[j].statuses
                 /\ SpendCooldowns(b, i).units[j].base = b.units[j].base
           /\ SpendCooldowns(b, i).finished = b.finished
<1> DEFINE x == [n \in DOMAIN b.units[i].cool |->
                    IF b.units[i].cool[n] > 0 THEN b.units[i].cool[n] - 1 ELSE 0]
           v == [b.units[i] EXCEPT !.cool = x]
           c == [b EXCEPT !.units[i].cool = x]
<1>1. SpendCooldowns(b, i) = c
  BY DEF SpendCooldowns
<1>2. i \in Ids(b) => v.statuses = b.units[i].statuses /\ v.base = b.units[i].base
  BY DEF Fielded, Able, UnitFields
<1> HIDE DEF x
<1>3. Touch(b, c)
  BY TouchCool
<1>4. c.finished = b.finished
  BY DEF Fielded, BattleFields
<1>5. \A j \in Ids(b) : c.units[j] = IF j = i THEN v ELSE b.units[j]
  BY DEF Fielded, BattleFields, Ids, Listed
<1> HIDE DEF v, c
<1> QED BY <1>1, <1>2, <1>3, <1>4, <1>5

\* The source is nobody's business but the call's.
LEMMA SourceSteady ==
    ASSUME NEW b, Steady(b), NEW x
    PROVE  /\ Steady([b EXCEPT !.source = x])
           /\ [b EXCEPT !.source = x].asked = b.asked
           /\ [b EXCEPT !.source = x].finished = b.finished
           /\ [b EXCEPT !.source = x].units = b.units
           /\ [b EXCEPT !.source = x].queue = b.queue
<1> DEFINE c == [b EXCEPT !.source = x]
<1>1. Fielded(b) /\ Lined(b) /\ Families(b, 0)
  BY DEF Steady, Sturdy
<1>2. /\ DOMAIN c = BattleFields /\ c.units = b.units /\ c.queue = b.queue /\ c.asked = b.asked
      /\ c.finished = b.finished
  BY <1>1 DEF Fielded, BattleFields
<1> HIDE DEF c
<1>3. Ids(c) = Ids(b) /\ Living(c) = Living(b)
  BY <1>2 DEF Ids, Living
<1>4. Fielded(c) /\ Lined(c)
  BY <1>1, <1>2, <1>3 DEF Fielded, Lined
<1>5. Families(c, 0)
  BY <1>1, <1>2, <1>3, ZenonT(60) DEF Families, Born, OnTime, LivesBy
<1>6. ~c.finished => AtSpeed(c) /\ Living(c) # {}
  BY <1>2, <1>3 DEF Steady, AtSpeed
<1>7. Steady(c)
  BY <1>2, <1>3, <1>4, <1>5, <1>6 DEF Steady, Sturdy
<1> QED BY <1>2, <1>7 DEF c

LEMMA AimedSteady ==
    ASSUME NEW ids, NEW b, Amid(b, ids), NEW i \in ids, NEW known \in SkillType, NEW aim, NEW brought
    PROVE  Steady(Aimed(b, i, known, aim, brought))
<1> DEFINE c == Restore(Strip(b, i, known), i, i, known, brought, 1)
<1>1. CASE known.target = "self"
  <2>1. Aimed(b, i, known, aim, brought) = Settle(RetuneAll(c))
    BY <1>1 DEF Aimed
  <2>2. Mid(c, 0)
    BY StripAmid, RestoreAmid, AmidFacts
  <2> HIDE DEF c
  <2> QED BY <2>1, <2>2, RetunedSteady
<1>2. CASE known.target # "self"
  <2>1. PICK d : Amid(d, ids) /\ Landed(b, i, known, aim, brought) = Over(d)
    BY LandedKeeps
  <2>2. Steady(Over(d))
    BY <2>1, AmidFacts, OverSteady
  <2> QED BY <1>2, <2>1, <2>2 DEF Aimed
<1> QED BY <1>1, <1>2

-----------------------------------------------------------------------------
(* Enlisting.                                                              *)

LEMMA ImageIsFinite ==
    ASSUME NEW S, IsFiniteSet(S), NEW f, f = [x \in S |-> f[x]]
    PROVE  IsFiniteSet({f[x] : x \in S})
<1> DEFINE T == {f[x] : x \in S}
<1>1. f \in Surjection(S, T)
  BY DEF Surjection
<1> HIDE DEF T
<1>2. IsFiniteSet(T)
  BY <1>1, FS_Surjection
<1> QED BY <1>2 DEF T

LEMMA ToSetIsFinite ==
    ASSUME NEW T, NEW s \in Seq(T)
    PROVE  IsFiniteSet(ToSet(s))
<1>1. IsFiniteSet(1..Len(s)) /\ DOMAIN s = 1..Len(s)
  BY FS_Interval
<1>2. s = [x \in DOMAIN s |-> s[x]]
  OBVIOUS
<1>3. IsFiniteSet({s[x] : x \in DOMAIN s})
  BY ONLY <1>1, <1>2, ImageIsFinite
<1> QED BY <1>3 DEF ToSet

LEMMA SetToSeqIsSeq ==
    ASSUME NEW S, IsFiniteSet(S)
    PROVE  SetToSeq(S) \in Seq(S)
<1>1. Cardinality(S) \in Nat /\ ExistsBijection(1..Cardinality(S), S)
  BY FS_CardinalityType
<1>2. PICK f \in [1..Cardinality(S) -> S] : IsInjective(f)
  BY <1>1 DEF ExistsBijection, Bijection, Injection, IsInjective
<1>3. SetToSeq(S) \in [1..Cardinality(S) -> S]
  BY <1>2 DEF SetToSeq
<1> QED BY <1>1, <1>3

LEMMA AwardedIsTyped ==
    ASSUME NEW members \in Seq(EntryType), NEW n
    PROVE  Awarded(members, n) \in Seq(AwardType)
<1> DEFINE Counted(bonus) ==
             {value \in UNION {Values(bonus.axis, members[k]) : k \in DOMAIN members} :
                 /\ bonus.value \in {"", value}
                 /\ bonus.scope = "squad" \/ value \in Values(bonus.axis, members[n])}
           From(bonus, value) ==
             {rung.grants : rung \in Reached(bonus,
                               Cardinality(Sharers(members, bonus.axis, value)))}
           Parts(bonus) == [k \in 1..Cardinality(Counted(bonus)) |->
                               SetToSeq(From(bonus, SetToSeq(Counted(bonus))[k]))]
           Of(bonus) == Flattened(Flattened(Parts(bonus)))
           all == [k \in DOMAIN BonusBook |-> Of(BonusBook[k])]
<1>1. Awarded(members, n) = Flattened(all)
  BY DEF Awarded
<1>2. ASSUME NEW bonus PROVE IsFiniteSet(Counted(bonus))
  <2> DEFINE V == [k \in DOMAIN members |-> Values(bonus.axis, members[k])]
             U == {V[k] : k \in DOMAIN members}
  <2>1. IsFiniteSet(DOMAIN members)
    <3>1. DOMAIN members = 1..Len(members) /\ Len(members) \in Nat
      OBVIOUS
    <3> QED BY ONLY <3>1, FS_Interval
  <2>2. ASSUME NEW k \in DOMAIN members PROVE IsFiniteSet(V[k])
    <3>1. members[k] \in EntryType
      OBVIOUS
    <3>2. members[k].affinity \in Seq(Element)
      BY <3>1 DEF EntryType
    <3>3. IsFiniteSet(ToSet(members[k].affinity))
      BY ONLY <3>2, ToSetIsFinite
    <3>4. IsFiniteSet(ToSet(members[k].affinity) \ Chart.inert)
      BY <3>3, FS_Subset
    <3> DEFINE column == ColumnValue[members[k].slot[1] + 1]
    <3>5. V[k] = {column} \/ V[k] = ToSet(members[k].affinity) \ Chart.inert
      BY DEF Values
    <3> HIDE DEF V, column
    <3>6. IsFiniteSet({column})
      BY ONLY FS_Singleton
    <3> QED BY <3>4, <3>5, <3>6
  <2>3. V = [k \in DOMAIN members |-> V[k]]
    OBVIOUS
  <2>4. \A k \in DOMAIN members : V[k] = Values(bonus.axis, members[k])
    OBVIOUS
  <2> HIDE DEF V
  <2>5. IsFiniteSet(U)
    BY ONLY <2>1, <2>3, ImageIsFinite
  <2>6. IsFiniteSet(UNION U)
    BY <2>2, <2>5, FS_UNION
  <2>7. U = {Values(bonus.axis, members[k]) : k \in DOMAIN members}
    BY <2>4
  <2> DEFINE C == Counted(bonus)
  <2> HIDE DEF U
  <2>8. C \in SUBSET UNION U
    BY <2>7
  <2> HIDE DEF C
  <2>9. IsFiniteSet(C)
    BY ONLY <2>6, <2>8, FS_Subset
  <2> QED BY <2>9 DEF C
<1>3. ASSUME NEW bonus \in BonusType, NEW value
      PROVE  SetToSeq(From(bonus, value)) \in Seq(Seq(AwardType))
  <2> DEFINE R == Reached(bonus, Cardinality(Sharers(members, bonus.axis, value)))
             rung == [at : Nat, grants : Seq(AwardType)]
             g == [r \in R |-> r.grants]
             F == {g[r] : r \in R}
  <2>1. bonus.rungs \in Seq(rung)
    BY DEF BonusType
  <2>2. R \in SUBSET ToSet(bonus.rungs)
    BY DEF Reached
  <2>3. IsFiniteSet(R)
    <3>1. IsFiniteSet(ToSet(bonus.rungs))
      BY ONLY <2>1, ToSetIsFinite
    <3> QED BY ONLY <2>2, <3>1, FS_Subset
  <2>4. ASSUME NEW r \in R PROVE r.grants \in Seq(AwardType)
    <3>1. PICK k \in DOMAIN bonus.rungs : r = bonus.rungs[k]
      BY <2>2 DEF ToSet
    <3> HIDE DEF rung
    <3>2. r \in rung
      BY ONLY <2>1, <3>1
    <3> QED BY ONLY <3>2 DEF rung
  <2> HIDE DEF R
  <2>5. g = [r \in R |-> g[r]] /\ \A r \in R : g[r] = r.grants
    OBVIOUS
  <2>6. From(bonus, value) = F
    BY <2>5 DEF R
  <2> HIDE DEF g
  <2>7. IsFiniteSet(F)
    BY ONLY <2>3, <2>5, ImageIsFinite
  <2>8. F \subseteq Seq(AwardType)
    BY <2>4, <2>5
  <2> HIDE DEF F, From
  <2>9. SetToSeq(F) \in Seq(F)
    BY <2>7, SetToSeqIsSeq
  <2>10. SetToSeq(F) \in Seq(Seq(AwardType))
    <3> DEFINE t == SetToSeq(F)
               Q == Seq(AwardType)
    <3>1. t \in Seq(F) /\ F \subseteq Q
      BY <2>8, <2>9
    <3> HIDE DEF t, Q
    <3>2. t \in Seq(Q)
      BY <3>1
    <3> QED BY <3>2 DEF t, Q
  <2> QED BY <2>6, <2>10
<1>4. ASSUME NEW bonus \in BonusType PROVE Of(bonus) \in Seq(AwardType)
  <2> DEFINE parts == Parts(bonus)
             Q == Seq(AwardType)
             m == Cardinality(Counted(bonus))
  <2>1. m \in Nat
    BY <1>2, FS_CardinalityType
  <2>2. DOMAIN parts = 1..m /\ parts = [k \in DOMAIN parts |-> parts[k]]
    OBVIOUS
  <2>3. \A k \in DOMAIN parts : parts[k] \in Seq(Q)
    BY <1>3
  <2>4. Of(bonus) = Flattened(Flattened(parts))
    OBVIOUS
  <2> HIDE DEF parts, m, Counted, From, Of
  <2>5. Listed(parts)
    BY <2>1, <2>2, MappedIsListed
  <2>6. Flattened(parts) \in Seq(Q)
    <3> HIDE DEF Q
    <3> QED BY ONLY <2>3, <2>5, FlatIsSeq
  <2> DEFINE flat == Flattened(parts)
  <2>7. Listed(flat) /\ \A k \in DOMAIN flat : flat[k] \in Q
    <3> HIDE DEF Q, flat
    <3> QED BY <2>6, SeqIsListed DEF flat
  <2> HIDE DEF flat
  <2>8. Flattened(flat) \in Seq(AwardType)
    BY <2>7, FlatIsSeq
  <2> QED BY <2>4, <2>8 DEF flat
<1> HIDE DEF Of
<1>5. BonusBook \in Seq(BonusType)
  BY ContentAssumption
<1>6. Len(BonusBook) \in Nat /\ DOMAIN all = 1..Len(BonusBook)
  BY <1>5
<1>7. Listed(all)
  BY <1>6, MappedIsListed
<1>8. \A k \in DOMAIN all : all[k] \in Seq(AwardType)
  BY <1>4, <1>5
<1> HIDE DEF all
<1> QED BY <1>1, <1>7, <1>8, FlatIsSeq

(* What is kept while a unit is given what its traits hold: what it is.    *)
IsOf(u, v) == Able(v) /\ Same(u, v)

BestowStep(ctx, v, grant) == Bestow(v, ctx.p, grant)
BestowKeeps(ctx, k, v) == IsOf(ctx.u, v)
BestowFold == INSTANCE Folding WITH Step <- BestowStep, Keeps <- BestowKeeps

LEMMA FilledIsOf ==
    ASSUME NEW u, NEW v, IsOf(u, v)
    PROVE  IsOf(u, Filled(v))
BY AbleHp DEF IsOf, Filled, Same

LEMMA GrantedIsOf ==
    ASSUME NEW u, NEW v, IsOf(u, v), NEW p, NEW grant \in GrantType
    PROVE  IsOf(u, Bestow(v, p, grant))
<1>1. grant.status \in DOMAIN StatusBook /\ grant.stacks \in Nat
  BY DEF GrantType
<1> DEFINE s == Hold(v.statuses, grant.status, Granted(v, grant), grant.stacks)
<1>2. Sane(s)
  BY <1>1, SaneHold DEF IsOf, Able
<1>3. Bestow(v, p, grant) = v \/ Bestow(v, p, grant) = [v EXCEPT !.statuses = s]
  BY DEF Bestow
<1> HIDE DEF s
<1>4. IsOf(u, [v EXCEPT !.statuses = s])
  <2>1. Able(v)
    BY DEF IsOf
  <2>2. Able([v EXCEPT !.statuses = s]) /\ Same(v, [v EXCEPT !.statuses = s])
    BY <1>2, <2>1, AbleStatuses
  <2> QED BY <2>2 DEF IsOf, Same
<1> QED BY <1>3, <1>4

LEMMA GrantingIsOf ==
    ASSUME NEW u, NEW v, IsOf(u, v), NEW id \in DOMAIN PassiveBook
    PROVE  IsOf(u, Granting(v, id))
<1> DEFINE grants == PassiveBook[id].grants
           base == Filled(v)
           ctx == [u |-> u, p |-> PassiveBook[id]]
<1>1. Granting(v, id) = BestowFold!Fold(ctx, base, grants)
  BY DEF Granting, BestowStep, BestowFold!Fold, FoldLeft, MapThenFoldSet,
         BestowFold!MapThenFoldSet, Max, BestowFold!Max
<1>2. grants \in Seq(GrantType)
  BY PassivesAreTyped DEF PassiveShape
<1>3. ctx.u = u
  OBVIOUS
<1>4. IsOf(u, base)
  BY FilledIsOf
<1> HIDE DEF ctx, base, grants
<1>5. BestowKeeps(ctx, 0, base)
  BY <1>3, <1>4 DEF BestowKeeps
<1>6. ASSUME NEW w, NEW grant \in GrantType, NEW k, NEW l, BestowKeeps(ctx, k, w)
      PROVE  BestowKeeps(ctx, l, BestowStep(ctx, w, grant))
  BY <1>3, <1>6, GrantedIsOf DEF BestowKeeps, BestowStep
<1>7. /\ Len(grants) \in Nat /\ DOMAIN grants = 1..Len(grants)
      /\ \A k \in 1..Len(grants) : grants[k] \in GrantType
  BY ONLY <1>2
<1>8. BestowKeeps(ctx, Len(grants), BestowFold!Fold(ctx, base, grants))
  BY <1>5, <1>6, <1>7, BestowFold!FoldKeeps
<1> QED BY <1>1, <1>3, <1>8 DEF BestowKeeps

EnlistStep(ctx, v, id) == Granting(v, id)
EnlistKeeps(ctx, k, v) == IsOf(ctx, v)
EnlistFold == INSTANCE Folding WITH Step <- EnlistStep, Keeps <- EnlistKeeps
AwardStep(ctx, s, g) == Hold(s, g.status, 0, g.stacks)
AwardKeeps(ctx, k, s) == Sane(s)
AwardFold == INSTANCE Folding WITH Step <- AwardStep, Keeps <- AwardKeeps

LEMMA SaneAwards ==
    ASSUME NEW s, Sane(s), NEW awards \in Seq(AwardType)
    PROVE  Sane(FoldLeft(LAMBDA t, g : Hold(t, g.status, 0, g.stacks), s, awards))
<1> DEFINE ctx == 0
<1>1. FoldLeft(LAMBDA t, g : Hold(t, g.status, 0, g.stacks), s, awards)
         = AwardFold!Fold(ctx, s, awards)
  BY DEF AwardStep, AwardFold!Fold, FoldLeft, MapThenFoldSet,
         AwardFold!MapThenFoldSet, Max, AwardFold!Max
<1> HIDE DEF ctx
<1>2. AwardKeeps(ctx, 0, s)
  BY DEF AwardKeeps
<1>3. ASSUME NEW t, NEW g \in AwardType, NEW k, NEW l, AwardKeeps(ctx, k, t)
      PROVE  AwardKeeps(ctx, l, AwardStep(ctx, t, g))
  <2>1. g.status \in DOMAIN StatusBook /\ g.stacks \in Nat
    BY DEF AwardType
  <2> QED BY <1>3, <2>1, SaneHold DEF AwardKeeps, AwardStep
<1>4. /\ Len(awards) \in Nat /\ DOMAIN awards = 1..Len(awards)
      /\ \A k \in 1..Len(awards) : awards[k] \in AwardType
  OBVIOUS
<1>5. AwardKeeps(ctx, Len(awards), AwardFold!Fold(ctx, s, awards))
  BY <1>2, <1>3, <1>4, AwardFold!FoldKeeps
<1> QED BY <1>1, <1>5 DEF AwardKeeps

Listable(entry) ==
    /\ IsBase(entry.base)
    /\ entry.skills \in Seq(DOMAIN SkillBook) /\ entry.passives \in Seq(DOMAIN PassiveBook)

\* A unit starts as the entry that lists it: alive, and called by nobody.
LEMMA EnlistedIsAble ==
    ASSUME NEW entry, Listable(entry), NEW awards \in Seq(AwardType),
           NEW u, u = Enlisted(entry, awards)
    PROVE  /\ Able(u) /\ ~u.dead /\ u.skills = entry.skills
           /\ u.summoner = 0 /\ u.leaves = 0 /\ ~u.bound
<1> DEFINE v == UnitOf(entry)
           ids == entry.passives
           granted == FoldLeft(Granting, v, ids)
           s == FoldLeft(LAMBDA t, g : Hold(t, g.status, 0, g.stacks), granted.statuses, awards)
           w == [granted EXCEPT !.statuses = s]
<1>1. u = Filled(w)
  BY DEF Enlisted
<1>2. /\ DOMAIN v = UnitFields /\ v.dead = FALSE /\ v.bound = FALSE /\ v.leaves = 0
      /\ v.summoner = 0 /\ v.statuses = <<>> /\ v.base = entry.base
      /\ v.skills = entry.skills /\ v.passives = entry.passives
  BY DEF UnitOf, UnitFields
<1>3. granted = EnlistFold!Fold(v, v, ids)
  BY DEF EnlistStep, EnlistFold!Fold, FoldLeft, MapThenFoldSet,
         EnlistFold!MapThenFoldSet, Max, EnlistFold!Max
<1>4. ids \in Seq(DOMAIN PassiveBook)
  BY DEF Listable
<1> HIDE DEF v, ids, granted
<1>5. EnlistKeeps(v, 0, v)
  <2>1. v.dead \in BOOLEAN /\ v.bound \in BOOLEAN /\ v.leaves \in Int /\ Sane(v.statuses)
    <3>1. v.dead = FALSE /\ v.bound = FALSE /\ v.leaves = 0 /\ v.statuses = <<>>
      BY <1>2
    <3>2. v.leaves \in Int /\ Sane(v.statuses)
      BY <3>1, SaneEmpty
    <3> QED BY ONLY <3>1, <3>2
  <2>2. /\ IsBase(v.base) /\ v.skills \in Seq(DOMAIN SkillBook)
        /\ v.passives \in Seq(DOMAIN PassiveBook)
    BY <1>2 DEF Listable
  <2>3. Able(v)
    BY <1>2, <2>1, <2>2 DEF Able
  <2> QED BY <2>3 DEF EnlistKeeps, IsOf, Same
<1>6. ASSUME NEW x, NEW id \in DOMAIN PassiveBook, NEW k, NEW l, EnlistKeeps(v, k, x)
      PROVE  EnlistKeeps(v, l, EnlistStep(v, x, id))
  BY <1>6, GrantingIsOf DEF EnlistKeeps, EnlistStep
<1>7. /\ Len(ids) \in Nat /\ DOMAIN ids = 1..Len(ids)
      /\ \A k \in 1..Len(ids) : ids[k] \in DOMAIN PassiveBook
  BY ONLY <1>4
<1>8. EnlistKeeps(v, Len(ids), EnlistFold!Fold(v, v, ids))
  BY <1>5, <1>6, <1>7, EnlistFold!FoldKeeps
<1>9. IsOf(v, granted)
  BY <1>3, <1>8 DEF EnlistKeeps
<1>10. Sane(s)
  BY <1>9, SaneAwards DEF IsOf, Able
<1> HIDE DEF s
<1>11. IsOf(v, w)
  <2>1. Able(w) /\ Same(granted, w)
    BY <1>9, <1>10, AbleStatuses DEF IsOf
  <2> QED BY <1>9, <2>1 DEF IsOf, Same
<1> HIDE DEF w
<1>12. IsOf(v, u)
  BY <1>1, <1>11, FilledIsOf
<1> QED BY <1>2, <1>12 DEF IsOf, Same

\* A unit that may join the battle: sound, alive and, when somebody called it, one
\* of the battle's own units that can call, for as long as its skill says.
Newcomer(b, u) ==
    /\ Able(u) /\ ~u.dead
    /\ u.summoner # 0 => /\ u.summoner \in Ids(b)
                         /\ CallsNobody(u) /\ ~CallsNobody(b.units[u.summoner])
    /\ u.bound => u.summoner # 0 /\ ~b.units[u.summoner].dead
    /\ u.leaves >= 0 /\ u.summoner # 0 =>
           \E n \in DOMAIN b.units[u.summoner].skills :
               SkillBook[b.units[u.summoner].skills[n]].summons.lasts = u.leaves

\* Whoever joins a battle joins its queue, at the speed it has, and changes nobody.
LEMMA JoinedKeeps ==
    ASSUME NEW b, Mid(b, 0), NEW u, Newcomer(b, u), NEW c, c = Joined(b, u)
    PROVE  /\ Mid(c, 0) /\ Ids(b) \subseteq Ids(c) /\ c.finished = b.finished
           /\ \A j \in Ids(b) : c.units[j] = b.units[j]
           /\ AtSpeed(b) => AtSpeed(c)
           /\ Living(c) # {}
<1> DEFINE n == Len(b.units) + 1
           s == AtLeastOne(SpeedOf(u))
           q == AddTo(b.queue, n, SpeedOf(u))
<1>1. /\ Fielded(b) /\ Lined(b) /\ Families(b, 0) /\ b.asked = 0
      /\ DOMAIN b = BattleFields /\ Listed(b.units) /\ b.finished \in BOOLEAN
      /\ Able(u) /\ ~u.dead
  BY DEF Mid, Sturdy, Fielded, Newcomer
<1>2. /\ DOMAIN c = BattleFields /\ c.units = Append(b.units, u) /\ c.queue = q
      /\ c.asked = 0 /\ c.finished = b.finished
  BY <1>1 DEF Joined, BattleFields
<1>3. Len(b.units) \in Nat /\ Ids(b) = 1..Len(b.units)
  BY <1>1, ListedFacts DEF Ids
<1>4. n \in Nat /\ n # 0 /\ n \notin Ids(b) /\ Ids(b) \subseteq 1..n /\ 1..n = Ids(b) \cup {n}
  BY <1>3
<1>5. /\ Listed(c.units) /\ Ids(c) = 1..n
      /\ \A j \in Ids(b) : c.units[j] = b.units[j]
      /\ c.units[n] = u
  BY <1>1, <1>2, <1>3, AppendFacts DEF Ids
<1>6. Fielded(c)
  BY <1>1, <1>2, <1>4, <1>5 DEF Fielded
<1>7. SpeedOf(u) \in Int /\ s \in 1..Scale
  BY <1>1, SpeedOfFits
<1>8. Sound(b.queue, Scale) /\ Queued(b.queue) = Living(b) /\ n \notin Queued(b.queue)
  BY <1>1, <1>4 DEF Lined, Living
<1>9. /\ Queued(q) = Queued(b.queue) \cup {n}
      /\ \A j \in Queued(b.queue) : q.entries[j] = b.queue.entries[j]
      /\ q.entries[n].turns = 0 /\ q.entries[n].speed = s
  <2>1. {"now", "entries", "joined"} = DOMAIN b.queue
    BY <1>8 DEF Sound, IsQueue
  <2> QED BY <1>8, <2>1 DEF AddTo, Queued
<1>10. Sound(q, Scale)
  <2>1. Scale \in Nat /\ Scale <= Scale /\ s <= Scale
    BY <1>7, ScaleAssumption
  <2> HIDE DEF n
  <2> QED BY <1>7, <1>8, <2>1, AddKeeps
<1> HIDE DEF n, s, q
<1>11. Living(c) = Living(b) \cup {n}
  BY <1>1, <1>4, <1>5 DEF Living
<1>12. Lined(c)
  BY <1>2, <1>8, <1>9, <1>10, <1>11 DEF Lined
<1>13. \A j \in Ids(b) : Born(b, j)
  BY <1>1 DEF Families
<1>14. \A j \in Ids(b) : Born(c, j)
  BY <1>4, <1>5, <1>13 DEF Born
<1>15. Born(c, n)
  BY <1>1, <1>4, <1>5 DEF Born, Newcomer
<1>16. \A j \in Living(b) : OnTime(c, j) /\ LivesBy(c, j, 0)
  <2> SUFFICES ASSUME NEW j \in Living(b) PROVE OnTime(c, j) /\ LivesBy(c, j, 0)
    OBVIOUS
  <2>1. j \in Ids(b) /\ j \in Queued(b.queue)
    BY <1>8 DEF Living
  <2>2. OnTime(b, j) /\ LivesBy(b, j, 0) /\ Born(b, j)
    BY <1>1, <1>13, <2>1 DEF Families
  <2>3. c.units[j] = b.units[j] /\ c.queue.entries[j] = b.queue.entries[j]
    BY <1>2, <1>5, <1>9, <2>1
  <2>4. b.units[j].summoner # 0 => c.units[b.units[j].summoner] = b.units[b.units[j].summoner]
    BY <1>5, <2>2 DEF Born
  <2>5. OnTime(c, j)
    BY <2>2, <2>3, <2>4 DEF OnTime
  <2>6. LivesBy(c, j, 0)
    BY <2>2, <2>3, <2>4 DEF LivesBy, Born
  <2> QED BY <2>5, <2>6
<1>17. OnTime(c, n)
  <2>1. u.summoner # 0 => c.units[u.summoner] = b.units[u.summoner]
    BY <1>5 DEF Newcomer
  <2>2. \A m \in Int : m + 0 = m
    OBVIOUS
  <2>3. u.leaves \in Int /\ u.leaves + c.queue.entries[n].turns = u.leaves
    BY <1>1, <1>2, <1>9, <2>2 DEF Able
  <2> QED BY <1>5, <2>1, <2>3 DEF OnTime, Newcomer
<1>18. LivesBy(c, n, 0)
  BY <1>5 DEF LivesBy, Newcomer
<1>19. Families(c, 0)
  BY <1>4, <1>5, <1>11, <1>14, <1>15, <1>16, <1>17, <1>18 DEF Families
<1>20. Mid(c, 0)
  BY <1>2, <1>6, <1>12, <1>19 DEF Mid, Sturdy
<1>21. AtSpeed(b) => AtSpeed(c)
  <2> SUFFICES ASSUME AtSpeed(b), NEW j \in Living(c)
               PROVE c.queue.entries[j].speed = AtLeastOne(SpeedOf(c.units[j]))
    BY DEF AtSpeed
  <2>1. CASE j = n
    BY <1>2, <1>5, <1>9, <2>1 DEF s
  <2>2. CASE j \in Living(b)
    <3>1. j \in Ids(b) /\ j \in Queued(b.queue)
      BY <1>8, <2>2 DEF Living
    <3>2. c.units[j] = b.units[j] /\ c.queue.entries[j] = b.queue.entries[j]
      BY <1>2, <1>5, <1>9, <3>1
    <3> QED BY <2>2, <3>2 DEF AtSpeed
  <2> QED BY <1>11, <2>1, <2>2
<1> QED BY <1>2, <1>4, <1>5, <1>11, <1>20, <1>21

-----------------------------------------------------------------------------
(* A battle opens.                                                         *)

LEMMA EntriesAreListable ==
    ASSUME NEW entry \in EntryType, MayEnlist(entry)
    PROVE  Listable(entry)
<1>1. /\ entry.base \in [Stat -> Int] /\ entry.skills \in Seq(DOMAIN SkillBook)
      /\ entry.passives \in Seq(DOMAIN PassiveBook)
  BY DEF EntryType
<1>2. "speed" \in Stat
  BY DEF Stat
<1>3. entry.base["speed"] <= Ceilings["speed"]
  BY <1>2 DEF MayEnlist
<1> QED BY <1>1, <1>2, <1>3 DEF Listable, IsBase

LEMMA AwardsAreTyped ==
    ASSUME NEW roster \in Seq(EntryType), NEW n
    PROVE  AwardsOf(roster, n) \in Seq(AwardType)
<1> DEFINE squad == Only(roster, {e \in ToSet(roster) : e.side = roster[n].side})
<1>1. squad \in Seq(EntryType \cap {e \in ToSet(roster) : e.side = roster[n].side})
  BY OnlyIsSeq
<1> HIDE DEF EntryType
<1>2. squad \in Seq(EntryType)
  <2> DEFINE set == {e \in ToSet(roster) : e.side = roster[n].side}
  <2> HIDE DEF squad, set
  <2>1. squad \in Seq(EntryType \cap set)
    BY <1>1 DEF set
  <2> QED BY ONLY <2>1
<1> HIDE DEF squad
<1>3. AwardsOf(roster, n) = Awarded(squad, CHOOSE k \in DOMAIN squad : squad[k] = roster[n])
  BY DEF AwardsOf, squad
<1> QED BY <1>2, <1>3, AwardedIsTyped

LEMMA EmptyIsSteady == Mid(Empty, 0) /\ AtSpeed(Empty) /\ ~Empty.finished
<1>1. /\ DOMAIN Empty = BattleFields /\ Empty.units = <<>> /\ Empty.queue = NewQueue
      /\ Empty.asked = 0 /\ Empty.finished = FALSE
  BY DEF Empty, BattleFields
<1>2. Ids(Empty) = {} /\ Living(Empty) = {}
  BY <1>1 DEF Ids, Living
<1>3. Sound(Empty.queue, Scale) /\ Queued(Empty.queue) = {}
  BY <1>1, NewQueueIsSound, ScaleAssumption DEF Queued, NewQueue
<1>4. Fielded(Empty)
  BY <1>1, <1>2, EmptyIsListed DEF Fielded
<1> QED BY <1>1, <1>2, <1>3, <1>4 DEF Mid, Sturdy, Lined, Families, AtSpeed

OpenStep(ctx, b, n) == Joined(b, Enlisted(ctx[n], AwardsOf(ctx, n)))
OpenKeeps(ctx, k, b) ==
    Mid(b, 0) /\ AtSpeed(b) /\ ~b.finished /\ (k # 0 => Living(b) # {})
OpenFold == INSTANCE Folding WITH Step <- OpenStep, Keeps <- OpenKeeps

LEMMA NewSteady ==
    ASSUME NEW roster \in Rosters, MayOpen(roster)
    PROVE  Steady(New(roster))
<1> DEFINE seq == [n \in DOMAIN roster |-> n]
<1>1. New(roster) = OpenFold!Fold(roster, Empty, seq)
  BY DEF New, OpenStep, OpenFold!Fold, FoldLeft, MapThenFoldSet,
         OpenFold!MapThenFoldSet, Max, OpenFold!Max
<1>2. roster \in Seq(EntryType)
  BY ContentAssumption
<1> HIDE DEF EntryType
<1>3. /\ Len(roster) \in Nat /\ DOMAIN seq = 1..Len(roster) /\ DOMAIN roster = 1..Len(roster)
      /\ \A k \in 1..Len(roster) : seq[k] = k /\ roster[k] \in EntryType
  BY ONLY <1>2
<1> HIDE DEF seq
<1>4. OpenKeeps(roster, 0, Empty)
  BY EmptyIsSteady DEF OpenKeeps
<1>5. ASSUME NEW b, NEW n \in 1..Len(roster), NEW k, NEW l, OpenKeeps(roster, k, b)
      PROVE  OpenKeeps(roster, l, OpenStep(roster, b, n))
  <2> DEFINE u == Enlisted(roster[n], AwardsOf(roster, n))
  <2>1. Listable(roster[n])
    BY <1>3, EntriesAreListable DEF MayOpen
  <2>2. AwardsOf(roster, n) \in Seq(AwardType)
    BY <1>2, AwardsAreTyped
  <2>3. Able(u) /\ ~u.dead /\ u.summoner = 0 /\ ~u.bound
    BY <2>1, <2>2, EnlistedIsAble
  <2>4. OpenStep(roster, b, n) = Joined(b, u)
    BY DEF OpenStep
  <2> HIDE DEF u
  <2>5. Mid(b, 0) /\ AtSpeed(b) /\ ~b.finished
    BY <1>5 DEF OpenKeeps
  <2>6. Newcomer(b, u)
    BY <2>3 DEF Newcomer
  <2>7. /\ Mid(Joined(b, u), 0) /\ AtSpeed(Joined(b, u)) /\ Living(Joined(b, u)) # {}
        /\ Joined(b, u).finished = b.finished
    BY <2>5, <2>6, JoinedKeeps
  <2> QED BY <2>4, <2>5, <2>7 DEF OpenKeeps
<1>6. OpenKeeps(roster, Len(roster), OpenFold!Fold(roster, Empty, seq))
  BY <1>3, <1>4, <1>5, OpenFold!FoldKeeps
<1>7. Len(roster) # 0
  <2>1. "ally" \in Side
    BY DEF Side
  <2>2. \E n \in DOMAIN roster : roster[n].side = "ally"
    BY <2>1 DEF MayOpen
  <2> QED BY <1>3, <2>2
<1> QED BY <1>1, <1>6, <1>7 DEF OpenKeeps, Steady, Mid

-----------------------------------------------------------------------------
(* A skill that summons.                                                   *)

LEMMA SubIsListed ==
    ASSUME NEW s, Listed(s), NEW m \in Int, m <= Len(s)
    PROVE  Listed(SubSeq(s, 1, m))
<1> DEFINE T == ToSet(s)
<1>1. s \in Seq(T)
  BY DEF Listed
<1> HIDE DEF T
<1>2. SubSeq(s, 1, m) \in Seq(T)
  BY ONLY <1>1, m \in Int, m <= Len(s)
<1> QED BY <1>2, SeqIsListed

LEMMA AtMostFacts ==
    ASSUME NEW a \in Int, NEW n \in Int
    PROVE  AtMost(a, n) \in Int /\ AtMost(a, n) <= n
BY DEF AtMost

LEMMA SlotsAreListed ==
    ASSUME NEW b, Fielded(b), NEW side
    PROVE  Listed(FreeSlots(b, side))
<1> DEFINE held == {j \in Ids(b) : ~b.units[j].dead \/ b.units[j].summoner = 0}
           crowd == {j \in held : b.units[j].side = side}
           slots == [n \in 1..BoardSlots |-> <<FormationCols - 1 - (n - 1) \div Rows, (n - 1) % Rows>>]
           set == {slot \in ToSet(slots) : \A j \in held : b.units[j].cell # Place(side, slot)}
           free == Only(slots, set)
           m == AtMost(BoardSlots - Cardinality(crowd), Len(free))
<1>1. FreeSlots(b, side) = SubSeq(free, 1, m)
  BY DEF FreeSlots
<1>2. BoardSlots \in Nat
  BY DEF BoardSlots, FormationCols, Rows
<1>3. Listed(slots)
  <2>1. DOMAIN slots = 1..BoardSlots /\ slots = [n \in DOMAIN slots |-> slots[n]]
    OBVIOUS
  <2> HIDE DEF slots
  <2> QED BY <1>2, <2>1, MappedIsListed
<1> HIDE DEF slots
<1>4. Listed(free)
  BY <1>3, OnlyListed
<1> HIDE DEF free
<1>5. Len(free) \in Nat
  BY <1>4, ListedFacts
<1>6. Cardinality(crowd) \in Nat
  <2>1. Len(b.units) \in Nat /\ Ids(b) = 1..Len(b.units)
    BY ListedFacts DEF Fielded, Ids
  <2>2. IsFiniteSet(Ids(b))
    BY <2>1, FS_Interval
  <2>3. crowd \subseteq Ids(b)
    OBVIOUS
  <2> HIDE DEF crowd
  <2> QED BY <2>2, <2>3, FS_Subset, FS_CardinalityType
<1> HIDE DEF crowd
<1>7. m \in Int /\ m <= Len(free)
  <2>1. BoardSlots - Cardinality(crowd) \in Int /\ Len(free) \in Int
    BY <1>2, <1>5, <1>6
  <2> QED BY ONLY <2>1, AtMostFacts
<1> HIDE DEF m
<1> QED BY <1>1, <1>4, <1>7, SubIsListed

LEMMA PartedIsOf ==
    ASSUME NEW u, Able(u), NEW summons
    PROVE  IsOf(u, Parted(u, summons))
<1> SUFFICES ASSUME Parted(u, summons) # u PROVE IsOf(u, Parted(u, summons))
  BY DEF IsOf, Same
<1>1. PICK x, y : Parted(u, summons) = [u EXCEPT !.base.hp = x, !.hp = y]
  BY DEF Parted
<1> DEFINE v == [u EXCEPT !.base.hp = x, !.hp = y]
<1>2. /\ DOMAIN v = UnitFields /\ v.dead = u.dead /\ v.bound = u.bound /\ v.leaves = u.leaves
      /\ v.statuses = u.statuses /\ v.skills = u.skills /\ v.passives = u.passives
      /\ v.summoner = u.summoner /\ v.base = [u.base EXCEPT !.hp = x]
  BY DEF Able, UnitFields
<1> HIDE DEF v
<1>3. IsBase([u.base EXCEPT !.hp = x])
  BY DEF Able, IsBase
<1>4. Able(v) /\ Same(u, v)
  BY <1>2, <1>3 DEF Able, Same
<1> QED BY <1>1, <1>4 DEF IsOf, v

\* What a summons gives its copies is a number for each stat.
LEMMA SummonBaseIsBase ==
    ASSUME NEW u, Able(u), NEW summons \in SummonType, NEW slot,
           MayEnlist(EntryOf(u, summons, slot))
    PROVE  IsBase(SummonBase(u, summons))
<1>1. "speed" \in Stat /\ "hp" \in Stat
  BY DEF Stat
<1> DEFINE numbers == SummonBase(u, summons)
           from == IF summons.shareOfBase > 0 THEN u.base ELSE Current(u)
           share == IF summons.shareOfBase > 0 THEN summons.shareOfBase ELSE summons.share
           hp == IF summons.splits > 0 THEN Share(u.base.hp, summons.splits)
                 ELSE [stat \in Stat |-> Share(from[stat], share)].hp
<1>2. numbers["speed"] <= Ceilings["speed"]
  BY <1>1 DEF MayEnlist, EntryOf
<1>3. summons.stats \in [Stat -> Nat] /\ share \in Int
  <2>1. summons.stats \in [Stat -> Nat] /\ summons.share \in 0..Base /\ summons.shareOfBase \in 0..Base
    BY DEF SummonType
  <2> QED BY <2>1
<1>4. from["speed"] \in Int
  <2>1. u.base["speed"] \in Int
    BY DEF Able, IsBase
  <2>2. Current(u)["speed"] = SpeedOf(u)
    BY <1>1 DEF Current, SpeedOf
  <2>3. SpeedOf(u) \in Int
    BY SpeedOfFits
  <2> QED BY <2>1, <2>2, <2>3
<1> HIDE DEF from, share
<1>5. Share(from["speed"], share) \in Int
  BY <1>3, <1>4, ShareIsInt
<1>6. \/ numbers = summons.stats
      \/ numbers = [[stat \in Stat |-> Share(from[stat], share)] EXCEPT !.hp = IF hp < 1 THEN 1 ELSE hp]
  BY DEF SummonBase, from, share
<1> HIDE DEF numbers
<1>7. DOMAIN numbers = Stat /\ numbers["speed"] \in Int
  <2>1. CASE numbers = summons.stats
    BY <1>1, <1>3, <2>1
  <2>2. CASE numbers # summons.stats
    <3> DEFINE shares == [stat \in Stat |-> Share(from[stat], share)]
    <3>1. PICK x : numbers = [shares EXCEPT !.hp = x]
      BY <1>6, <2>2
    <3>2. DOMAIN shares = Stat /\ shares["speed"] = Share(from["speed"], share)
      BY <1>1
    <3> HIDE DEF shares
    <3> QED BY <1>5, <3>1, <3>2
  <2> QED BY <2>1, <2>2
<1> QED BY <1>2, <1>7 DEF IsBase, numbers

\* A unit of the battle calls with one of its skills, and what it calls may be enlisted.
CanCall(b, i, summons) ==
    /\ Fielded(b) /\ i \in Ids(b) /\ summons.count # 0
    /\ \E n \in DOMAIN b.units[i].skills : summons = SkillBook[b.units[i].skills[n]].summons
    /\ \E slot : MayEnlist(EntryOf(b.units[i], summons, slot))

\* A copy is its caster's, stays as long as the skill says, and calls nobody.
LEMMA CopyFacts ==
    ASSUME NEW b, NEW i, NEW summons, CanCall(b, i, summons),
           NEW slot, NEW u, u = CopyOf(b, i, summons, slot)
    PROVE  /\ Able(u) /\ ~u.dead /\ u.summoner = i
           /\ CallsNobody(u) /\ ~CallsNobody(b.units[i])
           /\ u.leaves >= 0 => u.leaves = summons.lasts
<1> DEFINE entry == EntryOf(b.units[i], summons, slot)
           awards == <<>>
           v == Enlisted(entry, awards)
           leaves == IF summons.lasts > 0 THEN summons.lasts ELSE -1
           bound == summons.bound
<1>a. Fielded(b) /\ i \in Ids(b) /\ summons.count # 0
  BY SMTT(40) DEF CanCall
<1>b. PICK n \in DOMAIN b.units[i].skills : summons = SkillBook[b.units[i].skills[n]].summons
  BY ZenonT(60) DEF CanCall
<1>c. PICK first : MayEnlist(EntryOf(b.units[i], summons, first))
  BY DEF CanCall
<1>1. Able(b.units[i]) /\ b.units[i].skills[n] \in DOMAIN SkillBook
  <2>1. Able(b.units[i])
    BY <1>a DEF Fielded
  <2> QED BY <1>b, <2>1 DEF Able
<1>2. summons \in SummonType /\ ValidSummons(summons)
  BY <1>1, <1>a, <1>b, SkillsAreTyped, SkillFields
<1>3. /\ summons.skills \in Seq(DOMAIN SkillBook) /\ summons.lasts \in Nat
      /\ summons.bound \in BOOLEAN
  BY <1>2 DEF SummonType
<1>4. IsBase(SummonBase(b.units[i], summons))
  BY <1>1, <1>2, <1>a, <1>c, SummonBaseIsBase
<1>5. /\ entry.skills = summons.skills /\ entry.passives = <<>>
      /\ entry.base = SummonBase(b.units[i], summons)
  BY DEF EntryOf
<1>6. Listable(entry)
  <2> HIDE DEF entry
  <2>1. <<>> \in Seq(DOMAIN PassiveBook)
    OBVIOUS
  <2> QED BY <1>3, <1>4, <1>5, <2>1 DEF Listable
<1>7. awards \in Seq(AwardType)
  OBVIOUS
<1> HIDE DEF entry, awards
<1>8. Able(v) /\ ~v.dead /\ v.skills = summons.skills
  BY <1>5, <1>6, <1>7, EnlistedIsAble
<1>9. u = [v EXCEPT !.summoner = i, !.bound = bound, !.leaves = leaves]
  BY DEF CopyOf, entry, awards
<1>10. leaves \in Int /\ (leaves >= 0 => leaves = summons.lasts) /\ bound \in BOOLEAN
  <2>1. summons.lasts \in Nat
    BY <1>3
  <2>2. leaves \in Int /\ (leaves >= 0 => leaves = summons.lasts)
    BY ONLY <2>1
  <2> QED BY <1>3, <2>2
<1> HIDE DEF v, leaves, bound
<1>11. /\ DOMAIN u = UnitFields /\ u.dead = v.dead /\ u.bound = bound /\ u.leaves = leaves
       /\ u.statuses = v.statuses /\ u.skills = v.skills /\ u.passives = v.passives
       /\ u.summoner = i /\ u.base = v.base
  BY <1>8, <1>9 DEF Able, UnitFields
<1>12. Able(u)
  BY <1>8, <1>10, <1>11 DEF Able
<1>13. CallsNobody(u)
  <2>1. u.skills = summons.skills
    BY <1>8, <1>11
  <2>2. \A m \in DOMAIN summons.skills : SkillBook[summons.skills[m]].summons.count = 0
    BY <1>2, <1>a, SMTT(40) DEF ValidSummons
  <2> QED BY ONLY <2>1, <2>2 DEF CallsNobody
<1>14. ~CallsNobody(b.units[i])
  BY <1>a, <1>b DEF CallsNobody
<1> QED BY <1>8, <1>10, <1>11, <1>12, <1>13, <1>14

SummonStep(ctx, c, slot) ==
    Joined([c EXCEPT !.units[ctx.i] = Parted(@, ctx.summons)],
           CopyOf(ctx.b, ctx.i, ctx.summons, slot))
SummonKeeps(ctx, k, c) ==
    Mid(c, 0) /\ ctx.i \in Living(c) /\ c.units[ctx.i].skills = ctx.skills
SummonFold == INSTANCE Folding WITH Step <- SummonStep, Keeps <- SummonKeeps

\* One copy after another: each takes its health from its caster and joins.
LEMMA SummonStepKeeps ==
    ASSUME NEW b, NEW i, NEW summons, CanCall(b, i, summons), NEW slot,
           NEW c, Mid(c, 0), i \in Living(c), c.units[i].skills = b.units[i].skills,
           NEW e, e = Joined([c EXCEPT !.units[i] = Parted(@, summons)], CopyOf(b, i, summons, slot))
    PROVE  Mid(e, 0) /\ i \in Living(e) /\ e.units[i].skills = b.units[i].skills
<1> DEFINE d == [c EXCEPT !.units[i] = Parted(c.units[i], summons)]
           u == CopyOf(b, i, summons, slot)
<1>1. Fielded(c) /\ i \in Ids(c) /\ Able(c.units[i])
  BY DEF Mid, Sturdy, Fielded, Living
<1>2. Touch(c, d)
  BY <1>1, PartedIsOf, TouchUnit DEF IsOf
<1>3. e = Joined(d, u)
  OBVIOUS
<1>4. /\ Able(u) /\ ~u.dead /\ u.summoner = i
      /\ CallsNobody(u) /\ ~CallsNobody(b.units[i])
      /\ u.leaves >= 0 => u.leaves = summons.lasts
  <2>1. u = CopyOf(b, i, summons, slot)
    OBVIOUS
  <2> HIDE DEF u, d
  <2> QED BY <2>1, CopyFacts
<1> HIDE DEF d, u
<1>5. Mid(d, 0) /\ Ids(d) = Ids(c) /\ Living(d) = Living(c)
  BY <1>2, TouchKeeps, FrameFacts DEF Touch, Frame
<1>6. d.units[i].skills = b.units[i].skills
  BY <1>1, <1>2, SMTT(40) DEF Touch, Frame, Same
<1>7. ~CallsNobody(d.units[i])
  BY <1>4, <1>6 DEF CallsNobody
<1>8. i \in Ids(d) /\ ~d.units[i].dead
  BY <1>5, SMTT(40) DEF Living
<1>9. u.leaves >= 0 /\ u.summoner # 0 =>
        \E m \in DOMAIN d.units[u.summoner].skills :
            SkillBook[d.units[u.summoner].skills[m]].summons.lasts = u.leaves
  BY <1>4, <1>6 DEF CanCall
<1>10. /\ Mid(e, 0) /\ Ids(d) \subseteq Ids(e)
       /\ \A j \in Ids(d) : e.units[j] = d.units[j]
  <2>1. i # 0
    <3>1. Listed(c.units) /\ i \in DOMAIN c.units
      BY <1>1 DEF Fielded, Ids
    <3>2. Len(c.units) \in Nat /\ i \in 1..Len(c.units)
      BY ONLY <3>1, ListedFacts
    <3> QED BY ONLY <3>2
  <2>2. u.summoner # 0 => /\ u.summoner \in Ids(d)
                          /\ CallsNobody(u) /\ ~CallsNobody(d.units[u.summoner])
    BY <1>4, <1>7, <1>8
  <2>3. u.bound => u.summoner # 0 /\ ~d.units[u.summoner].dead
    BY <1>4, <1>8, <2>1
  <2>4. Newcomer(d, u)
    BY <1>4, <1>9, <2>2, <2>3 DEF Newcomer
  <2> QED BY <1>3, <1>5, <2>4, JoinedKeeps
<1> QED BY <1>6, <1>8, <1>10 DEF Living

LEMMA SummonFolds ==
    ASSUME NEW b, NEW i, NEW summons, NEW slots, NEW skills
    PROVE  FoldLeft(LAMBDA c, slot : Joined([c EXCEPT !.units[i] = Parted(@, summons)],
                                            CopyOf(b, i, summons, slot)), b, slots)
             = SummonFold!Fold([b |-> b, i |-> i, summons |-> summons, skills |-> skills], b, slots)
BY DEF SummonStep, SummonFold!Fold, FoldLeft, MapThenFoldSet,
       SummonFold!MapThenFoldSet, Max, SummonFold!Max

LEMMA SummonKeepsIt ==
    ASSUME NEW b, Mid(b, 0), NEW i \in Living(b), NEW n \in DOMAIN b.units[i].skills,
           NEW known, known = SkillBook[b.units[i].skills[n]],
           NEW c, c = Summon(b, i, known)
    PROVE  Mid(c, 0) /\ i \in Living(c)
<1> DEFINE summons == known.summons
           free == FreeSlots(b, b.units[i].side)
           m == AtMost(summons.count, Len(free))
           slots == SubSeq(free, 1, m)
           ctx == [b |-> b, i |-> i, summons |-> summons, skills |-> b.units[i].skills]
<1> SUFFICES ASSUME c # b PROVE Mid(c, 0) /\ i \in Living(c)
  BY SMTT(40)
<1>1. summons.count # 0 /\ MayEnlist(EntryOf(b.units[i], summons, free[1]))
  BY ZenonT(60) DEF Summon
<1>2. c = SummonFold!Fold(ctx, b, slots)
  <2>1. FoldLeft(LAMBDA d, slot : Joined([d EXCEPT !.units[i] = Parted(@, summons)],
                                         CopyOf(b, i, summons, slot)), b, slots)
          = SummonFold!Fold(ctx, b, slots)
    BY SummonFolds, ZenonT(60)
  <2> HIDE DEF ctx
  <2> QED BY <2>1, ZenonT(60) DEF Summon
<1>3. /\ ctx.b = b /\ ctx.i = i /\ ctx.summons = summons /\ ctx.skills = b.units[i].skills
  OBVIOUS
<1>4. Fielded(b) /\ i \in Ids(b) /\ Able(b.units[i])
  BY DEF Mid, Sturdy, Fielded, Living
<1>5. summons.count \in Int
  <2>1. b.units[i].skills[n] \in DOMAIN SkillBook
    BY <1>4 DEF Able
  <2>2. summons \in SummonType
    BY <2>1, SkillsAreTyped, SkillFields
  <2> HIDE DEF summons
  <2>3. summons.count \in 0..MaxSummonCount
    BY <2>2 DEF SummonType
  <2> QED BY <2>3
<1>6. Listed(free)
  BY <1>4, SlotsAreListed
<1> HIDE DEF free, ctx
<1>7. Listed(slots)
  <2>1. Len(free) \in Nat
    BY <1>6, ListedFacts
  <2>2. m \in Int /\ m <= Len(free)
    <3>1. Len(free) \in Int
      BY <2>1
    <3> HIDE DEF summons
    <3> QED BY ONLY <1>5, <3>1, AtMostFacts
  <2> HIDE DEF m
  <2> QED BY <1>6, <2>2, SubIsListed
<1> HIDE DEF slots
<1>8. Len(slots) \in Nat /\ DOMAIN slots = 1..Len(slots)
  BY <1>7, ListedFacts
<1>9. SummonKeeps(ctx, 0, b)
  BY <1>3 DEF SummonKeeps
<1>10. ASSUME NEW d, NEW k, NEW l, NEW slot, SummonKeeps(ctx, k, d)
       PROVE  SummonKeeps(ctx, l, SummonStep(ctx, d, slot))
  <2>1. Mid(d, 0) /\ i \in Living(d) /\ d.units[i].skills = b.units[i].skills
    BY <1>3, <1>10 DEF SummonKeeps
  <2> DEFINE e == Joined([d EXCEPT !.units[i] = Parted(@, summons)], CopyOf(b, i, summons, slot))
  <2>2. SummonStep(ctx, d, slot) = e
    BY <1>3 DEF SummonStep
  <2> HIDE DEF summons
  <2>3. summons = SkillBook[b.units[i].skills[n]].summons
    BY DEF summons
  <2>4. e = Joined([d EXCEPT !.units[i] = Parted(@, summons)], CopyOf(b, i, summons, slot))
    BY SMTT(40)
  <2> HIDE DEF e
  <2>5. summons.count # 0 /\ MayEnlist(EntryOf(b.units[i], summons, free[1]))
    BY <1>1, SMTT(40) DEF summons
  <2>6. CanCall(b, i, summons)
    BY <1>4, <2>3, <2>5 DEF CanCall
  <2>7. Mid(e, 0) /\ i \in Living(e) /\ e.units[i].skills = b.units[i].skills
    BY <2>1, <2>4, <2>6, SummonStepKeeps
  <2> QED BY <1>3, <2>2, <2>7 DEF SummonKeeps, e
<1>11. SummonKeeps(ctx, Len(slots), SummonFold!Fold(ctx, b, slots))
  BY <1>8, <1>9, <1>10, SummonFold!FoldKeeps
<1> QED BY <1>2, <1>3, <1>11 DEF SummonKeeps

-----------------------------------------------------------------------------
(* Advance: the clock goes to whoever is due.                              *)

(* The turn is taken, and nothing else: one more turn on the account of i. *)
Turned(b, c, i) ==
    /\ Fielded(c) /\ Lined(c) /\ c.asked = b.asked /\ c.finished = b.finished /\ c.units = b.units
    /\ \A j \in Living(b) : c.queue.entries[j].speed = b.queue.entries[j].speed
    /\ \A j \in Living(b) \ {i} : c.queue.entries[j].turns = b.queue.entries[j].turns
    /\ b.queue.entries[i].turns \in Nat
    /\ c.queue.entries[i].turns = b.queue.entries[i].turns + 1

LEMMA TurnIsTaken ==
    ASSUME NEW b, Fielded(b), Lined(b), Living(b) # {}, NEW i, i = Foremost(b.queue),
           NEW c, c = [b EXCEPT !.queue = TurnOf(b.queue, i)]
    PROVE  i \in Living(b) /\ Turned(b, c, i)
<1> DEFINE q == b.queue
           r == TurnOf(q, i)
           e == q.entries[i]
<1>1. Sound(q, Scale) /\ Queued(q) = Living(b) /\ Scale \in Nat /\ Scale <= Scale
  BY ScaleAssumption DEF Lined
<1>2. Leads(q, i)
  BY <1>1, OneUnitLeads DEF Sound
<1>3. Sound(r, Scale) /\ i \in Queued(q)
  BY <1>1, <1>2, TurnKeeps DEF Leads
<1>4. e \in Entry(Scale) /\ \A j \in Queued(q) : q.entries[j] \in Entry(Scale)
  BY <1>1, <1>3 DEF Sound, IsQueue
<1>5. /\ c.queue = r /\ c.units = b.units /\ c.asked = b.asked /\ c.finished = b.finished
      /\ DOMAIN c = BattleFields
  BY DEF Fielded, BattleFields
<1>6. r.entries = [q.entries EXCEPT ![i] = [e EXCEPT !.turns = e.turns + 1,
                                                     !.next = e.next + Wait(e.speed)]]
  BY <1>1 DEF TurnOf, Sound, IsQueue
<1>7. DOMAIN e = {"speed", "next", "turns", "seq"} /\ e.turns \in Nat
  BY <1>4 DEF Entry
<1> HIDE DEF e
<1>8. /\ DOMAIN r.entries = DOMAIN q.entries
      /\ \A j \in Queued(q) \ {i} : r.entries[j] = q.entries[j]
      /\ r.entries[i].speed = e.speed /\ r.entries[i].turns = e.turns + 1
  BY <1>3, <1>6, <1>7 DEF Queued
<1> HIDE DEF r
<1>9. Ids(c) = Ids(b) /\ Living(c) = Living(b)
  BY <1>5 DEF Ids, Living
<1>10. Fielded(c)
  BY <1>5, <1>9 DEF Fielded
<1>11. Lined(c)
  BY <1>1, <1>3, <1>5, <1>8, <1>9 DEF Lined, Queued
<1> QED BY <1>1, <1>3, <1>5, <1>7, <1>8, <1>10, <1>11 DEF Turned, e

\* A summon whose stay is over leaves, and is the only one to.
LEMMA ExpiredKeeps ==
    ASSUME NEW b, Mid(b, 0), AtSpeed(b), NEW i \in Living(b), b.units[i].summoner # 0,
           NEW c, Turned(b, c, i)
    PROVE  Mid(Dismiss(c, i), 0) /\ AtSpeed(Dismiss(c, i))
<1> DEFINE d == Struck(c, i)
<1>1. /\ Fielded(c) /\ Lined(c) /\ c.asked = 0 /\ c.units = b.units
      /\ Ids(c) = Ids(b) /\ Living(c) = Living(b)
  BY DEF Turned, Mid, Ids, Living
<1>2. /\ \A j \in Ids(b) : Born(b, j)
      /\ \A j \in Living(b) : OnTime(b, j) /\ LivesBy(b, j, 0)
  BY DEF Mid, Sturdy, Families
<1>3. ~c.units[i].dead /\ i \in Ids(b)
  BY <1>1 DEF Living
<1>4. Dismiss(c, i) = CheckEnd(d)
  BY <1>3 DEF Dismiss
<1>5. /\ Fielded(d) /\ Ids(d) = Ids(b) /\ d.queue = RemoveFrom(c.queue, i)
      /\ \A j \in Ids(b) : j # i => d.units[j] = b.units[j]
      /\ d.units[i].dead
  BY <1>1, <1>3, StruckFacts
<1>6. \A j \in Ids(b) : Born(c, j)
  BY <1>1, <1>2 DEF Born
<1> HIDE DEF d
<1>7. ASSUME NEW j \in Living(b) \ {i}
      PROVE  OnTime(c, j) /\ LivesBy(d, j, 0)
  <2>1. j \in Ids(b) /\ Born(b, j) /\ OnTime(b, j) /\ LivesBy(b, j, 0)
    BY <1>2, SMTT(40) DEF Living
  <2>2. OnTime(c, j)
    BY <1>1, <2>1 DEF OnTime, Turned
  <2>3. CASE b.units[j].bound
    <3> DEFINE s == b.units[j].summoner
    <3>1. s # 0 /\ s \in Ids(b) /\ ~CallsNobody(b.units[s])
      BY <2>1, <2>3 DEF Born
    <3>2. CallsNobody(b.units[i])
      BY <1>2, <1>3 DEF Born
    <3>3. d.units[s] = b.units[s] /\ d.units[j] = b.units[j]
      BY <1>5, <2>1, <3>1, <3>2
    <3> QED BY <2>1, <2>2, <2>3, <3>1, <3>3 DEF LivesBy
  <2>4. CASE ~b.units[j].bound
    BY <1>5, <2>1, <2>2, <2>4 DEF LivesBy
  <2> QED BY <2>3, <2>4
<1>8. Mid(d, 0)
  BY <1>1, <1>6, <1>7, StruckFamilies DEF d
<1>9. Living(d) = Living(b) \ {i}
  BY <1>5 DEF Living
<1>10. AtSpeed(d)
  <2>1. Sound(c.queue, Scale) /\ Queued(c.queue) = Living(b)
    BY <1>1 DEF Lined
  <2>2. \A j \in Living(b) \ {i} : d.queue.entries[j] = c.queue.entries[j]
    BY <1>5, <2>1, RemoveFacts
  <2>3. \A j \in Living(b) : j \in Ids(b)
    BY DEF Living
  <2>4. \A j \in Living(b) \ {i} :
            d.queue.entries[j].speed = b.queue.entries[j].speed /\ d.units[j] = b.units[j]
    BY <1>5, <2>2, <2>3 DEF Turned
  <2> QED BY <1>9, <2>4 DEF AtSpeed
<1>11. Touch(d, CheckEnd(d)) /\ CheckEnd(d).units = d.units
  BY <1>5, TouchCheckEnd
<1> DEFINE f == CheckEnd(d)
<1> HIDE DEF f
<1>12. Touch(d, f) /\ f.units = d.units
  BY <1>11 DEF f
<1>13. Mid(f, 0) /\ AtSpeed(f)
  BY <1>8, <1>10, <1>12, TouchKeeps, SpeedsStay
<1> QED BY <1>4, <1>13 DEF f

\* Whoever stays has a turn less of its stay, and a turn more behind it.
LEMMA ServedKeeps ==
    ASSUME NEW b, Mid(b, 0), NEW i \in Living(b), NEW c, Turned(b, c, i),
           ~(b.units[i].summoner # 0 /\ b.units[i].leaves = 0),
           NEW d, d = IF b.units[i].summoner # 0 /\ b.units[i].leaves > 0
                      THEN [c EXCEPT !.units[i].leaves = @ - 1] ELSE c
    PROVE  Mid(d, 0) /\ Ids(d) = Ids(b)
<1>1. /\ Fielded(c) /\ Lined(c) /\ c.asked = 0 /\ c.units = b.units
      /\ Ids(c) = Ids(b) /\ Living(c) = Living(b)
  BY DEF Turned, Mid, Ids, Living
<1>2. /\ \A j \in Ids(b) : Born(b, j)
      /\ \A j \in Living(b) : OnTime(b, j) /\ LivesBy(b, j, 0)
  BY DEF Mid, Sturdy, Families
<1>3. i \in Ids(b) /\ Able(b.units[i])
  BY <1>1 DEF Living, Fielded
<1>4. \A j \in Ids(b) : Born(c, j)
  BY <1>1, <1>2 DEF Born
<1>5. \A j \in Living(b) : LivesBy(c, j, 0)
  BY <1>1, <1>2, SMTT(40) DEF LivesBy
<1>6. \A j \in Living(b) \ {i} : OnTime(c, j)
  BY <1>1, <1>2 DEF OnTime, Turned
<1>7. CASE ~(b.units[i].summoner # 0 /\ b.units[i].leaves > 0)
  <2>1. d = c
    BY <1>7
  <2>2. ~(b.units[i].summoner # 0 /\ b.units[i].leaves >= 0)
    BY <1>3, <1>7 DEF Able
  <2>3. OnTime(c, i)
    BY <1>1, <2>2 DEF OnTime
  <2>4. Families(c, 0)
    BY <1>1, <1>4, <1>5, <1>6, <2>3 DEF Families
  <2> QED BY <1>1, <2>1, <2>4 DEF Mid, Sturdy
<1>8. CASE b.units[i].summoner # 0 /\ b.units[i].leaves > 0
  <2> DEFINE u == b.units[i]
             v == [u EXCEPT !.leaves = u.leaves - 1]
             units == [b.units EXCEPT ![i] = v]
  <2>1. d = [c EXCEPT !.units = units]
    BY <1>1, <1>8
  <2>2. Listed(units) /\ DOMAIN units = DOMAIN b.units
        /\ \A k \in DOMAIN b.units : units[k] = IF k = i THEN v ELSE b.units[k]
    BY <1>1, ReplacedIsListed DEF Fielded
  <2>3. /\ Able(v) /\ v.dead = u.dead /\ v.skills = u.skills /\ v.summoner = u.summoner
        /\ v.bound = u.bound /\ v.leaves = u.leaves - 1
    <3> HIDE DEF u
    <3>1. Able(u)
      BY <1>3 DEF u
    <3>2. /\ DOMAIN v = UnitFields /\ v.dead = u.dead /\ v.bound = u.bound /\ v.leaves = u.leaves - 1
          /\ v.statuses = u.statuses /\ v.skills = u.skills /\ v.passives = u.passives
          /\ v.summoner = u.summoner /\ v.base = u.base
      BY <3>1 DEF Able, UnitFields
    <3>3. u.leaves - 1 \in Int
      BY <3>1 DEF Able
    <3> HIDE DEF v
    <3>4. Able(v)
      BY <3>1, <3>2, <3>3 DEF Able
    <3> QED BY <3>2, <3>4
  <2> HIDE DEF units, v
  <2>4. /\ DOMAIN d = BattleFields /\ d.units = units /\ d.queue = c.queue /\ d.asked = 0
        /\ d.finished = c.finished
    BY <1>1, <2>1 DEF Fielded, BattleFields
  <2>5. Ids(d) = Ids(b) /\ d.units[i] = v /\ \A j \in Ids(b) : j # i => d.units[j] = b.units[j]
    BY <1>3, <2>2, <2>4 DEF Ids
  <2>6. Fielded(d)
    BY <1>1, <2>2, <2>3, <2>4, <2>5 DEF Fielded
  <2>7. \A j \in Ids(b) : /\ d.units[j].dead = b.units[j].dead
                          /\ d.units[j].skills = b.units[j].skills
                          /\ d.units[j].summoner = b.units[j].summoner
                          /\ d.units[j].bound = b.units[j].bound
    BY <2>3, <2>5
  <2>8. Living(d) = Living(b)
    BY <2>5, <2>7 DEF Living
  <2>9. Lined(d)
    BY <1>1, <2>4, <2>8 DEF Lined
  <2>10. \A j \in Ids(b) : CallsNobody(d.units[j]) = CallsNobody(b.units[j])
    BY <2>7 DEF CallsNobody
  <2>11. \A j \in Ids(b) : Born(d, j)
    BY <1>2, <2>5, <2>7, <2>10 DEF Born
  <2>12. \A j \in Living(b) : LivesBy(d, j, 0)
    <3>1. \A j \in Living(b) : j \in Ids(b) /\ Born(b, j)
      BY <1>2, SMTT(40) DEF Living
    <3> QED BY <1>2, <2>7, <3>1 DEF LivesBy, Born
  <2>13. ASSUME NEW j \in Living(b) \ {i} PROVE OnTime(d, j)
    <3>1. j \in Ids(b) /\ Born(b, j) /\ OnTime(b, j)
      BY <1>2 DEF Living
    <3>2. d.units[j] = b.units[j] /\ d.queue.entries[j].turns = b.queue.entries[j].turns
      BY <2>4, <2>5, <3>1 DEF Turned
    <3> DEFINE s == b.units[j].summoner
    <3>3. s # 0 => d.units[s].skills = b.units[s].skills
      BY <2>7, <3>1, SMTT(40) DEF Born
    <3> QED BY <3>1, <3>2, <3>3 DEF OnTime
  <2>14. OnTime(d, i)
    <3>1. /\ b.queue.entries[i].turns \in Nat
          /\ d.queue.entries[i].turns = b.queue.entries[i].turns + 1
      BY <2>4 DEF Turned
    <3>2. u.leaves \in Int /\ u.leaves > 0
      BY <1>3, <1>8 DEF Able
    <3>3. (u.leaves - 1) + (b.queue.entries[i].turns + 1) = u.leaves + b.queue.entries[i].turns
      BY <3>1, <3>2
    <3>4. OnTime(b, i) /\ u.summoner \in Ids(b)
      BY <1>2, <1>3, <1>8 DEF Born
    <3> DEFINE s == b.units[u.summoner]
               turns == b.queue.entries[i].turns
    <3>5. \E n \in DOMAIN s.skills : SkillBook[s.skills[n]].summons.lasts = u.leaves + turns
      BY <1>8, <3>2, <3>4 DEF OnTime
    <3>6. d.units[i].leaves + d.queue.entries[i].turns = u.leaves + turns
      BY <2>3, <2>5, <3>1, <3>3
    <3>7. d.units[d.units[i].summoner].skills = s.skills
      BY <1>3, <2>7, <3>4
    <3> HIDE DEF s, turns, u
    <3> QED BY <3>5, <3>6, <3>7 DEF OnTime
  <2>15. Families(d, 0)
    BY <2>5, <2>8, <2>11, <2>12, <2>13, <2>14 DEF Families
  <2> QED BY <2>4, <2>5, <2>6, <2>9, <2>15 DEF Mid, Sturdy
<1> QED BY <1>7, <1>8

\* Whoever is asked is somebody who lives.
LEMMA AskedSteady ==
    ASSUME NEW b, Mid(b, 0), AtSpeed(b), NEW i \in Living(b)
    PROVE  Steady([b EXCEPT !.asked = i])
<1> DEFINE c == [b EXCEPT !.asked = i]
<1>1. Fielded(b) /\ Lined(b) /\ Families(b, 0)
  BY DEF Mid, Sturdy
<1>2. /\ DOMAIN c = BattleFields /\ c.units = b.units /\ c.queue = b.queue /\ c.asked = i
      /\ c.finished = b.finished
  BY <1>1 DEF Fielded, BattleFields
<1> HIDE DEF c
<1>3. Ids(c) = Ids(b) /\ Living(c) = Living(b)
  BY <1>2 DEF Ids, Living
<1>4. Fielded(c) /\ Lined(c)
  BY <1>1, <1>2, <1>3 DEF Fielded, Lined
<1>5. Families(c, 0)
  <2>1. \A j \in Ids(b) : Born(c, j)
    BY <1>1, <1>2, <1>3 DEF Families, Born
  <2>2. \A j \in Living(b) : OnTime(c, j) /\ LivesBy(c, j, 0)
    BY <1>1, <1>2, ZenonT(60) DEF Families, OnTime, LivesBy
  <2> QED BY <1>3, <2>1, <2>2 DEF Families
<1>6. AtSpeed(c) /\ Living(c) # {}
  BY <1>2, <1>3 DEF AtSpeed
<1>7. Steady(c)
  BY <1>2, <1>3, <1>4, <1>5, <1>6 DEF Steady, Sturdy
<1> QED BY <1>7 DEF c

LEMMA AdvancedSteady ==
    ASSUME NEW b, Steady(b), ~b.finished, b.asked = 0
    PROVE  Steady(Advanced(b))
<1> DEFINE i == Foremost(b.queue)
           begun == [b EXCEPT !.queue = TurnOf(b.queue, i)]
           expired == b.units[i].summoner # 0 /\ b.units[i].leaves = 0
           served == IF b.units[i].summoner # 0 /\ b.units[i].leaves > 0
                     THEN [begun EXCEPT !.units[i].leaves = @ - 1] ELSE begun
           ticked == Renew(TickStatuses(served, i), i)
           c == RetuneAll(ticked)
<1>1. Mid(b, 0) /\ Fielded(b) /\ Lined(b) /\ AtSpeed(b) /\ Living(b) # {}
  BY DEF Steady, Sturdy, Mid
<1>2. i \in Living(b) /\ Turned(b, begun, i)
  <2> HIDE DEF i
  <2> QED BY <1>1, TurnIsTaken DEF i
<1>3. begun.units = b.units
  BY <1>2 DEF Turned
<1>4. Advanced(b) = IF expired THEN Settle(Dismiss(begun, i))
                    ELSE CASE c.units[i].dead -> Settle(c)
                           [] ~c.units[i].dead /\ Holds(b.units[i].statuses, Stun) ->
                                 Settle(SpendCooldowns(c, i))
                           [] OTHER -> [c EXCEPT !.asked = i]
  BY DEF Advanced
<1> HIDE DEF i, begun
<1>5. CASE expired
  <2>1. Mid(Dismiss(begun, i), 0) /\ AtSpeed(Dismiss(begun, i))
    BY <1>1, <1>2, <1>5, ExpiredKeeps
  <2>2. Steady(Settle(Dismiss(begun, i)))
    BY <2>1, SettledSteady
  <2> QED BY <1>4, <1>5, <2>2
<1>6. CASE ~expired
  <2>1. Mid(served, 0) /\ Ids(served) = Ids(b)
    BY <1>1, <1>2, <1>6, ServedKeeps
  <2> HIDE DEF served
  <2>2. Amid(served, Ids(b)) /\ i \in Ids(b)
    BY <1>2, <2>1 DEF Amid, Living
  <2>3. Amid(ticked, Ids(b))
    BY <2>2, TickStatusesAmid, RenewAmid
  <2> HIDE DEF ticked
  <2>4. Mid(c, 0) /\ AtSpeed(c) /\ Ids(c) = Ids(b) /\ Fielded(c)
    <3>1. Mid(ticked, 0) /\ Ids(ticked) = Ids(b)
      BY <2>3 DEF Amid
    <3>2. Mid(c, 0) /\ AtSpeed(c) /\ Frame(ticked, c)
      BY <3>1, RetuneKeeps
    <3> HIDE DEF c
    <3> QED BY <3>1, <3>2 DEF Frame, Mid, Sturdy
  <2> HIDE DEF c
  <2>5. Steady(Settle(c))
    BY <2>4, SettledSteady
  <2>6. Steady(Settle(SpendCooldowns(c, i)))
    <3> DEFINE d == SpendCooldowns(c, i)
    <3>1. /\ Touch(c, d)
          /\ \A j \in Ids(c) : /\ d.units[j].statuses = c.units[j].statuses
                               /\ d.units[j].base = c.units[j].base
      BY <2>4, CooldownsTouch
    <3> HIDE DEF d
    <3>2. Mid(d, 0) /\ AtSpeed(d)
      BY <2>4, <3>1, TouchKeeps, SpeedsStay
    <3>3. Steady(Settle(d))
      BY <3>2, SettledSteady
    <3> QED BY <3>3 DEF d
  <2>7. ~c.units[i].dead => Steady([c EXCEPT !.asked = i])
    BY <2>2, <2>4, AskedSteady DEF Living
  <2> HIDE DEF expired
  <2>8. \/ Advanced(b) \in {Settle(c), Settle(SpendCooldowns(c, i))}
        \/ ~c.units[i].dead /\ Advanced(b) = [c EXCEPT !.asked = i]
    BY <1>4, <1>6
  <2> QED BY <2>5, <2>6, <2>7, <2>8
<1> QED BY <1>5, <1>6

-----------------------------------------------------------------------------
(* Act and Pass: the turn of whoever is asked ends.                        *)

\* The prompt is taken down.
LEMMA UnaskedKeeps ==
    ASSUME NEW b, Steady(b), NEW c, c = [b EXCEPT !.asked = 0]
    PROVE  /\ Mid(c, 0) /\ c.units = b.units /\ c.finished = b.finished /\ Living(c) = Living(b)
           /\ ~b.finished => AtSpeed(c)
<1>1. Fielded(b) /\ Lined(b) /\ Families(b, 0)
  BY DEF Steady, Sturdy
<1>2. /\ DOMAIN c = BattleFields /\ c.units = b.units /\ c.queue = b.queue /\ c.asked = 0
      /\ c.finished = b.finished
  BY <1>1 DEF Fielded, BattleFields
<1>3. Ids(c) = Ids(b) /\ Living(c) = Living(b)
  BY <1>2 DEF Ids, Living
<1>4. Fielded(c) /\ Lined(c)
  BY <1>1, <1>2, <1>3 DEF Fielded, Lined
<1>5. Families(c, 0)
  <2>1. \A j : Born(c, j) = Born(b, j)
    BY <1>2, <1>3 DEF Born
  <2>2. \A j : OnTime(c, j) = OnTime(b, j)
    BY <1>2, <1>3 DEF OnTime
  <2>3. \A j : LivesBy(c, j, 0) = LivesBy(b, j, 0)
    BY <1>2, <1>3 DEF LivesBy
  <2> QED BY <1>1, <1>3, <2>1, <2>2, <2>3 DEF Families
<1>6. ~b.finished => AtSpeed(c)
  BY <1>2, <1>3 DEF Steady, AtSpeed
<1> QED BY <1>2, <1>3, <1>4, <1>5, <1>6 DEF Mid, Sturdy

LEMMA PassedSteady ==
    ASSUME NEW b, Steady(b)
    PROVE  Steady(Passed(b))
<1> DEFINE c == [b EXCEPT !.asked = 0]
           d == SpendCooldowns(c, b.asked)
<1>1. Mid(c, 0) /\ c.finished = b.finished /\ (~b.finished => AtSpeed(c))
  BY UnaskedKeeps
<1>2. Passed(b) = Settle(d)
  BY DEF Passed
<1> HIDE DEF c
<1>3. Fielded(c)
  BY <1>1 DEF Mid, Sturdy
<1>4. /\ Touch(c, d) /\ d.finished = c.finished
      /\ \A j \in Ids(c) : /\ d.units[j].statuses = c.units[j].statuses
                           /\ d.units[j].base = c.units[j].base
  BY <1>3, CooldownsTouch
<1> HIDE DEF d
<1>5. Mid(d, 0) /\ (~d.finished => AtSpeed(d))
  BY <1>1, <1>4, TouchKeeps, SpeedsStay
<1> QED BY <1>2, <1>5, SettledSteady

LEMMA FrameTrans ==
    ASSUME NEW b, NEW c, NEW d, Frame(b, c), Frame(c, d)
    PROVE  Frame(b, d)
BY DEF Frame, Same

LEMMA ActedSteady ==
    ASSUME NEW b, Steady(b), b.asked # 0, NEW n \in DOMAIN b.units[b.asked].skills, NEW aim
    PROVE  Steady(Acted(b, n, aim))
<1> DEFINE i == b.asked
           known == SkillBook[b.units[i].skills[n]]
           brought == Swing(known, SeenFor(b.units[i], known.selfRequires))
           quiet == [b EXCEPT !.asked = 0]
           spent == SpendCooldowns(quiet, i)
           begun == [SpendCooldowns(b, i) EXCEPT !.units[i].cool[n] = known.cooldown, !.asked = 0]
           priced == SpendHealth(begun, i, known)
           paid == Spend(priced, i, known)
           worn == InflictAll(paid, i, i, FromSkill(known), known.selfApplies)
           joined == Summon(worn, i, known)
<1>1. Acted(b, n, aim) = Aimed(joined, i, known, aim, brought)
  BY DEF Acted
<1>2. i \in Living(b) /\ i \in Ids(b) /\ Fielded(b) /\ Able(b.units[i])
  BY DEF Steady, Sturdy, Fielded, Living
<1>3. b.units[i].skills[n] \in DOMAIN SkillBook
  BY <1>2 DEF Able
<1>4. known \in SkillType /\ known.selfApplies \in Seq(ApplicationType)
  BY <1>3, SkillsAreTyped, SkillFields
<1>5. /\ Mid(quiet, 0) /\ Fielded(quiet) /\ Ids(quiet) = Ids(b) /\ quiet.units = b.units
      /\ Living(quiet) = Living(b)
  <2>1. Mid(quiet, 0) /\ quiet.units = b.units /\ Living(quiet) = Living(b)
    BY UnaskedKeeps
  <2> HIDE DEF quiet
  <2> QED BY <2>1 DEF Mid, Sturdy, Ids
<1>6. begun = [spent EXCEPT !.units[i].cool[n] = known.cooldown]
  <2> DEFINE f == [m \in DOMAIN b.units[i].cool |->
                      IF b.units[i].cool[m] > 0 THEN b.units[i].cool[m] - 1 ELSE 0]
             units == [b.units EXCEPT ![i].cool = f]
             more == [units EXCEPT ![i].cool[n] = known.cooldown]
  <2>1. DOMAIN b = BattleFields
    BY <1>2 DEF Fielded
  <2>2. SpendCooldowns(b, i) = [b EXCEPT !.units = units]
    BY <2>1 DEF SpendCooldowns, BattleFields
  <2>3. spent = [quiet EXCEPT !.units = units]
    BY <1>5, <2>1 DEF SpendCooldowns, BattleFields
  <2> HIDE DEF units, known, i
  <2>4. begun = [[b EXCEPT !.units = more] EXCEPT !.asked = 0]
    BY <2>1, <2>2 DEF BattleFields
  <2>5. [spent EXCEPT !.units[i].cool[n] = known.cooldown] = [quiet EXCEPT !.units = more]
    BY <1>5, <2>1, <2>3 DEF BattleFields
  <2> HIDE DEF more
  <2>6. [[b EXCEPT !.units = more] EXCEPT !.asked = 0] = [quiet EXCEPT !.units = more]
    BY <2>1 DEF BattleFields
  <2> QED BY <2>4, <2>5, <2>6
<1> DEFINE cool == [spent.units[i].cool EXCEPT ![n] = known.cooldown]
<1>7. [spent EXCEPT !.units[i].cool[n] = known.cooldown] = [spent EXCEPT !.units[i].cool = cool]
  OBVIOUS
<1> HIDE DEF i, known, quiet, begun, brought
<1>8. Touch(quiet, spent)
  BY <1>5, CooldownsTouch
<1> HIDE DEF spent, cool
<1>9. Touch(spent, begun)
  BY <1>6, <1>7, <1>8, TouchCool DEF Touch
<1>10. Touch(quiet, begun)
  BY <1>8, <1>9, TouchTrans
<1>11. Touch(begun, priced)
  BY <1>9, SpendHealthTouch DEF Touch
<1> HIDE DEF priced
<1>12. Touch(quiet, priced)
  BY <1>10, <1>11, TouchTrans
<1>13. Amid(priced, Ids(b)) /\ Frame(quiet, priced)
  BY <1>5, <1>12, TouchAmid DEF Amid, Touch
<1>14. Amid(paid, Ids(b)) /\ Frame(priced, paid)
  BY <1>13, SpendKeeps
<1> HIDE DEF paid
<1>15. Fielded(paid)
  BY <1>14, AmidFacts
<1>16. Touch(paid, worn)
  BY <1>4, <1>15, InflictAllTouch
<1> HIDE DEF worn
<1>17. Amid(worn, Ids(b)) /\ Frame(quiet, worn)
  BY <1>13, <1>14, <1>16, TouchAmid, FrameTrans DEF Touch
<1>18. Mid(worn, 0) /\ i \in Living(worn) /\ worn.units[i].skills = b.units[i].skills
  BY <1>2, <1>5, <1>17, FrameFacts DEF Amid, Frame, Same
<1>19. n \in DOMAIN worn.units[i].skills /\ known = SkillBook[worn.units[i].skills[n]]
  BY <1>18 DEF known, i
<1>20. Mid(joined, 0) /\ i \in Living(joined)
  BY <1>18, <1>19, SummonKeepsIt
<1> HIDE DEF joined
<1>21. Amid(joined, Ids(joined)) /\ i \in Ids(joined)
  BY <1>20 DEF Amid, Living
<1>22. Steady(Aimed(joined, i, known, aim, brought))
  BY <1>4, <1>21, AimedSteady
<1> QED BY <1>1, <1>22

-----------------------------------------------------------------------------
(* The theorems.                                                           *)

IInv == Steady(fight)

LEMMA InitSteady == Init => IInv
BY NewSteady DEF Init, IInv

LEMMA QuietSteady ==
    ASSUME NEW b, Steady(b)
    PROVE  Steady(Quiet(b))
BY SourceSteady DEF Quiet

LEMMA UnderSteady ==
    ASSUME NEW b, Steady(b), NEW fate
    PROVE  /\ Steady(Under(b, fate)) /\ Under(b, fate).asked = b.asked
           /\ Under(b, fate).finished = b.finished /\ Under(b, fate).units = b.units
BY SourceSteady DEF Under

LEMMA NextSteady == IInv /\ [Next]_vars => IInv'
<1> SUFFICES ASSUME IInv, [Next]_vars PROVE IInv'
  OBVIOUS
<1>1. Steady(fight)
  BY DEF IInv
<1>2. CASE Advance
  <2>1. PICK fate \in Fates : fight' = Quiet(Advanced(Under(fight, fate)))
    BY <1>2 DEF Advance
  <2>2. Steady(Under(fight, fate)) /\ ~Under(fight, fate).finished /\ Under(fight, fate).asked = 0
    BY <1>1, <1>2, UnderSteady DEF Advance
  <2>3. Steady(Quiet(Advanced(Under(fight, fate))))
    BY <2>2, AdvancedSteady, QuietSteady
  <2> QED BY <2>1, <2>3 DEF IInv
<1>3. CASE Act
  <2>1. PICK choice \in Offered(fight, fight.asked), fate \in Fates :
            fight' = Quiet(Acted(Under(fight, fate), choice[1], choice[2]))
    BY <1>3 DEF Act
  <2> DEFINE b == Under(fight, fate)
  <2>2. Steady(b) /\ b.asked = fight.asked /\ b.units = fight.units /\ b.asked # 0
    BY <1>1, <1>3, UnderSteady DEF Act
  <2>3. choice[1] \in DOMAIN fight.units[fight.asked].skills
    BY DEF Offered
  <2> HIDE DEF b
  <2>4. choice[1] \in DOMAIN b.units[b.asked].skills
    BY <2>2, <2>3
  <2>5. Steady(Quiet(Acted(b, choice[1], choice[2])))
    BY <2>2, <2>4, ActedSteady, QuietSteady
  <2> QED BY <2>1, <2>5 DEF IInv, b
<1>4. CASE Pass
  <2>1. Steady(Passed(fight))
    BY <1>1, PassedSteady
  <2> QED BY <1>4, <2>1 DEF Pass, IInv
<1>5. CASE Rest
  BY <1>1, <1>5 DEF Rest, vars, IInv
<1>6. CASE UNCHANGED vars
  BY <1>1, <1>6 DEF vars, IInv
<1> QED BY <1>2, <1>3, <1>4, <1>5, <1>6 DEF Next

\* Between two calls a battle is steady: its units are what the books say, the queue holds
\* the living, each summon has a caster that could call it, and whoever is asked lives.
THEOREM Inductive == Spec => []IInv
<1>1. Init => IInv
  BY InitSteady
<1>2. IInv /\ [Next]_vars => IInv'
  BY NextSteady
<1> QED BY <1>1, <1>2, PTL DEF Spec

\* In whatever order units join, act, change speed in the middle of a turn, are summoned,
\* run out, fall and drag others with them: the queue holds the living and nobody else, at
\* the speeds they have, with no turn in the past or more than a whole wait away.
THEOREM QueueFollows == Spec => []QueueFollowsTheUnits
<1>1. IInv => QueueFollowsTheUnits
  BY DEF IInv, Steady, Sturdy, Lined, Sound, AtSpeed, QueueFollowsTheUnits
<1> QED BY <1>1, Inductive, PTL

\* A bound summon never outlives its summoner between two calls, however the summoner
\* fell; and what is left of a timed stay and the turns it has had add up to what a skill
\* of its caster gave it.
THEOREM SummonsInTime == Spec => []SummonsLeaveInTime
<1>1. IInv => SummonsLeaveInTime
  <2> SUFFICES ASSUME IInv, NEW i \in Living(fight)
               PROVE  LET u == fight.units[i] IN
                      /\ u.bound => ~fight.units[u.summoner].dead
                      /\ u.leaves >= 0 /\ u.summoner # 0 =>
                            \E n \in DOMAIN fight.units[u.summoner].skills :
                                LET summons == SkillBook[fight.units[u.summoner].skills[n]].summons IN
                                summons.lasts = u.leaves + fight.queue.entries[i].turns
    BY DEF SummonsLeaveInTime
  <2>1. Families(fight, 0) /\ i \in Ids(fight)
    BY DEF IInv, Steady, Sturdy, Living
  <2>2. Born(fight, i) /\ OnTime(fight, i) /\ LivesBy(fight, i, 0)
    BY <2>1 DEF Families
  <2> QED BY <2>2, ZenonT(60) DEF Born, OnTime, LivesBy
<1> QED BY <1>1, Inductive, PTL
=============================================================================
