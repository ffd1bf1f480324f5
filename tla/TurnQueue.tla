------------------------------ MODULE TurnQueue ------------------------------
(***************************************************************************)
(* The turn order of a battle (internal/core/atb).  A queue is the value   *)
(* [now, entries, joined]: the clock, an entry per unit that is waiting,   *)
(* and how many have ever joined, which breaks the last tie.  The slice    *)
(* the code sorts is a function here: the code never relies on its order   *)
(* without sorting it first, and (next, speed, seq) is a total order.      *)
(*                                                                         *)
(* GrantTurn and Delay are not here: nothing outside the package's tests   *)
(* calls them.                                                             *)
(***************************************************************************)
EXTENDS Integers

CONSTANT Scale          \* the length of a cycle, 1_000_000 in the code

ASSUME ScaleAssumption == Scale \in Nat \ {0}

AtLeastOne(n) == IF n < 1 THEN 1 ELSE n

Wait(speed) == AtLeastOne(Scale \div AtLeastOne(speed))

NewQueue == [now |-> 0, entries |-> <<>>, joined |-> 0]

Queued(q) == DOMAIN q.entries

\* Add of a name the queue does not hold; the caller turns a refusal away.
AddTo(q, id, speed) ==
    LET s == AtLeastOne(speed)
        e == [speed |-> s, next |-> q.now + Wait(s), turns |-> 0, seq |-> q.joined + 1]
    IN  [q EXCEPT !.joined = @ + 1,
                  !.entries = [i \in Queued(q) \cup {id} |-> IF i = id THEN e ELSE q.entries[i]]]

RemoveFrom(q, id) ==
    [q EXCEPT !.entries = [i \in Queued(q) \ {id} |-> q.entries[i]]]

\* Who acts before whom: the earlier, then the faster, then who joined first.
Precedes(e, f) ==
    \/ e.next < f.next
    \/ e.next = f.next /\ e.speed > f.speed
    \/ e.next = f.next /\ e.speed = f.speed /\ e.seq < f.seq

Foremost(q) ==
    CHOOSE i \in Queued(q) : \A j \in Queued(q) \ {i} : Precedes(q.entries[i], q.entries[j])

\* The clock goes to the unit that is due, and its next turn is one wait on.
TurnOf(q, id) ==
    LET e == q.entries[id] IN
    [q EXCEPT !.now = e.next,
              !.entries[id] = [e EXCEPT !.turns = @ + 1, !.next = e.next + Wait(e.speed)]]

Pending(q, id) == LET left == q.entries[id].next - q.now IN IF left < 0 THEN 0 ELSE left

\* Mutant: a new speed, and the same wait.
RescheduleInPlace(q, id, speed) == [q EXCEPT !.entries[id].speed = AtLeastOne(speed)]

\* A unit whose speed changed keeps the share of its wait it has not served.
Reschedule(q, id, speed) ==
    LET s == AtLeastOne(speed)
        e == q.entries[id]
    IN  IF e.speed = s THEN q
        ELSE [q EXCEPT !.entries[id] =
                 [e EXCEPT !.speed = s, !.next = q.now + (Pending(q, id) * e.speed) \div s]]

-----------------------------------------------------------------------------
(* What one unit still owes before its turn: time times speed.             *)
Debt(q, id) == (q.entries[id].next - q.now) * q.entries[id].speed

(* Nobody is due in the past, and nobody, however often its speed changed  *)
(* since it last acted, owes more than the one cycle a full wait is worth: *)
(* the integer division in Reschedule rounds for the unit, never against   *)
(* it, and TurnOf restarts it from the same account.                       *)
WaitsAreOwed(q) ==
    \A i \in Queued(q) : q.entries[i].next >= q.now /\ Debt(q, i) <= Scale
=============================================================================
