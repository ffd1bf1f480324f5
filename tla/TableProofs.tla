----------------------------- MODULE TableProofs -----------------------------
(***************************************************************************)
(* The transport around a room, for any number of connections and any order *)
(* of losses, returns, timers and departures.  It drives the room through   *)
(* the room's own inputs and nothing else, so that what RoomProofs says of  *)
(* a room holds behind the sockets; every seat is somebody's; and at one    *)
(* table the clock is on the seat that is asked.                            *)
(*                                                                          *)
(* The second half is what the people at one table are told: a watcher has  *)
(* the whole record, a player has what the room said to their seat, and     *)
(* nobody who sits there is reported gone.  Its invariants are one          *)
(* connection to a seat that nobody came back to early, what each           *)
(* connection has been written, and, in a single battle, that the record is *)
(* what each seat was sent.                                                 *)
(*                                                                          *)
(* The last part is the registry the transport finds its rooms in, for any  *)
(* number of codes, rooms, callers, closers and waiters.  The count of      *)
(* goroutines is the number of them that are alive, whoever is enrolled is  *)
(* alive and not being closed, and from that follow the promises of Open,   *)
(* Close, Wait and of every question.                                       *)
(***************************************************************************)
EXTENDS Table, Registry, RoomProofs, FiniteSetTheorems, SequenceTheorems

\* A step of the transport is one of these.
LEMMA TableCases ==
  ASSUME TableNext
  PROVE \/ \E c \in Conns : \E first \in Firsts : Dial(c, first)
        \/ \E c \in Conns :
             \/ Refused(c) \/ Watch(c) \/ Sit(c) \/ Rejoin(c)
             \/ Act(c) \/ Chatter(c) \/ Overdue(c)
             \/ Lose(c) \/ Notice(c) \/ Part(c) \/ Release(c)
        \/ \E t \in Ids : Fire(t)
        \/ \E t \in Ids, s \in Seat : AllowanceOut(t, s) \/ WindowFires(t, s) \/ WindowClosed(t, s)
        \/ Stopping \/ ClosedAll \/ Returned
BY DEF TableNext

-----------------------------------------------------------------------------
(* The room behind the transport. *)

FirstWord == [watch : BOOLEAN, token : 0..MaxTokens]

\* Whoever dials says a first word.
LEMMA FirstsAreWords == \A first \in Firsts : first \in FirstWord
<1>1. ASSUME NEW k \in 0..MaxTokens PROVE [watch |-> FALSE, token |-> k] \in FirstWord
  BY DEF FirstWord
<1>2. [watch |-> TRUE, token |-> 0] \in FirstWord
  BY RoomAssumption DEF FirstWord
<1> QED BY <1>1, <1>2 DEF Firsts

\* What a connection says first is a first word, and its place is a seat or none.
Introduced ==
  /\ hello \in [Conns -> FirstWord]
  /\ place \in [Conns -> Seat \cup {"none"}]

\* A player whose token is known comes back to a seat.
LEMMA ReturnsToASeat ==
  ASSUME NEW h, Gate(h) = "rejoined"
  PROVE (CHOOSE seat \in SeatsFor(h.token) : TRUE) \in Seat
<1>1. SeatsFor(h.token) # {}
  BY DEF Gate
<1> QED BY <1>1 DEF SeatsFor

\* Both stay so: a first word is checked before it is kept, a place is a seat.
LEMMA Introductions == TableSpec => []Introduced
<1>1. TableInit => Introduced
  <2>1. [watch |-> FALSE, token |-> 0] \in FirstWord
    BY RoomAssumption DEF FirstWord
  <2> QED BY <2>1 DEF TableInit, Introduced
<1>2. Introduced /\ [TableNext]_tableVars => Introduced'
  <2> SUFFICES ASSUME Introduced, [TableNext]_tableVars PROVE Introduced'
    OBVIOUS
  <2> USE DEF Introduced
  <2>1. ASSUME NEW c \in Conns, NEW first \in Firsts, Dial(c, first)
        PROVE Introduced'
    BY <2>1, FirstsAreWords DEF Dial
  <2>2. ASSUME NEW c \in Conns, Sit(c) PROVE Introduced'
    <3>1. FreeSeat \in Seat
      BY Seats DEF FreeSeat
    <3> QED BY <2>2, <3>1 DEF Sit
  <2>3. ASSUME NEW c \in Conns, Rejoin(c) PROVE Introduced'
    <3>1. Gate(Said(c)) = "rejoined"
      BY <2>3 DEF Rejoin
    <3>2. (CHOOSE seat \in SeatsFor(hello[c].token) : TRUE) \in Seat
      BY <3>1, ReturnsToASeat DEF Said
    <3> QED BY <2>3, <3>2 DEF Rejoin
  <2>4. ASSUME NEW c \in Conns,
               \/ Refused(c) \/ Watch(c) \/ Act(c) \/ Chatter(c) \/ Overdue(c)
               \/ Lose(c) \/ Notice(c) \/ Part(c) \/ Release(c)
        PROVE Introduced'
    BY <2>4 DEF Refused, Watch, Act, Chatter, Overdue, Lose, Notice, Part, Release
  <2>5. ASSUME NEW t \in Ids, Fire(t)
        PROVE Introduced'
    BY <2>5 DEF Fire
  <2>6. ASSUME NEW t \in Ids, NEW s \in Seat,
               AllowanceOut(t, s) \/ WindowFires(t, s) \/ WindowClosed(t, s)
        PROVE Introduced'
    BY <2>6 DEF AllowanceOut, WindowFires, WindowClosed
  <2>7. ASSUME Stopping \/ ClosedAll \/ Returned
        PROVE Introduced'
    BY <2>7 DEF Stopping, ClosedAll, Returned
  <2>8. CASE UNCHANGED tableVars
    BY <2>8 DEF tableVars, transport
  <2> QED BY <2>1, <2>2, <2>3, <2>4, <2>5, <2>6, <2>7, <2>8, TableCases
<1> QED BY <1>1, <1>2, PTL DEF TableSpec

\* What the transport says for a connection is a hello the room knows.
LEMMA SaidIsAHello ==
  ASSUME hello \in [Conns -> FirstWord], NEW c \in Conns
  PROVE Said(c) \in Hellos
<1>1. hello[c].watch \in BOOLEAN /\ hello[c].token \in 0..MaxTokens
  BY DEF FirstWord
<1> QED BY <1>1 DEF Said, Hellos

\* Nothing the transport does reaches the room but an input of the room: whatever
\* is late, lost or repeated outside, the room behind it takes a step of its own.
LEMMA RoomSteps ==
  ASSUME Introduced, [TableNext]_tableVars
  PROVE [Next]_vars
<1>1. ASSUME NEW c \in Conns, Sit(c) PROVE Next
  <2>1. Join(Said(c))
    BY <1>1 DEF Sit
  <2>2. \E h \in Hellos : Join(h)
    <3>1. Said(c) \in Hellos
      BY SaidIsAHello DEF Introduced
    <3> WITNESS Said(c) \in Hellos
    <3> QED BY <2>1
  <2> QED BY <2>2 DEF Next
<1>2. ASSUME NEW s \in Seat, Answer(s) \/ TurnTimedOut(s) \/ Left(s) PROVE Next
  BY <1>2 DEF Next
<1>3. ASSUME NEW c \in Conns, Act(c) PROVE Next
  <2>1. place[c] \in Seat /\ Answer(place[c])
    BY <1>3 DEF Act, Introduced
  <2> QED BY <1>2, <2>1
<1>4. ASSUME NEW t, NEW tb, NEW s \in Seat, GiveBack(t, tb, s) PROVE Next \/ UNCHANGED vars
  BY <1>2, <1>4 DEF GiveBack, Unknown
<1>5. ASSUME NEW c \in Conns, Part(c) PROVE Next \/ UNCHANGED vars
  <2> DEFINE tb == Freed(table[tableOf[c]], place[c], c)
  <2>1. UNCHANGED vars \/ (place[c] # "none" /\ GiveBack(tableOf[c], tb, place[c]))
    BY <1>5 DEF Part
  <2>2. place[c] # "none" => place[c] \in Seat
    BY DEF Introduced
  <2> HIDE DEF tb
  <2> QED BY <1>4, <2>1, <2>2
<1>6. ASSUME NEW t \in Ids, NEW s \in Seat, AllowanceOut(t, s) PROVE Next \/ UNCHANGED vars
  BY <1>2, <1>6 DEF AllowanceOut, Unknown
<1>7. ASSUME NEW t \in Ids, NEW s \in Seat, WindowClosed(t, s) PROVE Next \/ UNCHANGED vars
  BY <1>4, <1>7 DEF WindowClosed
<1>8. ASSUME NEW c \in Conns,
             \/ Refused(c) \/ Watch(c) \/ Rejoin(c) \/ Chatter(c) \/ Overdue(c)
             \/ Lose(c) \/ Notice(c) \/ Release(c)
      PROVE UNCHANGED vars
  BY <1>8 DEF Refused, Watch, Rejoin, Chatter, Overdue, Unknown, Lose, Notice, Release
<1>9. ASSUME NEW c \in Conns, NEW first \in Firsts, Dial(c, first) PROVE UNCHANGED vars
  BY <1>9 DEF Dial
<1>10. ASSUME NEW t \in Ids, NEW s \in Seat, Fire(t) \/ WindowFires(t, s) PROVE UNCHANGED vars
  BY <1>10 DEF Fire, WindowFires
<1>11. ASSUME Stopping \/ ClosedAll \/ Returned PROVE UNCHANGED vars
  BY <1>11 DEF Stopping, ClosedAll, Returned
<1>12. CASE UNCHANGED tableVars
  BY <1>12 DEF tableVars
<1>13. ASSUME NEW t \in Ids, Fire(t) PROVE UNCHANGED vars
  BY <1>13 DEF Fire
<1> QED
  BY <1>1, <1>3, <1>5, <1>6, <1>7, <1>8, <1>9, <1>10, <1>11, <1>12, <1>13, TableCases

\* The transport implements the room: a room behind it, with its connections,
\* timers and departures, behaves as a room does.
THEOREM TransportDrivesTheRoom == TableSpec => Spec
<1>1. TableInit => Init
  BY DEF TableInit
<1>2. Introduced /\ [TableNext]_tableVars => [Next]_vars
  BY RoomSteps
<1> QED BY <1>1, <1>2, Introductions, PTL DEF TableSpec, Spec

\* So two players at a table are in the match Match describes, and somebody is
\* asked as long as it goes on.
THEOREM PlayersAreInAMatch == TableSpec => MatchSpec /\ []NeverStuck /\ []IInv
BY TransportDrivesTheRoom, Implements, NeverStuckInvariant, Inductive, PTL

-----------------------------------------------------------------------------
(* Types. *)

TableRecord ==
  [seats : [Seat -> Conns \cup {Absent}], rejoinable : [Seat -> BOOLEAN],
   holding : [Seat -> {"none", "running", "fired"}], ringing : SUBSET Seat,
   alarm : Seat \cup {"none"}, late : SUBSET Seat, watchers : SUBSET Conns,
   holders : Int, early : SUBSET Conns]

Phases == {"out", "claimed", "pumping", "parting", "releasing", "gone"}

\* A table nobody has made.
Untouched(tb) ==
  /\ tb.alarm = "none" /\ tb.late = {} /\ tb.ringing = {}
  /\ \A s \in Seat : tb.holding[s] = "none"

\* A connection that said hello holds a reference to a table that exists, one that
\* has not been answered sits nowhere, and a table nobody has made rings for nobody.
\* What was written to a connection is left out.
TransportOK ==
  /\ Introduced
  /\ phase \in [Conns -> Phases]
  /\ tableOf \in [Conns -> 0..MaxTables]
  /\ open \in [Conns -> BOOLEAN]
  /\ table \in [Ids -> TableRecord]
  /\ entry \in 0..MaxTables
  /\ made \in 0..MaxTables
  /\ entry \in {0, made}
  /\ down \in {"up", "told", "closed", "returned"}
  /\ \A c \in Conns : phase[c] \in {"claimed", "pumping", "parting", "releasing"} =>
       tableOf[c] \in Ids /\ tableOf[c] <= made
  /\ \A c \in Conns : phase[c] \in {"out", "claimed"} => place[c] = "none"
  /\ \A c \in Conns : phase[c] # "out" => made # 0
  /\ \A t \in Ids : t > made => Untouched(table[t])

\* A room waits on a seat or on nobody.
LEMMA AwaitsASeat ==
  ASSUME TypeOK'
  PROVE Awaiting' \in Seat \cup {"none"}
<1>1. DraftAwaiting' \in Seat \cup {"none"}
  BY Seats DEF DraftAwaiting
<1>2. asked' \in Seat \cup {"none"}
  BY DEF TypeOK
<1> QED BY <1>1, <1>2 DEF Awaiting

\* What an exchange leaves of the table it is for, and of the others.
LEMMA SettledLeaves ==
  ASSUME TransportOK, TypeOK', NEW t \in Ids, NEW tb \in TableRecord, NEW only \in Seat \cup {"none"},
         NEW before, Settled(t, tb, only, before)
  PROVE /\ open' \in [Conns -> BOOLEAN]
        /\ \A c \in Conns : open'[c] => open[c]
        /\ table' \in [Ids -> TableRecord]
        /\ \A u \in Ids : u # t => table'[u] = table[u]
        /\ table'[t].seats = tb.seats
        /\ table'[t].rejoinable = tb.rejoinable
        /\ table'[t].holding = tb.holding
        /\ table'[t].ringing = tb.ringing
        /\ table'[t].late = tb.late
        /\ table'[t].alarm = SetAlarm(tb.alarm, only)
<1> DEFINE kept == Kept(tb.watchers)
           cut == (tb.watchers \ kept) \cup (IF Finished' THEN tb.watchers ELSE {})
           alarm == SetAlarm(tb.alarm, only)
           left == kept \ cut
<1>1. /\ open' = [c \in Conns |-> open[c] /\ c \notin cut]
      /\ table' = [table EXCEPT ![t] = [tb EXCEPT !.alarm = alarm, !.watchers = left]]
  BY DEF Settled
<1>2. alarm \in Seat \cup {"none"}
  BY AwaitsASeat DEF SetAlarm, TableRecord
<1>3. left \in SUBSET Conns
  BY DEF Kept, TableRecord
<1> HIDE DEF alarm, left, cut
<1> DEFINE half == [tb EXCEPT !.alarm = alarm]
           new == [half EXCEPT !.watchers = left]
<1>4. /\ half \in TableRecord
      /\ half.alarm = alarm
      /\ half.seats = tb.seats /\ half.rejoinable = tb.rejoinable
      /\ half.holding = tb.holding /\ half.ringing = tb.ringing /\ half.late = tb.late
  BY <1>2 DEF TableRecord
<1>5. table' = [table EXCEPT ![t] = new]
  BY <1>1
<1> HIDE DEF half
<1>6. /\ new \in TableRecord
      /\ new.alarm = alarm
      /\ new.seats = tb.seats /\ new.rejoinable = tb.rejoinable
      /\ new.holding = tb.holding /\ new.ringing = tb.ringing /\ new.late = tb.late
  BY <1>3, <1>4 DEF TableRecord
<1> HIDE DEF new
<1>7. table'[t] = new /\ table' \in [Ids -> TableRecord] /\ \A u \in Ids : u # t => table'[u] = table[u]
  BY <1>5, <1>6 DEF TransportOK
<1>8. open' \in [Conns -> BOOLEAN] /\ \A c \in Conns : open'[c] => open[c]
  BY <1>1 DEF TransportOK
<1> QED BY <1>6, <1>7, <1>8 DEF alarm

\* And what is left of it when the room has gone.
LEMMA UnknownLeaves ==
  ASSUME TransportOK, NEW t \in Ids, NEW tb \in TableRecord, Unknown(t, tb)
  PROVE /\ open' \in [Conns -> BOOLEAN]
        /\ \A c \in Conns : open'[c] => open[c]
        /\ table' \in [Ids -> TableRecord]
        /\ \A u \in Ids : u # t => table'[u] = table[u]
        /\ table'[t].seats = tb.seats
        /\ table'[t].rejoinable = tb.rejoinable
        /\ table'[t].holding = tb.holding
        /\ table'[t].ringing = tb.ringing
        /\ table'[t].late = tb.late
        /\ table'[t].alarm = tb.alarm
<1> DEFINE new == [tb EXCEPT !.watchers = {}]
<1>1. /\ new \in TableRecord
      /\ new.alarm = tb.alarm
      /\ new.seats = tb.seats /\ new.rejoinable = tb.rejoinable
      /\ new.holding = tb.holding /\ new.ringing = tb.ringing /\ new.late = tb.late
  BY DEF TableRecord
<1>2. table' = [table EXCEPT ![t] = new]
  BY DEF Unknown
<1> HIDE DEF new
<1>3. table'[t] = new /\ table' \in [Ids -> TableRecord] /\ \A u \in Ids : u # t => table'[u] = table[u]
  BY <1>1, <1>2 DEF TransportOK
<1>4. open' \in [Conns -> BOOLEAN] /\ \A c \in Conns : open'[c] => open[c]
  BY DEF TransportOK, Unknown
<1> QED BY <1>1, <1>3, <1>4

\* What giving a seat back leaves: the clock is the room's, or the room is gone
\* and has not changed.
LEMMA GiveBackLeaves ==
  ASSUME TransportOK, TypeOK', NEW t \in Ids, NEW tb \in TableRecord, NEW s \in Seat,
         GiveBack(t, tb, s)
  PROVE /\ open' \in [Conns -> BOOLEAN]
        /\ \A c \in Conns : open'[c] => open[c]
        /\ table' \in [Ids -> TableRecord]
        /\ \A u \in Ids : u # t => table'[u] = table[u]
        /\ table'[t].seats = tb.seats
        /\ table'[t].rejoinable = tb.rejoinable
        /\ table'[t].holding = tb.holding
        /\ table'[t].ringing = tb.ringing
        /\ table'[t].late = tb.late
        /\ \/ ~Known /\ UNCHANGED vars /\ table'[t].alarm = tb.alarm
           \/ Known /\ table'[t].alarm = Awaiting'
<1>1. CASE ~Known /\ Unknown(t, tb)
  <2>1. UNCHANGED vars
    BY <1>1 DEF Unknown
  <2> QED BY <1>1, <2>1, UnknownLeaves
<1>2. CASE Known /\ Settled(t, tb, "none", got)
  <2>1. SetAlarm(tb.alarm, "none") = Awaiting'
    BY DEF SetAlarm
  <2> QED BY <1>2, <2>1, SettledLeaves
<1> QED BY <1>1, <1>2 DEF GiveBack

\* The table a departure starts from: the seat is nobody's if it was theirs.
LEMMA FreedIsATable ==
  ASSUME NEW tb \in TableRecord, NEW s \in Seat, NEW c
  PROVE /\ Freed(tb, s, c) \in TableRecord
        /\ Freed(tb, s, c).rejoinable = tb.rejoinable
        /\ Freed(tb, s, c).holding = tb.holding
        /\ Freed(tb, s, c).ringing = tb.ringing
        /\ Freed(tb, s, c).late = tb.late
        /\ Freed(tb, s, c).alarm = tb.alarm
        /\ \A x \in Seat : x # s => Freed(tb, s, c).seats[x] = tb.seats[x]
<1>1. CASE tb.seats[s] = c
  <2> DEFINE new == [tb EXCEPT !.seats = [tb.seats EXCEPT ![s] = Absent]]
  <2>1. Freed(tb, s, c) = new
    BY <1>1 DEF Freed
  <2>2. [tb.seats EXCEPT ![s] = Absent] \in [Seat -> Conns \cup {Absent}]
    BY DEF TableRecord
  <2> QED BY <2>1, <2>2 DEF TableRecord
<1>2. CASE tb.seats[s] # c
  BY <1>2 DEF Freed
<1> QED BY <1>1, <1>2

\* The table a new player sits down at, and the one a player comes back to.
SatDown(tb, s, c) == [tb EXCEPT !.rejoinable[s] = IssuesTokens, !.seats[s] = c]
CameBack(tb, s, c, early) ==
  [tb EXCEPT !.rejoinable[s] = TRUE, !.holding[s] = "none", !.seats[s] = c, !.early = early]

\* Sitting down touches the seat's own fields and nothing that rings.
LEMMA SatDownIsATable ==
  ASSUME NEW tb \in TableRecord, NEW s \in Seat, NEW c \in Conns
  PROVE /\ SatDown(tb, s, c) \in TableRecord
        /\ SatDown(tb, s, c).holding = tb.holding
        /\ SatDown(tb, s, c).ringing = tb.ringing
        /\ SatDown(tb, s, c).late = tb.late
        /\ SatDown(tb, s, c).alarm = tb.alarm
        /\ SatDown(tb, s, c).seats[s] = c
        /\ \A x \in Seat : x # s => SatDown(tb, s, c).seats[x] = tb.seats[x]
<1> DEFINE a == [tb EXCEPT !.rejoinable = [tb.rejoinable EXCEPT ![s] = IssuesTokens]]
           b == [a EXCEPT !.seats = [a.seats EXCEPT ![s] = c]]
<1>1. SatDown(tb, s, c) = b
  BY DEF SatDown
<1>2. /\ a \in TableRecord
      /\ a.holding = tb.holding /\ a.ringing = tb.ringing /\ a.late = tb.late
      /\ a.alarm = tb.alarm /\ a.seats = tb.seats
  BY RoomAssumption DEF TableRecord
<1> HIDE DEF a
<1>3. /\ b \in TableRecord
      /\ b.holding = a.holding /\ b.ringing = a.ringing /\ b.late = a.late
      /\ b.alarm = a.alarm /\ b.seats = [a.seats EXCEPT ![s] = c]
  BY <1>2 DEF TableRecord
<1> HIDE DEF b
<1>4. tb.seats \in [Seat -> Conns \cup {Absent}]
  BY DEF TableRecord
<1> QED BY <1>1, <1>2, <1>3, <1>4

\* Coming back stops the seat's window and touches nothing else that rings.
LEMMA CameBackIsATable ==
  ASSUME NEW tb \in TableRecord, NEW s \in Seat, NEW c \in Conns, NEW early \in SUBSET Conns
  PROVE /\ CameBack(tb, s, c, early) \in TableRecord
        /\ CameBack(tb, s, c, early).ringing = tb.ringing
        /\ CameBack(tb, s, c, early).late = tb.late
        /\ CameBack(tb, s, c, early).alarm = tb.alarm
        /\ CameBack(tb, s, c, early).seats[s] = c
        /\ CameBack(tb, s, c, early).holding[s] = "none"
        /\ \A x \in Seat : x # s =>
             /\ CameBack(tb, s, c, early).seats[x] = tb.seats[x]
             /\ CameBack(tb, s, c, early).holding[x] = tb.holding[x]
<1> DEFINE a == [tb EXCEPT !.rejoinable = [tb.rejoinable EXCEPT ![s] = TRUE]]
           h == [a EXCEPT !.holding = [a.holding EXCEPT ![s] = "none"]]
           b == [h EXCEPT !.seats = [h.seats EXCEPT ![s] = c]]
           e == [b EXCEPT !.early = early]
<1>1. CameBack(tb, s, c, early) = e
  BY DEF CameBack
<1>2. /\ a \in TableRecord
      /\ a.holding = tb.holding /\ a.ringing = tb.ringing /\ a.late = tb.late
      /\ a.alarm = tb.alarm /\ a.seats = tb.seats
  BY DEF TableRecord
<1> HIDE DEF a
<1>3. /\ h \in TableRecord
      /\ h.holding = [a.holding EXCEPT ![s] = "none"] /\ h.ringing = a.ringing /\ h.late = a.late
      /\ h.alarm = a.alarm /\ h.seats = a.seats
  BY <1>2 DEF TableRecord
<1> HIDE DEF h
<1>4. /\ b \in TableRecord
      /\ b.holding = h.holding /\ b.ringing = h.ringing /\ b.late = h.late
      /\ b.alarm = h.alarm /\ b.seats = [h.seats EXCEPT ![s] = c]
  BY <1>3 DEF TableRecord
<1> HIDE DEF b
<1>5. /\ e \in TableRecord
      /\ e.holding = b.holding /\ e.ringing = b.ringing /\ e.late = b.late
      /\ e.alarm = b.alarm /\ e.seats = b.seats
  BY <1>4 DEF TableRecord
<1> HIDE DEF e
<1>6. tb.seats \in [Seat -> Conns \cup {Absent}]
      /\ tb.holding \in [Seat -> {"none", "running", "fired"}]
  BY DEF TableRecord
<1> QED BY <1>1, <1>2, <1>3, <1>4, <1>5, <1>6

\* What sitting down leaves.
LEMMA SitLeaves ==
  ASSUME TransportOK, TypeOK', NEW c \in Conns, Sit(c)
  PROVE /\ FreeSeat \in Seat /\ tableOf[c] \in Ids /\ Known
        /\ Join(Said(c))
        /\ open' \in [Conns -> BOOLEAN]
        /\ \A d \in Conns : open'[d] => open[d]
        /\ table' \in [Ids -> TableRecord]
        /\ \A u \in Ids : u # tableOf[c] => table'[u] = table[u]
        /\ table'[tableOf[c]].holding = table[tableOf[c]].holding
        /\ table'[tableOf[c]].ringing = table[tableOf[c]].ringing
        /\ table'[tableOf[c]].late = table[tableOf[c]].late
        /\ table'[tableOf[c]].alarm = Awaiting'
        /\ table'[tableOf[c]].seats[FreeSeat] = c
        /\ \A x \in Seat : x # FreeSeat => table'[tableOf[c]].seats[x] = table[tableOf[c]].seats[x]
<1> DEFINE t == tableOf[c]
           s == FreeSeat
           tb == SatDown(table[t], s, c)
<1>1. s \in Seat /\ t \in Ids /\ table[t] \in TableRecord
  BY Seats DEF FreeSeat, Sit, TransportOK
<1>2. Known /\ Join(Said(c)) /\ Settled(t, tb, "none", got)
  BY DEF Sit, SatDown
<1>3. SetAlarm(tb.alarm, "none") = Awaiting'
  BY DEF SetAlarm
<1>4. /\ tb \in TableRecord
      /\ tb.holding = table[t].holding /\ tb.ringing = table[t].ringing /\ tb.late = table[t].late
      /\ tb.seats[s] = c /\ \A x \in Seat : x # s => tb.seats[x] = table[t].seats[x]
  BY <1>1, SatDownIsATable
<1>5. Settled(t, tb, "none", got) /\ t \in Ids
  BY <1>1, <1>2
<1> HIDE DEF tb, s, t
<1>6. /\ open' \in [Conns -> BOOLEAN]
      /\ \A d \in Conns : open'[d] => open[d]
      /\ table' \in [Ids -> TableRecord]
      /\ \A u \in Ids : u # t => table'[u] = table[u]
      /\ table'[t].seats = tb.seats
      /\ table'[t].holding = tb.holding
      /\ table'[t].ringing = tb.ringing
      /\ table'[t].late = tb.late
      /\ table'[t].alarm = Awaiting'
  BY <1>3, <1>4, <1>5, SettledLeaves
<1> QED BY <1>1, <1>2, <1>4, <1>6 DEF s, t

\* What coming back leaves, whether the record could be written or not.
LEMMA RejoinLeaves ==
  ASSUME TransportOK, TypeOK', NEW c \in Conns, Rejoin(c)
  PROVE \E s \in Seat :
        /\ tableOf[c] \in Ids /\ Known
        /\ UNCHANGED vars
        /\ place' = [place EXCEPT ![c] = s]
        /\ \/ phase' = [phase EXCEPT ![c] = "pumping"] /\ table'[tableOf[c]].alarm = Awaiting'
           \/ /\ phase' = [phase EXCEPT ![c] = "releasing"]
              /\ table'[tableOf[c]].alarm = table[tableOf[c]].alarm
        /\ open' \in [Conns -> BOOLEAN]
        /\ \A d \in Conns : open'[d] => open[d]
        /\ table' \in [Ids -> TableRecord]
        /\ \A u \in Ids : u # tableOf[c] => table'[u] = table[u]
        /\ table'[tableOf[c]].ringing = table[tableOf[c]].ringing
        /\ table'[tableOf[c]].late = table[tableOf[c]].late
        /\ table'[tableOf[c]].seats[s] = c
        /\ table'[tableOf[c]].holding[s] = "none"
        /\ \A x \in Seat : x # s =>
             /\ table'[tableOf[c]].seats[x] = table[tableOf[c]].seats[x]
             /\ table'[tableOf[c]].holding[x] = table[tableOf[c]].holding[x]
<1> DEFINE t == tableOf[c]
           s == CHOOSE seat \in SeatsFor(hello[c].token) : TRUE
           missed == \A d \in Conns : place[d] = s => phase[d] \in {"releasing", "gone"}
           early == IF missed THEN table[t].early ELSE table[t].early \cup {c}
           tb == CameBack(table[t], s, c, early)
<1>1. t \in Ids /\ table[t] \in TableRecord /\ Known /\ UNCHANGED vars
  BY DEF Rejoin, TransportOK
<1>2. s \in Seat
  <2>1. Gate(Said(c)) = "rejoined"
    BY DEF Rejoin
  <2> QED BY <2>1, ReturnsToASeat DEF Said
<1>3. early \in SUBSET Conns
  BY <1>1 DEF TableRecord
<1>4. /\ place' = [place EXCEPT ![c] = s]
      /\ \/ phase' = [phase EXCEPT ![c] = "pumping"] /\ Settled(t, tb, "none", [got EXCEPT ![c] = Resume(s)])
         \/ /\ phase' = [phase EXCEPT ![c] = "releasing"]
            /\ table' = [table EXCEPT ![t] = tb]
            /\ open' = [open EXCEPT ![c] = FALSE]
  BY DEF Rejoin, CameBack
<1> HIDE DEF early, s
<1>5. /\ tb \in TableRecord
      /\ tb.ringing = table[t].ringing /\ tb.late = table[t].late /\ tb.alarm = table[t].alarm
      /\ tb.seats[s] = c /\ tb.holding[s] = "none"
      /\ \A x \in Seat : x # s =>
           tb.seats[x] = table[t].seats[x] /\ tb.holding[x] = table[t].holding[x]
  BY <1>1, <1>2, <1>3, CameBackIsATable
<1> HIDE DEF tb
<1>6. CASE phase' = [phase EXCEPT ![c] = "pumping"] /\ Settled(t, tb, "none", [got EXCEPT ![c] = Resume(s)])
  <2>1. SetAlarm(tb.alarm, "none") = Awaiting'
    BY DEF SetAlarm
  <2>2. /\ open' \in [Conns -> BOOLEAN]
        /\ \A d \in Conns : open'[d] => open[d]
        /\ table' \in [Ids -> TableRecord]
        /\ \A u \in Ids : u # t => table'[u] = table[u]
        /\ table'[t].seats = tb.seats
        /\ table'[t].holding = tb.holding
        /\ table'[t].ringing = tb.ringing
        /\ table'[t].late = tb.late
        /\ table'[t].alarm = Awaiting'
    BY <1>1, <1>5, <1>6, <2>1, SettledLeaves
  <2> WITNESS s \in Seat
  <2> QED BY <1>1, <1>4, <1>5, <1>6, <2>2
<1>7. CASE /\ phase' = [phase EXCEPT ![c] = "releasing"]
           /\ table' = [table EXCEPT ![t] = tb]
           /\ open' = [open EXCEPT ![c] = FALSE]
  <2>1. /\ table' \in [Ids -> TableRecord] /\ table'[t] = tb
        /\ \A u \in Ids : u # t => table'[u] = table[u]
    BY <1>1, <1>5, <1>7 DEF TransportOK
  <2>2. open' \in [Conns -> BOOLEAN] /\ \A d \in Conns : open'[d] => open[d]
    BY <1>7 DEF TransportOK
  <2> WITNESS s \in Seat
  <2> QED BY <1>1, <1>4, <1>5, <1>7, <2>1, <2>2
<1> QED BY <1>4, <1>6, <1>7

\* What leaving a table leaves: the seat is held, or given back to the room.
LEMMA PartLeaves ==
  ASSUME TransportOK, TypeOK', NEW c \in Conns, Part(c)
  PROVE /\ tableOf[c] \in Ids
        /\ phase' = [phase EXCEPT ![c] = "releasing"]
        /\ open' \in [Conns -> BOOLEAN]
        /\ \A d \in Conns : open'[d] => open[d]
        /\ table' \in [Ids -> TableRecord]
        /\ \A u \in Ids : u # tableOf[c] => table'[u] = table[u]
        /\ table'[tableOf[c]].ringing = table[tableOf[c]].ringing
        /\ table'[tableOf[c]].late = table[tableOf[c]].late
        /\ \A x \in Seat : x # place[c] =>
             /\ table'[tableOf[c]].seats[x] = table[tableOf[c]].seats[x]
             /\ table'[tableOf[c]].holding[x] = table[tableOf[c]].holding[x]
        /\ \/ /\ UNCHANGED vars /\ table'[tableOf[c]].alarm = table[tableOf[c]].alarm
              /\ place[c] = "none"
           \/ /\ UNCHANGED vars /\ table'[tableOf[c]].alarm = table[tableOf[c]].alarm
              /\ place[c] \in Seat /\ table'[tableOf[c]].holding[place[c]] = "running"
           \/ /\ place[c] \in Seat
              /\ table'[tableOf[c]].holding[place[c]] = table[tableOf[c]].holding[place[c]]
              /\ \E tb \in TableRecord : GiveBack(tableOf[c], tb, place[c])
              /\ \/ ~Known /\ UNCHANGED vars /\ table'[tableOf[c]].alarm = table[tableOf[c]].alarm
                 \/ Known /\ table'[tableOf[c]].alarm = Awaiting'
<1> DEFINE t == tableOf[c]
           s == place[c]
           tb == Freed(table[t], s, c)
<1>1. /\ t \in Ids /\ table[t] \in TableRecord /\ s \in Seat \cup {"none"} /\ "none" \notin Seat
      /\ phase' = [phase EXCEPT ![c] = "releasing"]
  BY Seats DEF Part, TransportOK, Introduced
<1>2. CASE s = "none"
  <2> DEFINE new == [table[t] EXCEPT !.watchers = table[t].watchers \ {c}]
  <2>1. UNCHANGED <<vars, open>> /\ table' = [table EXCEPT ![t] = new]
    BY <1>2 DEF Part
  <2>2. /\ new \in TableRecord
        /\ new.alarm = table[t].alarm /\ new.seats = table[t].seats
        /\ new.holding = table[t].holding /\ new.ringing = table[t].ringing /\ new.late = table[t].late
    BY <1>1 DEF TableRecord
  <2> HIDE DEF new
  <2>3. /\ table' \in [Ids -> TableRecord] /\ table'[t] = new
        /\ \A u \in Ids : u # t => table'[u] = table[u]
    BY <1>1, <2>1, <2>2 DEF TransportOK
  <2>4. open' \in [Conns -> BOOLEAN] /\ \A d \in Conns : open'[d] => open[d]
    BY <2>1 DEF TransportOK
  <2> QED BY <1>1, <1>2, <2>1, <2>2, <2>3, <2>4
<1>3. CASE s \in Seat
  <2>1. /\ tb \in TableRecord
        /\ tb.holding = table[t].holding /\ tb.ringing = table[t].ringing
        /\ tb.late = table[t].late /\ tb.alarm = table[t].alarm
        /\ \A x \in Seat : x # s => tb.seats[x] = table[t].seats[x]
    BY <1>1, <1>3, FreedIsATable
  <2>2. \/ UNCHANGED <<vars, open>> /\ table' = [table EXCEPT ![t] = [tb EXCEPT !.holding[s] = "running"]]
        \/ GiveBack(t, tb, s)
    BY <1>1, <1>3 DEF Part
  <2> HIDE DEF tb
  <2>3. CASE UNCHANGED <<vars, open>> /\ table' = [table EXCEPT ![t] = [tb EXCEPT !.holding[s] = "running"]]
    <3> DEFINE new == [tb EXCEPT !.holding = [tb.holding EXCEPT ![s] = "running"]]
    <3>1. /\ new \in TableRecord
          /\ new.alarm = tb.alarm /\ new.seats = tb.seats
          /\ new.holding = [tb.holding EXCEPT ![s] = "running"]
          /\ new.ringing = tb.ringing /\ new.late = tb.late
      BY <1>3, <2>1 DEF TableRecord
    <3>2. table' = [table EXCEPT ![t] = new]
      BY <2>3
    <3> HIDE DEF new
    <3>3. /\ table' \in [Ids -> TableRecord] /\ table'[t] = new
          /\ \A u \in Ids : u # t => table'[u] = table[u]
      BY <1>1, <3>1, <3>2 DEF TransportOK
    <3>4. tb.holding \in [Seat -> {"none", "running", "fired"}]
      BY <2>1 DEF TableRecord
    <3>5. open' \in [Conns -> BOOLEAN] /\ \A d \in Conns : open'[d] => open[d]
      BY <2>3 DEF TransportOK
    <3> QED BY <1>1, <1>3, <2>1, <2>3, <3>1, <3>3, <3>4, <3>5
  <2>4. CASE GiveBack(t, tb, s)
    <3>1. \E b \in TableRecord : GiveBack(t, b, s)
      <4> USE <2>1
      <4> WITNESS tb \in TableRecord
      <4> QED BY <2>4
    <3>2. /\ open' \in [Conns -> BOOLEAN]
          /\ \A d \in Conns : open'[d] => open[d]
          /\ table' \in [Ids -> TableRecord]
          /\ \A u \in Ids : u # t => table'[u] = table[u]
          /\ table'[t].seats = tb.seats
          /\ table'[t].holding = tb.holding
          /\ table'[t].ringing = tb.ringing
          /\ table'[t].late = tb.late
          /\ \/ ~Known /\ UNCHANGED vars /\ table'[t].alarm = tb.alarm
             \/ Known /\ table'[t].alarm = Awaiting'
      BY <1>1, <1>3, <2>1, <2>4, GiveBackLeaves
    <3> QED BY <1>1, <1>3, <2>1, <3>1, <3>2
  <2> QED BY <2>2, <2>3, <2>4
<1> QED BY <1>1, <1>2, <1>3

\* What dialling leaves: one more reference to the table of the code.
LEMMA DialLeaves ==
  ASSUME TransportOK, NEW c \in Conns, NEW first \in Firsts, Dial(c, first)
  PROVE /\ UNCHANGED <<vars, place, open, down>>
        /\ phase[c] = "out" /\ phase' = [phase EXCEPT ![c] = "claimed"]
        /\ entry' \in Ids /\ entry' = made' /\ made' >= made
        /\ entry = 0 => made' = made + 1
        /\ entry # 0 => entry' = entry
        /\ tableOf' = [tableOf EXCEPT ![c] = entry']
        /\ table' \in [Ids -> TableRecord]
        /\ \A u \in Ids :
             /\ table'[u].seats = table[u].seats /\ table'[u].holding = table[u].holding
             /\ table'[u].ringing = table[u].ringing /\ table'[u].late = table[u].late
             /\ table'[u].alarm = table[u].alarm
<1> DEFINE t == IF entry = 0 THEN made + 1 ELSE entry
           new == [table[t] EXCEPT !.holders = table[t].holders + 1]
<1>1. /\ t \in Ids /\ entry' = t /\ made' = (IF entry = 0 THEN made + 1 ELSE made)
      /\ tableOf' = [tableOf EXCEPT ![c] = t]
      /\ table' = [table EXCEPT ![t] = new]
  BY DEF Dial, Claimed
<1>2. table[t] \in TableRecord
  BY <1>1 DEF TransportOK
<1>3. /\ new \in TableRecord
      /\ new.seats = table[t].seats /\ new.holding = table[t].holding
      /\ new.ringing = table[t].ringing /\ new.late = table[t].late /\ new.alarm = table[t].alarm
  BY <1>2 DEF TableRecord
<1>4. UNCHANGED <<vars, place, open, down>> /\ phase[c] = "out" /\ phase' = [phase EXCEPT ![c] = "claimed"]
  BY DEF Dial
<1>5. made \in Nat /\ entry \in {0, made}
  BY TableAssumption DEF TransportOK
<1>6. entry' = made' /\ made' >= made /\ (entry = 0 => made' = made + 1) /\ (entry # 0 => entry' = entry)
  BY <1>1, <1>5
<1> HIDE DEF new, t
<1>7. table' \in [Ids -> TableRecord] /\ table'[t] = new /\ \A u \in Ids : u # t => table'[u] = table[u]
  BY <1>1, <1>3 DEF TransportOK
<1> QED BY <1>1, <1>3, <1>4, <1>6, <1>7

\* What letting go of a table leaves.
LEMMA ReleaseLeaves ==
  ASSUME TransportOK, NEW c \in Conns, Release(c)
  PROVE /\ UNCHANGED <<vars, place, made, down>>
        /\ phase[c] = "releasing" /\ phase' = [phase EXCEPT ![c] = "gone"]
        /\ tableOf[c] \in Ids /\ tableOf' = [tableOf EXCEPT ![c] = 0]
        /\ open' \in [Conns -> BOOLEAN] /\ \A d \in Conns : open'[d] => open[d]
        /\ entry' \in {0, entry}
        /\ table' \in [Ids -> TableRecord]
        /\ \A u \in Ids :
             /\ table'[u].seats = table[u].seats /\ table'[u].holding = table[u].holding
             /\ table'[u].ringing = table[u].ringing /\ table'[u].late = table[u].late
             /\ \/ table'[u].alarm = table[u].alarm
                \/ table'[u].alarm = "none" /\ entry' = 0
<1> DEFINE t == tableOf[c]
           alone == table[t].holders = 1 /\ entry = t
           alarm == IF alone THEN "none" ELSE table[t].alarm
           half == [table[t] EXCEPT !.holders = table[t].holders - 1]
           new == [half EXCEPT !.alarm = alarm]
<1>1. /\ UNCHANGED <<vars, place, made, down>>
      /\ phase[c] = "releasing" /\ phase' = [phase EXCEPT ![c] = "gone"]
      /\ tableOf' = [tableOf EXCEPT ![c] = 0]
      /\ open' = [open EXCEPT ![c] = FALSE]
      /\ entry' = IF alone THEN 0 ELSE entry
      /\ table' = [table EXCEPT ![t].holders = @ - 1, ![t].alarm = IF alone THEN "none" ELSE @]
  BY DEF Release
<1>2. t \in Ids /\ table[t] \in TableRecord
  BY <1>1 DEF TransportOK
<1>3. table' = [table EXCEPT ![t] = new]
  <2> DEFINE first == [table EXCEPT ![t] = half]
  <2>1. first \in [Ids -> {table[u] : u \in Ids} \cup {half}] /\ first[t] = half
    BY <1>2 DEF TransportOK
  <2>2. table' = [first EXCEPT ![t] = [first[t] EXCEPT !.alarm = IF alone THEN "none" ELSE first[t].alarm]]
    BY <1>1
  <2>3. half.alarm = table[t].alarm
    BY <1>2 DEF TableRecord
  <2> HIDE DEF half
  <2>4. table' = [first EXCEPT ![t] = [half EXCEPT !.alarm = alarm]]
    BY <2>1, <2>2, <2>3
  <2> QED BY <2>4
<1>4. /\ half \in TableRecord
      /\ half.seats = table[t].seats /\ half.holding = table[t].holding
      /\ half.ringing = table[t].ringing /\ half.late = table[t].late
  BY <1>2 DEF TableRecord
<1>5. alarm \in Seat \cup {"none"} /\ (alarm = table[t].alarm \/ (alarm = "none" /\ entry' = 0))
  BY <1>1, <1>2 DEF TableRecord
<1> HIDE DEF half, alarm
<1>6. /\ new \in TableRecord /\ new.alarm = alarm
      /\ new.seats = half.seats /\ new.holding = half.holding
      /\ new.ringing = half.ringing /\ new.late = half.late
  BY <1>4, <1>5 DEF TableRecord
<1> HIDE DEF new
<1>7. table' \in [Ids -> TableRecord] /\ table'[t] = new /\ \A u \in Ids : u # t => table'[u] = table[u]
  BY <1>2, <1>3, <1>6 DEF TransportOK
<1>8. open' \in [Conns -> BOOLEAN] /\ \A d \in Conns : open'[d] => open[d]
  BY <1>1 DEF TransportOK
<1>9. entry' \in {0, entry}
  BY <1>1
<1>10. \A u \in Ids :
        /\ table'[u].seats = table[u].seats /\ table'[u].holding = table[u].holding
        /\ table'[u].ringing = table[u].ringing /\ table'[u].late = table[u].late
        /\ \/ table'[u].alarm = table[u].alarm
           \/ table'[u].alarm = "none" /\ entry' = 0
  BY <1>4, <1>5, <1>6, <1>7
<1> HIDE DEF t, alone
<1> QED BY <1>1, <1>2, <1>7, <1>8, <1>9, <1>10 DEF t

\* What the allowance running out leaves: its report is on its way.
LEMMA FireLeaves ==
  ASSUME TransportOK, NEW t \in Ids, Fire(t)
  PROVE /\ table[t].alarm \in Seat
        /\ table' \in [Ids -> TableRecord]
        /\ \A u \in Ids : u # t => table'[u] = table[u]
        /\ table'[t].seats = table[t].seats /\ table'[t].holding = table[t].holding
        /\ table'[t].ringing = table[t].ringing
        /\ table'[t].alarm = "none" /\ table'[t].late = table[t].late \cup {table[t].alarm}
<1> DEFINE half == [table[t] EXCEPT !.alarm = "none"]
           new == [half EXCEPT !.late = table[t].late \cup {table[t].alarm}]
<1>1. table[t] \in TableRecord
  BY DEF TransportOK
<1>2. table[t].alarm \in Seat
  BY <1>1 DEF Fire, TableRecord
<1>3. table' = [table EXCEPT ![t] = new]
  <2> DEFINE first == [table EXCEPT ![t] = half]
  <2>1. table' = [first EXCEPT ![t] = [first[t] EXCEPT !.late = first[t].late \cup {table[t].alarm}]]
    BY DEF Fire
  <2>2. first \in [Ids -> {table[u] : u \in Ids} \cup {half}] /\ first[t] = half
    BY DEF TransportOK
  <2>3. half.late = table[t].late
    BY <1>1 DEF TableRecord
  <2> HIDE DEF half
  <2>4. table' = [first EXCEPT ![t] = [half EXCEPT !.late = half.late \cup {table[t].alarm}]]
    BY <2>1, <2>2
  <2>5. table' = [first EXCEPT ![t] = new]
    BY <2>3, <2>4
  <2> HIDE DEF new
  <2> QED BY <2>5
<1>4. /\ half \in TableRecord /\ half.alarm = "none"
      /\ half.seats = table[t].seats /\ half.holding = table[t].holding
      /\ half.ringing = table[t].ringing
  BY <1>1 DEF TableRecord
<1>5. table[t].late \cup {table[t].alarm} \in SUBSET Seat
  BY <1>1, <1>2 DEF TableRecord
<1> HIDE DEF half
<1>6. /\ new \in TableRecord /\ new.alarm = half.alarm
      /\ new.seats = half.seats /\ new.holding = half.holding
      /\ new.ringing = half.ringing /\ new.late = table[t].late \cup {table[t].alarm}
  BY <1>4, <1>5 DEF TableRecord
<1> HIDE DEF new
<1>7. table' \in [Ids -> TableRecord] /\ table'[t] = new /\ \A u \in Ids : u # t => table'[u] = table[u]
  BY <1>3, <1>6 DEF TransportOK
<1> QED BY <1>2, <1>4, <1>6, <1>7

\* What a window running out leaves.
LEMMA WindowFiresLeaves ==
  ASSUME TransportOK, NEW t \in Ids, NEW s \in Seat, WindowFires(t, s)
  PROVE /\ table' \in [Ids -> TableRecord]
        /\ \A u \in Ids : u # t => table'[u] = table[u]
        /\ table'[t].seats = table[t].seats /\ table'[t].late = table[t].late
        /\ table'[t].alarm = table[t].alarm
        /\ table'[t].ringing = table[t].ringing \cup {s}
        /\ table'[t].holding = [table[t].holding EXCEPT ![s] = "fired"]
<1> DEFINE half == [table[t] EXCEPT !.holding = [table[t].holding EXCEPT ![s] = "fired"]]
           new == [half EXCEPT !.ringing = table[t].ringing \cup {s}]
<1>1. table[t] \in TableRecord
  BY DEF TransportOK
<1>2. table' = [table EXCEPT ![t] = new]
  <2> DEFINE first == [table EXCEPT ![t] = half]
  <2>1. table' = [first EXCEPT ![t] = [first[t] EXCEPT !.ringing = first[t].ringing \cup {s}]]
    BY DEF WindowFires
  <2>2. first \in [Ids -> {table[u] : u \in Ids} \cup {half}] /\ first[t] = half
    BY DEF TransportOK
  <2>3. half.ringing = table[t].ringing
    BY <1>1 DEF TableRecord
  <2> HIDE DEF half
  <2>4. table' = [first EXCEPT ![t] = [half EXCEPT !.ringing = half.ringing \cup {s}]]
    BY <2>1, <2>2
  <2>5. table' = [first EXCEPT ![t] = new]
    BY <2>3, <2>4
  <2> HIDE DEF new
  <2> QED BY <2>5
<1>3. /\ half \in TableRecord /\ half.alarm = table[t].alarm
      /\ half.seats = table[t].seats /\ half.late = table[t].late
      /\ half.holding = [table[t].holding EXCEPT ![s] = "fired"]
  BY <1>1 DEF TableRecord
<1>4. table[t].ringing \cup {s} \in SUBSET Seat
  BY <1>1 DEF TableRecord
<1> HIDE DEF half
<1>5. /\ new \in TableRecord /\ new.alarm = half.alarm
      /\ new.seats = half.seats /\ new.holding = half.holding
      /\ new.late = half.late /\ new.ringing = table[t].ringing \cup {s}
  BY <1>3, <1>4 DEF TableRecord
<1> HIDE DEF new
<1>6. table' \in [Ids -> TableRecord] /\ table'[t] = new /\ \A u \in Ids : u # t => table'[u] = table[u]
  BY <1>2, <1>5 DEF TransportOK
<1> QED BY <1>3, <1>5, <1>6

\* What the report of a timeout leaves: the room was told and the clock is its
\* own, or the room had gone, or it was waiting on somebody else.
LEMMA AllowanceOutLeaves ==
  ASSUME TransportOK, TypeOK', NEW t \in Ids, NEW s \in Seat, AllowanceOut(t, s)
  PROVE /\ open' \in [Conns -> BOOLEAN] /\ \A d \in Conns : open'[d] => open[d]
        /\ table' \in [Ids -> TableRecord]
        /\ \A u \in Ids : u # t => table'[u] = table[u]
        /\ table'[t].seats = table[t].seats /\ table'[t].holding = table[t].holding
        /\ table'[t].ringing = table[t].ringing
        /\ table'[t].late = table[t].late \ {s}
        /\ \/ ~Known /\ UNCHANGED vars /\ table'[t].alarm = table[t].alarm
           \/ /\ Known /\ UNCHANGED vars /\ ~(seated[s].taken /\ asked = s)
              /\ table'[t].alarm = SetAlarm(table[t].alarm, s)
           \/ Known /\ TurnTimedOut(s) /\ table'[t].alarm = Awaiting'
<1> DEFINE tb == [table[t] EXCEPT !.late = table[t].late \ {s}]
<1>1. table[t] \in TableRecord
  BY DEF TransportOK
<1>2. /\ tb \in TableRecord /\ tb.alarm = table[t].alarm
      /\ tb.seats = table[t].seats /\ tb.holding = table[t].holding
      /\ tb.ringing = table[t].ringing /\ tb.late = table[t].late \ {s}
  BY <1>1 DEF TableRecord
<1>3. \/ ~Known /\ Unknown(t, tb)
      \/ /\ Known /\ ~(seated[s].taken /\ asked = s) /\ UNCHANGED vars /\ open' = open
         /\ table' = [table EXCEPT ![t] = [tb EXCEPT !.alarm = SetAlarm(tb.alarm, s)]]
      \/ Known /\ TurnTimedOut(s) /\ Settled(t, tb, "none", got)
  BY DEF AllowanceOut
<1> HIDE DEF tb
<1>4. CASE ~Known /\ Unknown(t, tb)
  <2>1. UNCHANGED vars
    BY <1>4 DEF Unknown
  <2> QED BY <1>2, <1>4, <2>1, UnknownLeaves
<1>5. CASE /\ Known /\ ~(seated[s].taken /\ asked = s) /\ UNCHANGED vars /\ open' = open
           /\ table' = [table EXCEPT ![t] = [tb EXCEPT !.alarm = SetAlarm(tb.alarm, s)]]
  <2> DEFINE alarm == SetAlarm(tb.alarm, s)
             new == [tb EXCEPT !.alarm = alarm]
  <2>1. alarm \in Seat \cup {"none"}
    BY <1>2, AwaitsASeat DEF SetAlarm, TableRecord
  <2>2. alarm = SetAlarm(table[t].alarm, s)
    BY <1>2
  <2>3. table' = [table EXCEPT ![t] = new]
    BY <1>5
  <2> HIDE DEF alarm
  <2>4. /\ new \in TableRecord /\ new.alarm = alarm
        /\ new.seats = tb.seats /\ new.holding = tb.holding
        /\ new.ringing = tb.ringing /\ new.late = tb.late
    BY <1>2, <2>1 DEF TableRecord
  <2> HIDE DEF new
  <2>5. table' \in [Ids -> TableRecord] /\ table'[t] = new /\ \A u \in Ids : u # t => table'[u] = table[u]
    BY <2>3, <2>4 DEF TransportOK
  <2>6. open' \in [Conns -> BOOLEAN] /\ \A d \in Conns : open'[d] => open[d]
    BY <1>5 DEF TransportOK
  <2> QED BY <1>2, <1>5, <2>2, <2>4, <2>5, <2>6
<1>6. CASE Known /\ TurnTimedOut(s) /\ Settled(t, tb, "none", got)
  <2>1. SetAlarm(tb.alarm, "none") = Awaiting'
    BY DEF SetAlarm
  <2> QED BY <1>2, <1>6, <2>1, SettledLeaves
<1> QED BY <1>3, <1>4, <1>5, <1>6

\* What the report of a window leaves: nothing for a seat that is not held, and
\* otherwise the seat is given back to the room.
LEMMA WindowClosedLeaves ==
  ASSUME TransportOK, TypeOK', NEW t \in Ids, NEW s \in Seat, WindowClosed(t, s)
  PROVE /\ open' \in [Conns -> BOOLEAN] /\ \A d \in Conns : open'[d] => open[d]
        /\ table' \in [Ids -> TableRecord]
        /\ \A u \in Ids : u # t => table'[u] = table[u]
        /\ table'[t].seats = table[t].seats
        /\ table'[t].late = table[t].late
        /\ table'[t].ringing = table[t].ringing \ {s}
        /\ \A x \in Seat : x # s => table'[t].holding[x] = table[t].holding[x]
        /\ table'[t].holding[s] = "none"
        /\ \/ /\ UNCHANGED vars /\ table[t].holding[s] = "none"
              /\ table'[t].alarm = table[t].alarm
           \/ /\ \E tb \in TableRecord : GiveBack(t, tb, s)
              /\ \/ ~Known /\ UNCHANGED vars /\ table'[t].alarm = table[t].alarm
                 \/ Known /\ table'[t].alarm = Awaiting'
<1> DEFINE tb == [table[t] EXCEPT !.ringing = table[t].ringing \ {s}]
           tn == [tb EXCEPT !.holding = [tb.holding EXCEPT ![s] = "none"]]
<1>1. table[t] \in TableRecord
  BY DEF TransportOK
<1>2. /\ tb \in TableRecord /\ tb.alarm = table[t].alarm
      /\ tb.seats = table[t].seats /\ tb.holding = table[t].holding
      /\ tb.ringing = table[t].ringing \ {s} /\ tb.late = table[t].late
  BY <1>1 DEF TableRecord
<1>3. \/ tb.holding[s] = "none" /\ table' = [table EXCEPT ![t] = tb] /\ UNCHANGED <<vars, open>>
      \/ tb.holding[s] # "none" /\ GiveBack(t, tn, s)
  BY DEF WindowClosed
<1> HIDE DEF tb
<1>4. /\ tn \in TableRecord /\ tn.alarm = tb.alarm
      /\ tn.seats = tb.seats /\ tn.holding = [tb.holding EXCEPT ![s] = "none"]
      /\ tn.ringing = tb.ringing /\ tn.late = tb.late
  BY <1>2 DEF TableRecord
<1>5. tb.holding \in [Seat -> {"none", "running", "fired"}]
  BY <1>2 DEF TableRecord
<1> HIDE DEF tn
<1>6. CASE tb.holding[s] = "none" /\ table' = [table EXCEPT ![t] = tb] /\ UNCHANGED <<vars, open>>
  <2>1. table' \in [Ids -> TableRecord] /\ table'[t] = tb /\ \A u \in Ids : u # t => table'[u] = table[u]
    BY <1>2, <1>6 DEF TransportOK
  <2>2. open' \in [Conns -> BOOLEAN] /\ \A d \in Conns : open'[d] => open[d]
    BY <1>6 DEF TransportOK
  <2> QED BY <1>2, <1>6, <2>1, <2>2
<1>7. CASE tb.holding[s] # "none" /\ GiveBack(t, tn, s)
  <2>1. \E b \in TableRecord : GiveBack(t, b, s)
    <3> USE <1>4
    <3> WITNESS tn \in TableRecord
    <3> QED BY <1>7
  <2>2. /\ open' \in [Conns -> BOOLEAN]
        /\ \A c \in Conns : open'[c] => open[c]
        /\ table' \in [Ids -> TableRecord]
        /\ \A u \in Ids : u # t => table'[u] = table[u]
        /\ table'[t].seats = tn.seats
        /\ table'[t].holding = tn.holding
        /\ table'[t].ringing = tn.ringing
        /\ table'[t].late = tn.late
        /\ \/ ~Known /\ UNCHANGED vars /\ table'[t].alarm = tn.alarm
           \/ Known /\ table'[t].alarm = Awaiting'
    BY <1>4, <1>7, GiveBackLeaves
  <2> QED BY <1>2, <1>4, <1>5, <2>1, <2>2
<1> QED BY <1>3, <1>6, <1>7

\* What a message leaves: the clock is the room's, whether the room took it or not,
\* and nobody's place at the table changes.
LEMMA MessageLeaves ==
  ASSUME TransportOK, TypeOK', NEW c \in Conns, Act(c) \/ Chatter(c) \/ Overdue(c)
  PROVE /\ phase[c] = "pumping" /\ tableOf[c] \in Ids
        /\ phase' = phase \/ phase' = [phase EXCEPT ![c] = "parting"]
        /\ open' \in [Conns -> BOOLEAN] /\ \A d \in Conns : open'[d] => open[d]
        /\ table' \in [Ids -> TableRecord]
        /\ \A u \in Ids :
             /\ table'[u].seats = table[u].seats /\ table'[u].holding = table[u].holding
             /\ table'[u].ringing = table[u].ringing /\ table'[u].late = table[u].late
             /\ u # tableOf[c] => table'[u].alarm = table[u].alarm
        /\ \/ /\ Known /\ table'[tableOf[c]].alarm = Awaiting'
              /\ UNCHANGED vars \/ (place[c] \in Seat /\ Answer(place[c]))
           \/ ~Known /\ UNCHANGED vars /\ table'[tableOf[c]].alarm = table[tableOf[c]].alarm
        /\ UNCHANGED <<place, tableOf, entry, made, down, hello>>
<1> DEFINE t == tableOf[c]
           tb == table[tableOf[c]]
<1>1. phase[c] = "pumping" /\ t \in Ids /\ tb \in TableRecord
  BY DEF Act, Chatter, Overdue, TransportOK
<1>2. \/ Known /\ Settled(t, tb, "none", got) /\ (UNCHANGED vars \/ Answer(place[c])) /\ place[c] # "none"
      \/ ~Known /\ Unknown(t, tb)
  BY DEF Act, Chatter, Overdue
<1>3. /\ phase' = phase \/ phase' = [phase EXCEPT ![c] = "parting"]
      /\ UNCHANGED <<place, tableOf, entry, made, down, hello>>
  BY DEF Act, Chatter, Overdue, Over
<1>4. place[c] # "none" => place[c] \in Seat
  BY DEF TransportOK, Introduced
<1>5. CASE Known /\ Settled(t, tb, "none", got) /\ (UNCHANGED vars \/ Answer(place[c])) /\ place[c] # "none"
  <2>1. SetAlarm(tb.alarm, "none") = Awaiting'
    BY DEF SetAlarm
  <2> HIDE DEF t
  <2>2. /\ open' \in [Conns -> BOOLEAN]
        /\ \A d \in Conns : open'[d] => open[d]
        /\ table' \in [Ids -> TableRecord]
        /\ \A u \in Ids : u # t => table'[u] = table[u]
        /\ table'[t].seats = tb.seats
        /\ table'[t].holding = tb.holding
        /\ table'[t].ringing = tb.ringing
        /\ table'[t].late = tb.late
        /\ table'[t].alarm = Awaiting'
    BY <1>1, <1>5, <2>1, SettledLeaves
  <2> QED BY <1>1, <1>3, <1>4, <1>5, <2>2 DEF t
<1>6. CASE ~Known /\ Unknown(t, tb)
  <2>1. UNCHANGED vars
    BY <1>6 DEF Unknown
  <2> HIDE DEF t
  <2>2. /\ open' \in [Conns -> BOOLEAN]
        /\ \A d \in Conns : open'[d] => open[d]
        /\ table' \in [Ids -> TableRecord]
        /\ \A u \in Ids : u # t => table'[u] = table[u]
        /\ table'[t].seats = tb.seats
        /\ table'[t].holding = tb.holding
        /\ table'[t].ringing = tb.ringing
        /\ table'[t].late = tb.late
        /\ table'[t].alarm = tb.alarm
    BY <1>1, <1>6, UnknownLeaves
  <2> QED BY <1>1, <1>3, <1>6, <2>1, <2>2 DEF t
<1> QED BY <1>2, <1>5, <1>6

\* What watching leaves of the table.
LEMMA WatchLeaves ==
  ASSUME TransportOK, NEW c \in Conns, Watch(c)
  PROVE /\ UNCHANGED <<vars, hello, place, tableOf, open, entry, made, down>>
        /\ phase[c] = "claimed" /\ phase' = [phase EXCEPT ![c] = "pumping"]
        /\ table' \in [Ids -> TableRecord]
        /\ \A u \in Ids :
             /\ table'[u].seats = table[u].seats /\ table'[u].holding = table[u].holding
             /\ table'[u].ringing = table[u].ringing /\ table'[u].late = table[u].late
             /\ table'[u].alarm = table[u].alarm
<1> DEFINE t == tableOf[c]
           new == [table[t] EXCEPT !.watchers = table[t].watchers \cup {c}]
<1>1. /\ UNCHANGED <<vars, hello, place, tableOf, open, entry, made, down>>
      /\ phase[c] = "claimed" /\ phase' = [phase EXCEPT ![c] = "pumping"]
      /\ table' = [table EXCEPT ![t] = new]
  BY DEF Watch
<1>2. t \in Ids /\ table[t] \in TableRecord
  BY <1>1 DEF TransportOK
<1>3. /\ new \in TableRecord
      /\ new.seats = table[t].seats /\ new.holding = table[t].holding
      /\ new.ringing = table[t].ringing /\ new.late = table[t].late /\ new.alarm = table[t].alarm
  BY <1>2 DEF TableRecord
<1> HIDE DEF new
<1>4. table' \in [Ids -> TableRecord] /\ table'[t] = new /\ \A u \in Ids : u # t => table'[u] = table[u]
  BY <1>1, <1>2, <1>3 DEF TransportOK
<1> HIDE DEF t
<1> QED BY <1>1, <1>3, <1>4

\* What the farewell of a shutdown leaves: nobody's window is running.
LEMMA StoppingLeaves ==
  ASSUME TransportOK, Stopping
  PROVE /\ open' \in [Conns -> BOOLEAN] /\ \A d \in Conns : open'[d] => open[d]
        /\ table' \in [Ids -> TableRecord]
        /\ \A u \in Ids :
             /\ table'[u].alarm = table[u].alarm
             /\ table'[u].ringing = table[u].ringing /\ table'[u].late = table[u].late
             /\ \A s \in Seat : table'[u].holding[s] \in {"none", table[u].holding[s]}
<1>1. CASE entry = 0
  BY <1>1 DEF Stopping, TransportOK
<1>2. CASE entry # 0
  <2> DEFINE half == [table[entry] EXCEPT !.holding = [s \in Seat |-> "none"]]
             new == [half EXCEPT !.watchers = {}]
  <2>1. entry \in Ids /\ table[entry] \in TableRecord
    BY <1>2, TableAssumption DEF TransportOK, Ids
  <2>2. table' = [table EXCEPT ![entry] = new]
    <3> DEFINE first == [table EXCEPT ![entry] = half]
    <3>1. table' = [first EXCEPT ![entry] = [first[entry] EXCEPT !.watchers = {}]]
      BY <1>2 DEF Stopping
    <3>2. first \in [Ids -> {table[u] : u \in Ids} \cup {half}] /\ first[entry] = half
      BY <2>1 DEF TransportOK
    <3> HIDE DEF half
    <3>3. table' = [first EXCEPT ![entry] = new]
      BY <3>1, <3>2
    <3> QED BY <3>3
  <2>3. /\ half \in TableRecord /\ half.alarm = table[entry].alarm
        /\ half.holding = [s \in Seat |-> "none"]
        /\ half.ringing = table[entry].ringing /\ half.late = table[entry].late
    BY <2>1 DEF TableRecord
  <2> HIDE DEF half
  <2>4. /\ new \in TableRecord /\ new.alarm = half.alarm
        /\ new.holding = half.holding
        /\ new.ringing = half.ringing /\ new.late = half.late
    BY <2>3 DEF TableRecord
  <2> HIDE DEF new
  <2>5. table' \in [Ids -> TableRecord] /\ table'[entry] = new
        /\ \A u \in Ids : u # entry => table'[u] = table[u]
    BY <2>1, <2>2, <2>4 DEF TransportOK
  <2>6. open' \in [Conns -> BOOLEAN] /\ \A d \in Conns : open'[d] => open[d]
    BY <1>2 DEF Stopping, TransportOK
  <2> QED BY <2>3, <2>4, <2>5, <2>6
<1> QED BY <1>1, <1>2

\* A connection at a table that was made changes no other.
LEMMA OthersUntouched ==
  ASSUME TransportOK, NEW n \in Ids, n <= made, made' >= made, made' \in Nat,
         \A u \in Ids : u # n => table'[u] = table[u]
  PROVE \A u \in Ids : u > made' => Untouched(table'[u])
<1>1. ASSUME NEW u \in Ids, u > made' PROVE Untouched(table'[u])
  <2>1. u > made /\ u # n
    BY <1>1, TableAssumption DEF TransportOK, Ids
  <2> QED BY <2>1 DEF TransportOK
<1> QED BY <1>1

\* No step of the transport makes anything of it ill typed.
LEMMA TransportStays ==
  ASSUME TransportOK, TypeOK', Introduced', [TableNext]_tableVars
  PROVE TransportOK'
<1>0. /\ made \in Nat /\ entry \in Nat /\ MaxTables \in Nat
      /\ \A n \in Ids : n \in Nat /\ n # 0
      /\ "none" \notin Seat
  BY Seats, TableAssumption DEF TransportOK, Ids
<1>1. ASSUME NEW c \in Conns, NEW first \in Firsts, Dial(c, first) PROVE TransportOK'
  <2>1. /\ UNCHANGED <<vars, place, open, down>>
        /\ phase[c] = "out" /\ phase' = [phase EXCEPT ![c] = "claimed"]
        /\ entry' \in Ids /\ entry' = made' /\ made' >= made
        /\ tableOf' = [tableOf EXCEPT ![c] = entry']
        /\ table' \in [Ids -> TableRecord]
        /\ \A u \in Ids :
             /\ table'[u].seats = table[u].seats /\ table'[u].holding = table[u].holding
             /\ table'[u].ringing = table[u].ringing /\ table'[u].late = table[u].late
             /\ table'[u].alarm = table[u].alarm
    BY <1>1, DialLeaves
  <2>2. entry' \in 0..MaxTables /\ made' \in 0..MaxTables /\ made' # 0 /\ made' \in Nat
    BY <1>0, <2>1 DEF Ids
  <2>3. \A t \in Ids : t > made' => Untouched(table'[t])
    BY <1>0, <2>1, <2>2 DEF TransportOK, Untouched
  <2>4. \A d \in Conns : phase'[d] \in {"claimed", "pumping", "parting", "releasing"} =>
          tableOf'[d] \in Ids /\ tableOf'[d] <= made'
    <3> SUFFICES ASSUME NEW d \in Conns, phase'[d] \in {"claimed", "pumping", "parting", "releasing"}
                 PROVE tableOf'[d] \in Ids /\ tableOf'[d] <= made'
      OBVIOUS
    <3>1. CASE d = c
      BY <1>0, <2>1, <2>2, <3>1 DEF TransportOK
    <3>2. CASE d # c
      BY <1>0, <2>1, <2>2, <3>2 DEF TransportOK
    <3> QED BY <3>1, <3>2
  <2>5. /\ phase' \in [Conns -> Phases]
        /\ tableOf' \in [Conns -> 0..MaxTables]
        /\ \A d \in Conns : phase'[d] \in {"out", "claimed"} => place'[d] = "none"
    BY <2>1, <2>2 DEF TransportOK, Phases
  <2> QED BY <2>1, <2>2, <2>3, <2>4, <2>5 DEF TransportOK
<1>2. ASSUME NEW c \in Conns, NEW p \in {"pumping", "parting", "releasing", "gone"},
             phase[c] \in {"claimed", "pumping", "parting", "releasing"},
             phase' = [phase EXCEPT ![c] = p],
             place' = place \/ (p # "claimed" /\ \E s \in Seat : place' = [place EXCEPT ![c] = s]),
             open' \in [Conns -> BOOLEAN], table' \in [Ids -> TableRecord],
             UNCHANGED <<tableOf, entry, made, down>>,
             \A u \in Ids : u > made' => Untouched(table'[u])
      PROVE TransportOK'
  <2>1. /\ phase' \in [Conns -> Phases]
        /\ \A d \in Conns : phase'[d] \in {"claimed", "pumping", "parting", "releasing"} =>
              tableOf'[d] \in Ids /\ tableOf'[d] <= made'
        /\ \A d \in Conns : phase'[d] # "out" => made' # 0
    BY <1>2 DEF TransportOK, Phases
  <2>2. \A d \in Conns : phase'[d] \in {"out", "claimed"} => place'[d] = "none"
    BY <1>2 DEF TransportOK, Introduced
  <2> QED BY <1>2, <2>1, <2>2 DEF TransportOK
<1>3. ASSUME UNCHANGED <<phase, place, tableOf, entry, made>>, down' \in {"up", "told", "closed", "returned"},
             open' \in [Conns -> BOOLEAN], table' \in [Ids -> TableRecord],
             \A u \in Ids : u > made' => Untouched(table'[u])
      PROVE TransportOK'
  BY <1>3 DEF TransportOK
<1>4. ASSUME table' = table, made' = made
      PROVE /\ table' \in [Ids -> TableRecord]
            /\ \A u \in Ids : u > made' => Untouched(table'[u])
  BY <1>4 DEF TransportOK
<1>5. ASSUME NEW c \in Conns, Refused(c) \/ Lose(c) \/ Notice(c) PROVE TransportOK'
  <2>1. CASE Refused(c)
    BY <1>2, <1>4, <2>1 DEF Refused, TransportOK
  <2>2. CASE Notice(c)
    BY <1>2, <1>4, <2>2 DEF Notice, TransportOK
  <2>3. CASE Lose(c)
    BY <1>3, <1>4, <2>3 DEF Lose, TransportOK
  <2> QED BY <1>5, <2>1, <2>2, <2>3
<1>6. ASSUME NEW c \in Conns, phase[c] \in {"claimed", "pumping", "parting", "releasing"},
             UNCHANGED made, \A u \in Ids : u # tableOf[c] => table'[u] = table[u]
      PROVE \A u \in Ids : u > made' => Untouched(table'[u])
  <2>1. tableOf[c] \in Ids /\ tableOf[c] <= made
    BY <1>6 DEF TransportOK
  <2> QED BY <1>0, <1>6, <2>1, OthersUntouched
<1>7. ASSUME NEW c \in Conns, Watch(c) PROVE TransportOK'
  <2>1. /\ UNCHANGED <<vars, hello, place, tableOf, open, entry, made, down>>
        /\ phase[c] = "claimed" /\ phase' = [phase EXCEPT ![c] = "pumping"]
        /\ table' \in [Ids -> TableRecord]
        /\ \A u \in Ids :
             /\ table'[u].seats = table[u].seats /\ table'[u].holding = table[u].holding
             /\ table'[u].ringing = table[u].ringing /\ table'[u].late = table[u].late
             /\ table'[u].alarm = table[u].alarm
    BY <1>7, WatchLeaves
  <2>2. \A u \in Ids : u > made' => Untouched(table'[u])
    BY <2>1 DEF TransportOK, Untouched
  <2> QED BY <1>2, <2>1, <2>2 DEF TransportOK
<1>8. ASSUME NEW c \in Conns, Sit(c) PROVE TransportOK'
  <2>1. /\ FreeSeat \in Seat
        /\ open' \in [Conns -> BOOLEAN]
        /\ table' \in [Ids -> TableRecord]
        /\ \A u \in Ids : u # tableOf[c] => table'[u] = table[u]
    BY <1>8, SitLeaves
  <2>2. /\ phase[c] = "claimed" /\ phase' = [phase EXCEPT ![c] = "pumping"]
        /\ place' = [place EXCEPT ![c] = FreeSeat]
        /\ UNCHANGED <<tableOf, entry, made, down>>
    BY <1>8 DEF Sit
  <2>3. \A u \in Ids : u > made' => Untouched(table'[u])
    BY <1>6, <2>1, <2>2
  <2> QED BY <1>2, <2>1, <2>2, <2>3
<1>9. ASSUME NEW c \in Conns, Rejoin(c) PROVE TransportOK'
  <2>1. PICK s \in Seat :
        /\ place' = [place EXCEPT ![c] = s]
        /\ \/ phase' = [phase EXCEPT ![c] = "pumping"]
           \/ phase' = [phase EXCEPT ![c] = "releasing"]
        /\ open' \in [Conns -> BOOLEAN]
        /\ table' \in [Ids -> TableRecord]
        /\ \A u \in Ids : u # tableOf[c] => table'[u] = table[u]
    BY <1>9, RejoinLeaves
  <2>2. phase[c] = "claimed" /\ UNCHANGED <<tableOf, entry, made, down>>
    BY <1>9 DEF Rejoin
  <2>3. \A u \in Ids : u > made' => Untouched(table'[u])
    BY <1>6, <2>1, <2>2
  <2> QED BY <1>2, <2>1, <2>2, <2>3
<1>10. ASSUME NEW c \in Conns, Act(c) \/ Chatter(c) \/ Overdue(c) PROVE TransportOK'
  <2>1. /\ phase[c] = "pumping" /\ tableOf[c] \in Ids
        /\ phase' = phase \/ phase' = [phase EXCEPT ![c] = "parting"]
        /\ open' \in [Conns -> BOOLEAN]
        /\ table' \in [Ids -> TableRecord]
        /\ \A u \in Ids :
             /\ table'[u].holding = table[u].holding
             /\ table'[u].ringing = table[u].ringing /\ table'[u].late = table[u].late
             /\ u # tableOf[c] => table'[u].alarm = table[u].alarm
        /\ UNCHANGED <<place, tableOf, entry, made, down, hello>>
    BY <1>10, MessageLeaves
  <2>2. tableOf[c] <= made /\ tableOf[c] \in Nat
    BY <1>0, <2>1 DEF TransportOK
  <2>3. \A u \in Ids : u > made' => Untouched(table'[u])
    <3> SUFFICES ASSUME NEW u \in Ids, u > made' PROVE Untouched(table'[u])
      OBVIOUS
    <3>1. u > made /\ u # tableOf[c]
      BY <1>0, <2>1, <2>2
    <3> QED BY <2>1, <3>1 DEF TransportOK, Untouched
  <2>4. CASE phase' = phase
    BY <1>3, <2>1, <2>3, <2>4 DEF TransportOK
  <2>5. CASE phase' = [phase EXCEPT ![c] = "parting"]
    BY <1>2, <2>1, <2>3, <2>5
  <2> QED BY <2>1, <2>4, <2>5
<1>11. ASSUME NEW c \in Conns, Part(c) PROVE TransportOK'
  <2>1. /\ phase' = [phase EXCEPT ![c] = "releasing"]
        /\ open' \in [Conns -> BOOLEAN]
        /\ table' \in [Ids -> TableRecord]
        /\ \A u \in Ids : u # tableOf[c] => table'[u] = table[u]
    BY <1>11, PartLeaves
  <2>2. phase[c] = "parting" /\ UNCHANGED <<place, tableOf, entry, made, down>>
    BY <1>11 DEF Part
  <2>3. \A u \in Ids : u > made' => Untouched(table'[u])
    BY <1>6, <2>1, <2>2
  <2> QED BY <1>2, <2>1, <2>2, <2>3
<1>12. ASSUME NEW c \in Conns, Release(c) PROVE TransportOK'
  <2>1. /\ UNCHANGED <<vars, place, made, down>>
        /\ phase[c] = "releasing" /\ phase' = [phase EXCEPT ![c] = "gone"]
        /\ tableOf' = [tableOf EXCEPT ![c] = 0]
        /\ open' \in [Conns -> BOOLEAN]
        /\ entry' \in {0, entry}
        /\ table' \in [Ids -> TableRecord]
        /\ \A u \in Ids :
             /\ table'[u].holding = table[u].holding
             /\ table'[u].ringing = table[u].ringing /\ table'[u].late = table[u].late
             /\ table'[u].alarm \in {"none", table[u].alarm}
    BY <1>12, ReleaseLeaves
  <2>2. \A u \in Ids : u > made' => Untouched(table'[u])
    BY <2>1 DEF TransportOK, Untouched
  <2>3. /\ phase' \in [Conns -> Phases]
        /\ tableOf' \in [Conns -> 0..MaxTables]
        /\ \A d \in Conns : phase'[d] \in {"claimed", "pumping", "parting", "releasing"} =>
              tableOf'[d] \in Ids /\ tableOf'[d] <= made'
        /\ \A d \in Conns : phase'[d] # "out" => made' # 0
        /\ \A d \in Conns : phase'[d] \in {"out", "claimed"} => place'[d] = "none"
    <3>1. 0 \in 0..MaxTables
      BY <1>0
    <3> QED BY <2>1, <3>1 DEF TransportOK, Phases
  <2>4. entry' \in 0..MaxTables /\ entry' \in {0, made'}
    BY <1>0, <2>1 DEF TransportOK
  <2> QED BY <2>1, <2>2, <2>3, <2>4 DEF TransportOK
<1>13. ASSUME NEW t \in Ids, ~Untouched(table[t]), UNCHANGED made,
              \A u \in Ids : u # t => table'[u] = table[u]
       PROVE \A u \in Ids : u > made' => Untouched(table'[u])
  <2>1. t <= made
    BY <1>0, <1>13 DEF TransportOK
  <2> QED BY <1>0, <1>13, <2>1, OthersUntouched
<1>14. ASSUME NEW t \in Ids, Fire(t) PROVE TransportOK'
  <2>1. /\ table[t].alarm \in Seat
        /\ table' \in [Ids -> TableRecord]
        /\ \A u \in Ids : u # t => table'[u] = table[u]
    BY <1>14, FireLeaves
  <2>2. UNCHANGED <<phase, place, tableOf, entry, made, down, open>>
    BY <1>14 DEF Fire
  <2>3. \A u \in Ids : u > made' => Untouched(table'[u])
    BY <1>0, <1>13, <2>1, <2>2 DEF Untouched
  <2> QED BY <1>3, <2>1, <2>2, <2>3 DEF TransportOK
<1>15. ASSUME NEW t \in Ids, NEW s \in Seat, AllowanceOut(t, s) PROVE TransportOK'
  <2>1. /\ open' \in [Conns -> BOOLEAN]
        /\ table' \in [Ids -> TableRecord]
        /\ \A u \in Ids : u # t => table'[u] = table[u]
    BY <1>15, AllowanceOutLeaves
  <2>2. s \in table[t].late /\ UNCHANGED <<phase, place, tableOf, entry, made, down>>
    BY <1>15 DEF AllowanceOut
  <2>3. \A u \in Ids : u > made' => Untouched(table'[u])
    BY <1>13, <2>1, <2>2 DEF Untouched
  <2> QED BY <1>3, <2>1, <2>2, <2>3 DEF TransportOK
<1>16. ASSUME NEW t \in Ids, NEW s \in Seat, WindowFires(t, s) PROVE TransportOK'
  <2>1. /\ table' \in [Ids -> TableRecord]
        /\ \A u \in Ids : u # t => table'[u] = table[u]
    BY <1>16, WindowFiresLeaves
  <2>2. /\ table[t].holding[s] = "running"
        /\ UNCHANGED <<phase, place, tableOf, entry, made, down, open>>
    BY <1>16 DEF WindowFires
  <2>3. \A u \in Ids : u > made' => Untouched(table'[u])
    BY <1>13, <2>1, <2>2 DEF Untouched
  <2> QED BY <1>3, <2>1, <2>2, <2>3 DEF TransportOK
<1>17. ASSUME NEW t \in Ids, NEW s \in Seat, WindowClosed(t, s) PROVE TransportOK'
  <2>1. /\ open' \in [Conns -> BOOLEAN]
        /\ table' \in [Ids -> TableRecord]
        /\ \A u \in Ids : u # t => table'[u] = table[u]
    BY <1>17, WindowClosedLeaves
  <2>2. s \in table[t].ringing /\ UNCHANGED <<phase, place, tableOf, entry, made, down>>
    BY <1>17 DEF WindowClosed
  <2>3. \A u \in Ids : u > made' => Untouched(table'[u])
    BY <1>13, <2>1, <2>2 DEF Untouched
  <2> QED BY <1>3, <2>1, <2>2, <2>3 DEF TransportOK
<1>18. ASSUME Stopping PROVE TransportOK'
  <2>1. /\ open' \in [Conns -> BOOLEAN]
        /\ table' \in [Ids -> TableRecord]
        /\ \A u \in Ids :
             /\ table'[u].alarm = table[u].alarm
             /\ table'[u].ringing = table[u].ringing /\ table'[u].late = table[u].late
    BY <1>18, StoppingLeaves
  <2>2. down' = "told" /\ UNCHANGED <<phase, place, tableOf, entry, made>>
    BY <1>18 DEF Stopping
  <2>3. \A u \in Ids : \A s \in Seat :
          table[u].holding[s] = "none" => table'[u].holding[s] = "none"
    BY <1>18, StoppingLeaves
  <2>4. \A u \in Ids : u > made' => Untouched(table'[u])
    BY <2>1, <2>2, <2>3 DEF TransportOK, Untouched
  <2> QED BY <1>3, <2>1, <2>2, <2>4
<1>19. ASSUME ClosedAll \/ Returned PROVE TransportOK'
  BY <1>3, <1>4, <1>19 DEF ClosedAll, Returned, TransportOK
<1>20. CASE UNCHANGED tableVars
  BY <1>3, <1>4, <1>20 DEF tableVars, transport, TransportOK
<1> QED
  BY <1>1, <1>5, <1>7, <1>8, <1>9, <1>10, <1>11, <1>12, <1>14, <1>15, <1>16, <1>17, <1>18,
     <1>19, <1>20, TableCases

\* Every connection that is being served is at a table that exists, and no table
\* rings for a room nobody has dialled.
THEOREM TransportTyped == TableSpec => []TransportOK
<1>1. ASSUME TableInit, Introduced PROVE TransportOK
  <2>1. NewTable \in TableRecord /\ Untouched(NewTable)
    BY DEF NewTable, TableRecord, Untouched
  <2>2. /\ table \in [Ids -> TableRecord]
        /\ \A t \in Ids : Untouched(table[t])
    BY <1>1, <2>1 DEF TableInit
  <2>3. 0 \in 0..MaxTables
    BY TableAssumption
  <2> QED BY <1>1, <2>2, <2>3 DEF TableInit, TransportOK, Phases
<1>2. TransportOK /\ TypeOK' /\ Introduced' /\ [TableNext]_tableVars => TransportOK'
  BY TransportStays
<1>3. IInv => TypeOK
  BY DEF IInv
<1> QED BY <1>1, <1>2, <1>3, Introductions, PlayersAreInAMatch, PTL DEF TableSpec

-----------------------------------------------------------------------------
(* The clock. *)

\* A room that does not draft waits on the seat whose prompt is open.
LEMMA AwaitsTheAsked == Awaiting = asked /\ Awaiting' = asked'
BY TableAssumption DEF Awaiting, DraftOpen

\* The clock of the one table is on the seat that is asked, and a room whose table
\* nobody has dialled asks nobody.
OneClock ==
  /\ made = 0 => asked = "none"
  /\ down = "up" /\ entry # 0 =>
       /\ table[entry].alarm \in {"none", asked}
       /\ asked # "none" => table[entry].alarm = asked \/ asked \in table[entry].late

\* A step that sets the clock to the room's question leaves it right.
LEMMA ClockSet ==
  ASSUME MaxTables = 1, TransportOK, TransportOK', NEW t \in Ids,
         made' # 0, table'[t].alarm = Awaiting'
  PROVE OneClock'
<1>1. entry' # 0 => entry' = t
  BY DEF TransportOK, Ids
<1> QED BY <1>1, AwaitsTheAsked DEF OneClock

\* So does one that changes neither the clock nor the question, and loses no report
\* of the seat that is asked.
LEMMA ClockKept ==
  ASSUME MaxTables = 1, TransportOK, TransportOK', OneClock, UNCHANGED vars,
         down' = "up" => down = "up", entry' # 0 => entry # 0, made' = 0 => made = 0,
         \A t \in Ids : /\ table'[t].alarm = table[t].alarm \/ entry' = 0
                        /\ asked # "none" /\ asked \in table[t].late => asked \in table'[t].late
  PROVE OneClock'
<1>1. UNCHANGED asked
  BY DEF vars, match
<1>2. entry' # 0 => entry' = entry /\ entry \in Ids
  BY DEF TransportOK, Ids
<1> QED BY <1>1, <1>2 DEF OneClock

\* Every step of the transport leaves the one clock where the room's question is.
LEMMA ClockStays ==
  ASSUME MaxTables = 1, TransportOK, TransportOK', OneClock, TypeOK',
         OneQuestion, NeverStuck, [TableNext]_tableVars
  PROVE OneClock'
<1>0. /\ \A c \in Conns : phase[c] # "out" => made # 0
      /\ \A c \in Conns : phase[c] \in {"claimed", "pumping", "parting", "releasing"} =>
           tableOf[c] \in Ids
      /\ \A t \in Ids : Untouched(table[t]) \/ made # 0
  <2>1. \A t \in Ids : t > 0
    BY DEF Ids
  <2> QED BY <2>1 DEF TransportOK
\* The room has gone while the host serves: its match is over and it asks nobody.
<1>1. ~Known /\ down = "up" => asked = "none"
  BY AwaitsTheAsked DEF Known, NeverStuck
<1>2. ASSUME NEW c \in Conns, NEW first \in Firsts, Dial(c, first) PROVE OneClock'
  <2>1. /\ UNCHANGED <<vars, down>>
        /\ entry' \in Ids /\ entry' = made' /\ made' >= made
        /\ entry = 0 => made' = made + 1
        /\ entry # 0 => entry' = entry
        /\ \A u \in Ids : table'[u].late = table[u].late /\ table'[u].alarm = table[u].alarm
    BY <1>2, DialLeaves
  <2>2. CASE entry # 0
    <3>1. made' # 0
      BY <2>1, <2>2 DEF TransportOK, Ids
    <3> QED BY <2>1, <2>2, <3>1, ClockKept
  <2>3. CASE entry = 0
    <3>1. made = 0 /\ entry' = 1 /\ made' = 1
      BY <2>1, <2>3 DEF TransportOK, Ids
    <3>2. table'[1].alarm = "none"
      BY <1>0, <2>1, <3>1 DEF Untouched, Ids
    <3>3. asked' = "none"
      BY <2>1, <3>1 DEF OneClock, vars, match
    <3> QED BY <3>1, <3>2, <3>3 DEF OneClock
  <2> QED BY <2>2, <2>3
<1>3. ASSUME NEW c \in Conns, Refused(c) \/ Lose(c) \/ Notice(c) PROVE OneClock'
  <2>1. UNCHANGED <<vars, table, entry, made, down>>
    BY <1>3 DEF Refused, Lose, Notice
  <2> QED BY <2>1, ClockKept
<1>4. ASSUME NEW c \in Conns, Watch(c) PROVE OneClock'
  <2>1. /\ UNCHANGED <<vars, entry, made, down>>
        /\ \A u \in Ids : table'[u].late = table[u].late /\ table'[u].alarm = table[u].alarm
    BY <1>4, WatchLeaves
  <2> QED BY <2>1, ClockKept
<1>5. ASSUME NEW c \in Conns, Sit(c) PROVE OneClock'
  <2>1. tableOf[c] \in Ids /\ table'[tableOf[c]].alarm = Awaiting'
    BY <1>5, SitLeaves
  <2>2. made' # 0
    BY <1>0, <1>5 DEF Sit
  <2> QED BY <2>1, <2>2, ClockSet
<1>6. ASSUME NEW c \in Conns, Rejoin(c) PROVE OneClock'
  <2>1. /\ tableOf[c] \in Ids /\ UNCHANGED vars
        /\ \/ table'[tableOf[c]].alarm = Awaiting'
           \/ table'[tableOf[c]].alarm = table[tableOf[c]].alarm
        /\ \A u \in Ids : u # tableOf[c] => table'[u] = table[u]
        /\ table'[tableOf[c]].late = table[tableOf[c]].late
    BY <1>6, RejoinLeaves
  <2>2. made' # 0 /\ UNCHANGED <<entry, made, down>>
    BY <1>0, <1>6 DEF Rejoin
  <2>3. CASE table'[tableOf[c]].alarm = Awaiting'
    BY <2>1, <2>2, <2>3, ClockSet
  <2>4. CASE table'[tableOf[c]].alarm = table[tableOf[c]].alarm
    <3>1. \A u \in Ids : table'[u].late = table[u].late /\ table'[u].alarm = table[u].alarm
      BY <2>1, <2>4
    <3> QED BY <2>1, <2>2, <3>1, ClockKept
  <2> QED BY <2>1, <2>3, <2>4
\* What every exchange with the room comes to for the clock.
<1>7. ASSUME NEW t \in Ids, made' # 0, UNCHANGED <<entry, made, down>>,
             \A u \in Ids : u # t => table'[u] = table[u],
             \A x \in table[t].late : x = asked => x \in table'[t].late \/ asked = "none" \/ ~Known,
             \/ ~Known /\ UNCHANGED vars /\ table'[t].alarm = table[t].alarm
             \/ UNCHANGED vars /\ table'[t].alarm = table[t].alarm /\ table'[t].late = table[t].late
             \/ table'[t].alarm = Awaiting'
      PROVE OneClock'
  <2>1. CASE table'[t].alarm = Awaiting'
    BY <1>7, <2>1, ClockSet
  <2>2. CASE UNCHANGED vars /\ table'[t].alarm = table[t].alarm /\ table'[t].late = table[t].late
    BY <1>7, <2>2, ClockKept
  <2>3. CASE ~Known /\ UNCHANGED vars /\ table'[t].alarm = table[t].alarm
    <3>1. CASE down = "up"
      BY <1>1, <1>7, <2>3, <3>1, ClockKept
    <3>2. CASE down # "up"
      BY <1>7, <3>2 DEF OneClock
    <3> QED BY <3>1, <3>2
  <2> QED BY <1>7, <2>1, <2>2, <2>3
<1>8. ASSUME NEW c \in Conns, Act(c) \/ Chatter(c) \/ Overdue(c) PROVE OneClock'
  <2>1. /\ phase[c] = "pumping" /\ tableOf[c] \in Ids
        /\ \A u \in Ids : table'[u].late = table[u].late
                          /\ (u # tableOf[c] => table'[u].alarm = table[u].alarm)
        /\ \/ table'[tableOf[c]].alarm = Awaiting'
           \/ UNCHANGED vars /\ table'[tableOf[c]].alarm = table[tableOf[c]].alarm
        /\ UNCHANGED <<entry, made, down>>
    BY <1>8, MessageLeaves
  <2>2. made' # 0
    BY <1>0, <2>1
  <2>3. CASE table'[tableOf[c]].alarm = Awaiting'
    BY <2>1, <2>2, <2>3, ClockSet
  <2>4. CASE UNCHANGED vars /\ table'[tableOf[c]].alarm = table[tableOf[c]].alarm
    BY <2>1, <2>4, ClockKept
  <2> QED BY <2>1, <2>3, <2>4
<1>9. ASSUME NEW c \in Conns, Part(c) PROVE OneClock'
  <2>1. /\ tableOf[c] \in Ids
        /\ \A u \in Ids : u # tableOf[c] => table'[u] = table[u]
        /\ table'[tableOf[c]].late = table[tableOf[c]].late
        /\ \/ UNCHANGED vars /\ table'[tableOf[c]].alarm = table[tableOf[c]].alarm
           \/ table'[tableOf[c]].alarm = Awaiting'
    BY <1>9, PartLeaves
  <2>2. made' # 0 /\ UNCHANGED <<entry, made, down>>
    BY <1>0, <1>9 DEF Part
  <2> QED BY <1>7, <2>1, <2>2
<1>10. ASSUME NEW c \in Conns, Release(c) PROVE OneClock'
  <2>1. /\ UNCHANGED <<vars, made, down>>
        /\ entry' \in {0, entry}
        /\ \A u \in Ids :
             /\ table'[u].late = table[u].late
             /\ table'[u].alarm = table[u].alarm \/ entry' = 0
    BY <1>10, ReleaseLeaves
  <2> QED BY <2>1, ClockKept
<1>11. ASSUME NEW t \in Ids, Fire(t) PROVE OneClock'
  <2>1. /\ table[t].alarm \in Seat
        /\ table'[t].alarm = "none" /\ table'[t].late = table[t].late \cup {table[t].alarm}
    BY <1>11, FireLeaves
  <2>2. UNCHANGED <<vars, entry, made, down>>
    BY <1>11 DEF Fire
  <2>3. UNCHANGED asked
    BY <2>2 DEF vars, match
  <2>4. entry # 0 => entry = t
    BY DEF TransportOK, Ids
  <2> QED BY <2>1, <2>2, <2>3, <2>4 DEF OneClock
<1>12. ASSUME NEW t \in Ids, NEW s \in Seat, AllowanceOut(t, s) PROVE OneClock'
  <2>1. /\ \A u \in Ids : u # t => table'[u] = table[u]
        /\ table'[t].late = table[t].late \ {s}
        /\ \/ ~Known /\ UNCHANGED vars /\ table'[t].alarm = table[t].alarm
           \/ /\ Known /\ UNCHANGED vars /\ ~(seated[s].taken /\ asked = s)
              /\ table'[t].alarm = SetAlarm(table[t].alarm, s)
           \/ table'[t].alarm = Awaiting'
    BY <1>12, AllowanceOutLeaves
  <2>2. UNCHANGED <<entry, made, down>> /\ s \in table[t].late
    BY <1>12 DEF AllowanceOut
  <2>3. made' # 0
    BY <1>0, <2>2 DEF Untouched
  <2>4. CASE ~Known /\ UNCHANGED vars /\ table'[t].alarm = table[t].alarm
    BY <1>7, <2>1, <2>2, <2>3, <2>4
  <2>5. CASE table'[t].alarm = Awaiting'
    BY <2>1, <2>2, <2>3, <2>5, ClockSet
  <2>6. CASE /\ UNCHANGED vars /\ ~(seated[s].taken /\ asked = s)
             /\ table'[t].alarm = SetAlarm(table[t].alarm, s)
    <3>1. asked # s
      BY <2>6, Seats DEF OneQuestion
    <3>2. table'[t].alarm = Awaiting' \/ table'[t].alarm = table[t].alarm
      BY <2>6 DEF SetAlarm
    <3>3. CASE table'[t].alarm = Awaiting'
      BY <2>2, <2>3, <3>3, ClockSet
    <3>4. CASE table'[t].alarm = table[t].alarm
      BY <2>1, <2>2, <2>6, <3>1, <3>4, ClockKept
    <3> QED BY <3>2, <3>3, <3>4
  <2> QED BY <2>1, <2>4, <2>5, <2>6
<1>13. ASSUME NEW t \in Ids, NEW s \in Seat, WindowFires(t, s) PROVE OneClock'
  <2>1. /\ \A u \in Ids : u # t => table'[u] = table[u]
        /\ table'[t].late = table[t].late /\ table'[t].alarm = table[t].alarm
    BY <1>13, WindowFiresLeaves
  <2>2. UNCHANGED <<vars, entry, made, down>>
    BY <1>13 DEF WindowFires
  <2> QED BY <2>1, <2>2, ClockKept
<1>14. ASSUME NEW t \in Ids, NEW s \in Seat, WindowClosed(t, s) PROVE OneClock'
  <2>1. /\ \A u \in Ids : u # t => table'[u] = table[u]
        /\ table'[t].late = table[t].late
        /\ \/ UNCHANGED vars /\ table'[t].alarm = table[t].alarm
           \/ table'[t].alarm = Awaiting'
    BY <1>14, WindowClosedLeaves
  <2>2. UNCHANGED <<entry, made, down>> /\ s \in table[t].ringing
    BY <1>14 DEF WindowClosed
  <2>3. made' # 0
    BY <1>0, <2>2 DEF Untouched
  <2> QED BY <1>7, <2>1, <2>2, <2>3
<1>15. ASSUME Stopping PROVE OneClock'
  <2>1. UNCHANGED <<vars, made>> /\ down' = "told"
    BY <1>15 DEF Stopping
  <2> QED BY <2>1 DEF OneClock, vars, match
<1>16. ASSUME ClosedAll \/ Returned PROVE OneClock'
  <2>1. UNCHANGED <<vars, made>> /\ down' # "up"
    BY <1>16 DEF ClosedAll, Returned
  <2> QED BY <2>1 DEF OneClock, vars, match
<1>17. CASE UNCHANGED tableVars
  BY <1>17, ClockKept DEF tableVars, transport
<1> QED
  BY <1>2, <1>3, <1>4, <1>5, <1>6, <1>8, <1>9, <1>10, <1>11, <1>12, <1>13, <1>14, <1>15,
     <1>16, <1>17, TableCases

\* At one table the one clock is on the seat the room is asking, armed or on its
\* way to saying so, whoever is dropped, returns, chatters or answers late.
THEOREM ClockIsRight ==
  ASSUME MaxTables = 1
  PROVE TableSpec => []ClockFollowsTheRoom
<1>1. TableInit => OneClock
  BY DEF TableInit, Init, OneClock
<1>2. TransportOK /\ TransportOK' /\ OneClock /\ TypeOK' /\ OneQuestion /\ NeverStuck
        /\ [TableNext]_tableVars => OneClock'
  BY ClockStays
<1>3. OneClock => ClockFollowsTheRoom
  BY AwaitsTheAsked DEF OneClock, ClockFollowsTheRoom
<1>4. IInv => TypeOK
  BY DEF IInv
<1> QED
  BY <1>1, <1>2, <1>3, <1>4, TransportTyped, TransportDrivesTheRoom, PlayersAreInAMatch,
     OneQuestionInvariant, PTL DEF TableSpec

-----------------------------------------------------------------------------
(* The seats. *)

\* Somebody will give this seat back: a connection in it or on its way out, a
\* window, or (as SeatIsAccountedFor leaves out) a return whose record was lost.
Answered(s) ==
  \/ \E c \in Conns : place[c] = s /\ phase[c] \in {"pumping", "parting"}
  \/ \E t \in Ids : table[t].holding[s] # "none"
  \/ \E t \in Ids, c \in Conns : table[t].seats[s] = c /\ phase[c] \in {"releasing", "gone"}

\* A window that fired is on its way to saying so, and every seat that is taken
\* has somebody who answers for it.
Accounts ==
  /\ \A t \in Ids, s \in Seat : table[t].holding[s] = "fired" => s \in table[t].ringing
  /\ Known => \A s \in Seat : seated[s].taken => Answered(s)

\* Whoever answers for a seat still does after a step that leaves them there.
LEMMA AnsweredStays ==
  ASSUME NEW s \in Seat, Answered(s),
         \A c \in Conns : place[c] = s /\ phase[c] \in {"pumping", "parting"} =>
           place'[c] = s /\ phase'[c] \in {"pumping", "parting"},
         \A c \in Conns : phase[c] \in {"releasing", "gone"} => phase'[c] \in {"releasing", "gone"},
         \A t \in Ids : /\ table'[t].seats[s] = table[t].seats[s]
                        /\ table[t].holding[s] # "none" => table'[t].holding[s] # "none"
  PROVE Answered(s)'
<1>1. CASE \E c \in Conns : place[c] = s /\ phase[c] \in {"pumping", "parting"}
  BY <1>1 DEF Answered
<1>2. CASE \E t \in Ids : table[t].holding[s] # "none"
  BY <1>2 DEF Answered
<1>3. CASE \E t \in Ids, c \in Conns : table[t].seats[s] = c /\ phase[c] \in {"releasing", "gone"}
  BY <1>3 DEF Answered
<1> QED BY <1>1, <1>2, <1>3 DEF Answered

\* A room that takes the seat back leaves it free, or is over.
LEMMA GivenUp ==
  ASSUME IInv, NEW t \in Ids, NEW tb \in TableRecord, NEW s \in Seat, GiveBack(t, tb, s),
         UNCHANGED down, Known'
  PROVE /\ Known /\ ~seated'[s].taken
        /\ \A x \in Seat : x # s => seated'[x] = seated[x]
<1>1. CASE ~Known /\ Unknown(t, tb)
  <2>1. UNCHANGED result
    BY <1>1 DEF Unknown, vars, match
  <2> QED BY <1>1, <2>1 DEF Known, Finished
<1>2. CASE Known /\ Left(s)
  <2>1. \/ seated' = [seated EXCEPT ![s] = Empty]
        \/ result' = [verdict |-> "abandoned", winner |-> "none", departed |-> s]
    BY <1>2 DEF Left
  <2>2. result'.verdict = "unfinished"
    BY DEF Known, Finished
  <2>3. seated' = [seated EXCEPT ![s] = Empty]
    BY <2>1, <2>2
  <2> QED BY <1>2, <2>3 DEF IInv, TypeOK, Empty
<1>3. CASE Known /\ ~seated[s].taken /\ UNCHANGED vars
  BY <1>3 DEF vars, match
<1> QED BY <1>1, <1>2, <1>3 DEF GiveBack

\* Every step of a transport that is not shut down keeps the account of the seats.
LEMMA AccountsStay ==
  ASSUME "shutdown" \notin Timings, TransportOK, TransportOK', IInv, TypeOK', Accounts,
         [TableNext]_tableVars
  PROVE Accounts'
<1>0. /\ \A c \in Conns : phase[c] \in {"pumping", "parting"} => tableOf[c] \in Ids
      /\ "none" \notin Seat
  BY Seats DEF TransportOK
\* A step that changes nobody's seat at the table nor in the room.
<1>1. ASSUME Known' => Known,
             Known' => \A s \in Seat : seated'[s].taken => seated[s].taken,
             \A c \in Conns : place[c] \in Seat /\ phase[c] \in {"pumping", "parting"} =>
               place'[c] = place[c] /\ phase'[c] \in {"pumping", "parting"},
             \A c \in Conns : phase[c] \in {"releasing", "gone"} => phase'[c] \in {"releasing", "gone"},
             \A t \in Ids : table'[t].seats = table[t].seats /\ table'[t].holding = table[t].holding
                            /\ table'[t].ringing = table[t].ringing
      PROVE Accounts'
  <2>1. ASSUME Known', NEW s \in Seat, seated'[s].taken PROVE Answered(s)'
    <3>1. Answered(s)
      BY <1>1, <2>1 DEF Accounts
    <3> QED BY <1>1, <3>1, AnsweredStays
  <2> QED BY <1>1, <2>1 DEF Accounts
<1>2. ASSUME UNCHANGED <<vars, down>>
      PROVE /\ Known' => Known
            /\ \A s \in Seat : seated'[s].taken => seated[s].taken
  BY <1>2 DEF vars, match, Known, Finished
<1>3. ASSUME NEW c \in Conns, NEW first \in Firsts, Dial(c, first) PROVE Accounts'
  <2>1. /\ UNCHANGED <<vars, place, down>>
        /\ phase[c] = "out" /\ phase' = [phase EXCEPT ![c] = "claimed"]
        /\ \A u \in Ids :
             /\ table'[u].seats = table[u].seats /\ table'[u].holding = table[u].holding
             /\ table'[u].ringing = table[u].ringing
    BY <1>3, DialLeaves
  <2> QED BY <1>1, <1>2, <2>1 DEF TransportOK
<1>4. ASSUME NEW c \in Conns, Refused(c) \/ Lose(c) \/ Notice(c) PROVE Accounts'
  <2>1. /\ UNCHANGED <<vars, place, table, down>>
        /\ \/ phase[c] = "claimed" /\ phase' = [phase EXCEPT ![c] = "releasing"]
           \/ phase[c] = "pumping" /\ phase' = [phase EXCEPT ![c] = "parting"]
           \/ phase' = phase
    BY <1>4 DEF Refused, Lose, Notice
  <2> QED BY <1>1, <1>2, <2>1 DEF TransportOK
<1>5. ASSUME NEW c \in Conns, Watch(c) PROVE Accounts'
  <2>1. /\ UNCHANGED <<vars, place, down>>
        /\ phase[c] = "claimed" /\ phase' = [phase EXCEPT ![c] = "pumping"]
        /\ \A u \in Ids :
             /\ table'[u].seats = table[u].seats /\ table'[u].holding = table[u].holding
             /\ table'[u].ringing = table[u].ringing
    BY <1>5, WatchLeaves
  <2> QED BY <1>1, <1>2, <2>1 DEF TransportOK
<1>6. ASSUME NEW c \in Conns, Sit(c) PROVE Accounts'
  <2>0. PICK s \in Seat : s = FreeSeat
    BY <1>6, SitLeaves
  <2>1. /\ tableOf[c] \in Ids /\ Known
        /\ \A u \in Ids : u # tableOf[c] => table'[u] = table[u]
        /\ table'[tableOf[c]].holding = table[tableOf[c]].holding
        /\ table'[tableOf[c]].ringing = table[tableOf[c]].ringing
        /\ \A x \in Seat : x # s => table'[tableOf[c]].seats[x] = table[tableOf[c]].seats[x]
        /\ Join(Said(c))
    BY <1>6, <2>0, SitLeaves
  <2>2. /\ phase[c] = "claimed" /\ phase' = [phase EXCEPT ![c] = "pumping"]
        /\ place' = [place EXCEPT ![c] = s]
    BY <1>6, <2>0 DEF Sit
  <2>3. \A x \in Seat : x # s => seated'[x] = seated[x]
    BY <2>0, <2>1 DEF Join, IInv, TypeOK
  <2>4. Answered(s)'
    <3>1. place'[c] = s /\ phase'[c] = "pumping"
      BY <2>2 DEF TransportOK, Introduced
    <3> QED BY <3>1 DEF Answered
  <2>5. ASSUME NEW x \in Seat, x # s, seated'[x].taken PROVE Answered(x)'
    <3>1. Answered(x)
      BY <2>1, <2>3, <2>5 DEF Accounts
    <3>2. /\ \A d \in Conns : place[d] = x /\ phase[d] \in {"pumping", "parting"} =>
                place'[d] = x /\ phase'[d] \in {"pumping", "parting"}
          /\ \A d \in Conns : phase[d] \in {"releasing", "gone"} => phase'[d] \in {"releasing", "gone"}
      BY <2>2 DEF TransportOK
    <3>3. \A t \in Ids : /\ table'[t].seats[x] = table[t].seats[x]
                         /\ table'[t].holding[x] = table[t].holding[x]
      BY <2>1, <2>5
    <3> QED BY <3>1, <3>2, <3>3, AnsweredStays
  <2>6. \A t \in Ids : table'[t].holding = table[t].holding /\ table'[t].ringing = table[t].ringing
    BY <2>1
  <2> QED BY <2>4, <2>5, <2>6 DEF Accounts
<1>7. ASSUME NEW c \in Conns, Rejoin(c) PROVE Accounts'
  <2>1. PICK s \in Seat :
        /\ tableOf[c] \in Ids /\ Known
        /\ UNCHANGED vars
        /\ place' = [place EXCEPT ![c] = s]
        /\ \/ phase' = [phase EXCEPT ![c] = "pumping"]
           \/ phase' = [phase EXCEPT ![c] = "releasing"]
        /\ \A u \in Ids : u # tableOf[c] => table'[u] = table[u]
        /\ table'[tableOf[c]].ringing = table[tableOf[c]].ringing
        /\ table'[tableOf[c]].seats[s] = c
        /\ table'[tableOf[c]].holding[s] = "none"
        /\ \A x \in Seat : x # s =>
             /\ table'[tableOf[c]].seats[x] = table[tableOf[c]].seats[x]
             /\ table'[tableOf[c]].holding[x] = table[tableOf[c]].holding[x]
    BY <1>7, RejoinLeaves
  <2>2. phase[c] = "claimed"
    BY <1>7 DEF Rejoin
  <2>3. UNCHANGED seated
    BY <2>1 DEF vars, match
  <2>4. Answered(s)'
    <3>1. place'[c] = s /\ (phase'[c] = "pumping" \/ phase'[c] = "releasing")
      BY <2>1 DEF TransportOK, Introduced
    <3> QED BY <2>1, <3>1 DEF Answered
  <2>5. ASSUME NEW x \in Seat, x # s, seated'[x].taken PROVE Answered(x)'
    <3>1. Answered(x)
      BY <2>1, <2>3, <2>5 DEF Accounts
    <3>2. /\ \A d \in Conns : place[d] = x /\ phase[d] \in {"pumping", "parting"} =>
                place'[d] = x /\ phase'[d] \in {"pumping", "parting"}
          /\ \A d \in Conns : phase[d] \in {"releasing", "gone"} => phase'[d] \in {"releasing", "gone"}
      BY <2>1, <2>2 DEF TransportOK
    <3>3. \A t \in Ids : /\ table'[t].seats[x] = table[t].seats[x]
                         /\ table'[t].holding[x] = table[t].holding[x]
      BY <2>1, <2>5
    <3> QED BY <3>1, <3>2, <3>3, AnsweredStays
  <2>6. \A t \in Ids, x \in Seat : table'[t].holding[x] = "fired" => x \in table'[t].ringing
    <3> SUFFICES ASSUME NEW t \in Ids, NEW x \in Seat, table'[t].holding[x] = "fired"
                 PROVE x \in table'[t].ringing
      OBVIOUS
    <3>1. table'[t].holding[x] = table[t].holding[x] /\ table'[t].ringing = table[t].ringing
      BY <2>1
    <3> QED BY <3>1 DEF Accounts
  <2> QED BY <2>4, <2>5, <2>6 DEF Accounts
<1>8. ASSUME NEW c \in Conns, Act(c) \/ Chatter(c) \/ Overdue(c) PROVE Accounts'
  <2>1. /\ phase[c] = "pumping"
        /\ phase' = phase \/ phase' = [phase EXCEPT ![c] = "parting"]
        /\ \A u \in Ids :
             /\ table'[u].seats = table[u].seats /\ table'[u].holding = table[u].holding
             /\ table'[u].ringing = table[u].ringing
        /\ UNCHANGED vars \/ (Known /\ place[c] \in Seat /\ Answer(place[c]))
        /\ UNCHANGED <<place, down>>
    BY <1>8, MessageLeaves
  <2>2. CASE UNCHANGED vars
    BY <1>1, <1>2, <2>1, <2>2 DEF TransportOK
  <2>3. CASE Known /\ place[c] \in Seat /\ Answer(place[c])
    <3>1. \A s \in Seat : seated'[s].taken = seated[s].taken
      BY <2>3, ResolvedGoesOn DEF Answer
    <3> QED BY <1>1, <2>1, <2>3, <3>1 DEF TransportOK
  <2> QED BY <2>1, <2>2, <2>3
<1>9. ASSUME NEW c \in Conns, Part(c) PROVE Accounts'
  <2>0. PICK s \in Seat \cup {"none"} : s = place[c]
    BY DEF TransportOK, Introduced
  <2>1. /\ tableOf[c] \in Ids
        /\ phase' = [phase EXCEPT ![c] = "releasing"]
        /\ \A u \in Ids : u # tableOf[c] => table'[u] = table[u]
        /\ table'[tableOf[c]].ringing = table[tableOf[c]].ringing
        /\ \A x \in Seat : x # s =>
             /\ table'[tableOf[c]].seats[x] = table[tableOf[c]].seats[x]
             /\ table'[tableOf[c]].holding[x] = table[tableOf[c]].holding[x]
        /\ \/ s = "none" /\ UNCHANGED vars
           \/ s \in Seat /\ UNCHANGED vars /\ table'[tableOf[c]].holding[s] = "running"
           \/ /\ s \in Seat /\ table'[tableOf[c]].holding[s] = table[tableOf[c]].holding[s]
              /\ \E tb \in TableRecord : GiveBack(tableOf[c], tb, s)
    BY <1>9, <2>0, PartLeaves
  <2>2. phase[c] = "parting" /\ UNCHANGED <<place, down>>
    BY <1>9 DEF Part
  \* Everybody else's seat is as it was.
  <2>3. ASSUME NEW x \in Seat, x # s, Answered(x) PROVE Answered(x)'
    <3>1. /\ \A d \in Conns : place[d] = x /\ phase[d] \in {"pumping", "parting"} =>
                place'[d] = x /\ phase'[d] \in {"pumping", "parting"}
          /\ \A d \in Conns : phase[d] \in {"releasing", "gone"} => phase'[d] \in {"releasing", "gone"}
      BY <2>0, <2>1, <2>2, <2>3 DEF TransportOK
    <3>2. \A t \in Ids : /\ table'[t].seats[x] = table[t].seats[x]
                         /\ table'[t].holding[x] = table[t].holding[x]
      BY <2>1, <2>3
    <3> QED BY <2>3, <3>1, <3>2, AnsweredStays
  <2>4. \A t \in Ids, x \in Seat : table'[t].holding[x] = "fired" => x \in table'[t].ringing
    <3> SUFFICES ASSUME NEW t \in Ids, NEW x \in Seat, table'[t].holding[x] = "fired"
                 PROVE x \in table'[t].ringing
      OBVIOUS
    <3>1. table'[t].ringing = table[t].ringing
      BY <2>1
    <3>2. CASE t = tableOf[c] /\ x = s
      <4>1. table[t].holding[x] = "fired"
        BY <1>0, <2>1, <3>2
      <4> QED BY <3>1, <4>1 DEF Accounts
    <3>3. CASE ~(t = tableOf[c] /\ x = s)
      <4>1. table'[t].holding[x] = table[t].holding[x]
        BY <2>1, <3>3
      <4> QED BY <3>1, <4>1 DEF Accounts
    <3> QED BY <3>2, <3>3
  <2>5. ASSUME Known', NEW x \in Seat, seated'[x].taken PROVE Answered(x)'
    <3>1. CASE UNCHANGED vars
      <4>1. Answered(x)
        BY <1>2, <2>2, <2>5, <3>1 DEF Accounts
      <4>2. CASE x # s
        BY <2>3, <4>1, <4>2
      <4>3. CASE x = s /\ table'[tableOf[c]].holding[s] = "running"
        BY <2>1, <4>3 DEF Answered
      <4>4. CASE x = s /\ \E tb \in TableRecord : GiveBack(tableOf[c], tb, s)
        BY <2>1, <2>2, <2>5, <4>4, GivenUp
      <4> QED BY <1>0, <2>1, <4>2, <4>3, <4>4
    <3>2. CASE s \in Seat /\ \E tb \in TableRecord : GiveBack(tableOf[c], tb, s)
      <4>1. Known /\ ~seated'[s].taken /\ \A y \in Seat : y # s => seated'[y] = seated[y]
        BY <2>1, <2>2, <2>5, <3>2, GivenUp
      <4>2. x # s /\ Answered(x)
        BY <2>5, <4>1 DEF Accounts
      <4> QED BY <2>3, <4>2
    <3> QED BY <2>1, <3>1, <3>2
  <2> QED BY <2>4, <2>5 DEF Accounts
<1>10. ASSUME NEW c \in Conns, Release(c) PROVE Accounts'
  <2>1. /\ UNCHANGED <<vars, place, down>>
        /\ phase[c] = "releasing" /\ phase' = [phase EXCEPT ![c] = "gone"]
        /\ \A u \in Ids :
             /\ table'[u].seats = table[u].seats /\ table'[u].holding = table[u].holding
             /\ table'[u].ringing = table[u].ringing
    BY <1>10, ReleaseLeaves
  <2> QED BY <1>1, <1>2, <2>1 DEF TransportOK
<1>11. ASSUME NEW t \in Ids, Fire(t) PROVE Accounts'
  <2>1. /\ \A u \in Ids : u # t => table'[u] = table[u]
        /\ table'[t].seats = table[t].seats /\ table'[t].holding = table[t].holding
        /\ table'[t].ringing = table[t].ringing
    BY <1>11, FireLeaves
  <2>2. UNCHANGED <<vars, phase, place, down>>
    BY <1>11 DEF Fire
  <2> QED BY <1>1, <1>2, <2>1, <2>2
<1>12. ASSUME NEW t \in Ids, NEW s \in Seat, AllowanceOut(t, s) PROVE Accounts'
  <2>1. /\ \A u \in Ids : u # t => table'[u] = table[u]
        /\ table'[t].seats = table[t].seats /\ table'[t].holding = table[t].holding
        /\ table'[t].ringing = table[t].ringing
        /\ UNCHANGED vars \/ (Known /\ TurnTimedOut(s))
    BY <1>12, AllowanceOutLeaves
  <2>2. UNCHANGED <<phase, place, down>>
    BY <1>12 DEF AllowanceOut
  <2>3. CASE UNCHANGED vars
    BY <1>1, <1>2, <2>1, <2>2, <2>3
  <2>4. CASE Known /\ TurnTimedOut(s)
    <3>1. \A x \in Seat : seated'[x].taken = seated[x].taken
      BY <2>4, ResolvedGoesOn DEF TurnTimedOut
    <3> QED BY <1>1, <2>1, <2>2, <2>4, <3>1
  <2> QED BY <2>1, <2>3, <2>4
<1>13. ASSUME NEW t \in Ids, NEW s \in Seat, WindowFires(t, s) PROVE Accounts'
  <2>1. /\ \A u \in Ids : u # t => table'[u] = table[u]
        /\ table'[t].seats = table[t].seats
        /\ table'[t].ringing = table[t].ringing \cup {s}
        /\ table'[t].holding = [table[t].holding EXCEPT ![s] = "fired"]
    BY <1>13, WindowFiresLeaves
  <2>2. UNCHANGED <<vars, phase, place, down>> /\ table[t].holding[s] = "running"
    BY <1>13 DEF WindowFires
  <2>3. table[t].holding \in [Seat -> {"none", "running", "fired"}]
    BY DEF TransportOK, TableRecord
  <2>4. \A x \in Seat : table[t].holding[x] # "none" => table'[t].holding[x] # "none"
    BY <2>1, <2>2, <2>3
  <2>5. ASSUME Known', NEW x \in Seat, seated'[x].taken PROVE Answered(x)'
    <3>1. Answered(x)
      BY <1>2, <2>2, <2>5 DEF Accounts
    <3>2. \A u \in Ids : /\ table'[u].seats[x] = table[u].seats[x]
                         /\ table[u].holding[x] # "none" => table'[u].holding[x] # "none"
      BY <2>1, <2>4
    <3> QED BY <2>2, <3>1, <3>2, AnsweredStays
  <2>6. \A u \in Ids, x \in Seat : table'[u].holding[x] = "fired" => x \in table'[u].ringing
    <3> SUFFICES ASSUME NEW u \in Ids, NEW x \in Seat, table'[u].holding[x] = "fired"
                 PROVE x \in table'[u].ringing
      OBVIOUS
    <3>1. CASE u = t /\ x = s
      BY <2>1, <3>1
    <3>2. CASE ~(u = t /\ x = s)
      BY <2>1, <2>3, <3>2 DEF Accounts
    <3> QED BY <3>1, <3>2
  <2> QED BY <2>5, <2>6 DEF Accounts
<1>14. ASSUME NEW t \in Ids, NEW s \in Seat, WindowClosed(t, s) PROVE Accounts'
  <2>1. /\ \A u \in Ids : u # t => table'[u] = table[u]
        /\ table'[t].seats = table[t].seats
        /\ table'[t].ringing = table[t].ringing \ {s}
        /\ \A x \in Seat : x # s => table'[t].holding[x] = table[t].holding[x]
        /\ table'[t].holding[s] = "none"
        /\ \/ UNCHANGED vars /\ table[t].holding[s] = "none"
           \/ \E tb \in TableRecord : GiveBack(t, tb, s)
    BY <1>14, WindowClosedLeaves
  <2>2. UNCHANGED <<phase, place, down>>
    BY <1>14 DEF WindowClosed
  <2>3. \A u \in Ids, x \in Seat : table'[u].holding[x] = "fired" => x \in table'[u].ringing
    <3> SUFFICES ASSUME NEW u \in Ids, NEW x \in Seat, table'[u].holding[x] = "fired"
                 PROVE x \in table'[u].ringing
      OBVIOUS
    <3>1. ~(u = t /\ x = s)
      BY <2>1
    <3>2. table'[u].holding[x] = table[u].holding[x]
      BY <2>1, <3>1
    <3>3. x \in table[u].ringing
      BY <3>2 DEF Accounts
    <3> QED BY <2>1, <3>1, <3>3
  <2>4. ASSUME Known', NEW x \in Seat, seated'[x].taken PROVE Answered(x)'
    <3>1. CASE UNCHANGED vars /\ table[t].holding[s] = "none"
      <4>1. Answered(x)
        BY <1>2, <2>2, <2>4, <3>1 DEF Accounts
      <4>2. \A u \in Ids : /\ table'[u].seats[x] = table[u].seats[x]
                           /\ table'[u].holding[x] = table[u].holding[x]
        BY <2>1, <3>1
      <4> QED BY <2>2, <4>1, <4>2, AnsweredStays
    <3>2. CASE \E tb \in TableRecord : GiveBack(t, tb, s)
      <4>1. Known /\ ~seated'[s].taken /\ \A y \in Seat : y # s => seated'[y] = seated[y]
        BY <2>2, <2>4, <3>2, GivenUp
      <4>2. x # s /\ Answered(x)
        BY <2>4, <4>1 DEF Accounts
      <4>3. \A u \in Ids : /\ table'[u].seats[x] = table[u].seats[x]
                           /\ table'[u].holding[x] = table[u].holding[x]
        BY <2>1, <4>2
      <4> QED BY <2>2, <4>2, <4>3, AnsweredStays
    <3> QED BY <2>1, <3>1, <3>2
  <2> QED BY <2>3, <2>4 DEF Accounts
<1>15. ~Stopping
  BY DEF Stopping
<1>16. ASSUME ClosedAll \/ Returned PROVE Accounts'
  BY <1>16 DEF ClosedAll, Returned, Accounts, Known
<1>17. CASE UNCHANGED tableVars
  BY <1>1, <1>2, <1>17 DEF tableVars, transport
<1> QED
  BY <1>3, <1>4, <1>5, <1>6, <1>7, <1>8, <1>9, <1>10, <1>11, <1>12, <1>13, <1>14, <1>15,
     <1>16, <1>17, TableCases

\* While the host serves, a seat the room holds for somebody is somebody's: no
\* order of drops, windows, returns and late callbacks leaves it taken for nobody.
THEOREM SeatsAreAccountedFor ==
  ASSUME "shutdown" \notin Timings
  PROVE TableSpec => []SeatIsAccountedFor
<1>1. ASSUME TableInit PROVE Accounts
  <2>1. \A s \in Seat : ~seated[s].taken /\ \A t \in Ids : table[t].holding[s] = "none"
    BY <1>1 DEF TableInit, Init, Empty, NewTable
  <2> QED BY <2>1 DEF Accounts
<1>2. TransportOK /\ TransportOK' /\ IInv /\ TypeOK' /\ Accounts /\ [TableNext]_tableVars => Accounts'
  BY AccountsStay
<1>3. ASSUME TransportOK, Accounts PROVE SeatIsAccountedFor
  <2> SUFFICES ASSUME Known, NEW s \in Seat, seated[s].taken
               PROVE \/ \E c \in Conns : place[c] = s /\ phase[c] \in {"pumping", "parting"}
                     \/ \E t \in Ids : table[t].holding[s] = "running" \/ s \in table[t].ringing
                     \/ \E t \in Ids, c \in Conns :
                          table[t].seats[s] = c /\ phase[c] \in {"releasing", "gone"}
    BY DEF SeatIsAccountedFor
  <2>1. Answered(s)
    BY <1>3 DEF Accounts
  <2>2. \A t \in Ids : table[t].holding[s] \in {"none", "running", "fired"}
    BY <1>3 DEF TransportOK, TableRecord
  <2> QED BY <1>3, <2>1, <2>2 DEF Accounts, Answered
<1>4. IInv => TypeOK
  BY DEF IInv
<1> QED
  BY <1>1, <1>2, <1>3, <1>4, TransportTyped, PlayersAreInAMatch, PTL DEF TableSpec

-----------------------------------------------------------------------------
(* What the people at one table are told. *)

\* What a step of the transport leaves of a table that TableProofs does not speak
\* of: its watchers, and who came back early.
Same(a, b) == a.early = b.early /\ a.watchers = b.watchers

\* An exchange keeps who came back early, and keeps or lets go the watchers.
LEMMA SettledRest ==
  ASSUME TransportOK, NEW t \in Ids, NEW tb \in TableRecord, NEW only, NEW before,
         Settled(t, tb, only, before)
  PROVE /\ table'[t].early = tb.early
        /\ table'[t].watchers = Kept(tb.watchers) \ (IF Finished' THEN tb.watchers ELSE {})
        /\ \A u \in Ids : u # t => table'[u] = table[u]
<1> DEFINE kept == Kept(tb.watchers)
           cut == (tb.watchers \ kept) \cup (IF Finished' THEN tb.watchers ELSE {})
           alarm == SetAlarm(tb.alarm, only)
           left == kept \ cut
           half == [tb EXCEPT !.alarm = alarm]
           new == [half EXCEPT !.watchers = left]
<1>1. table' = [table EXCEPT ![t] = new]
  BY DEF Settled
<1>2. left = kept \ (IF Finished' THEN tb.watchers ELSE {})
  BY DEF Kept
<1> HIDE DEF alarm, left, cut
<1>3. half.early = tb.early /\ half = [half EXCEPT !.alarm = half.alarm]
   /\ DOMAIN half = DOMAIN tb
  BY DEF TableRecord
<1>4. new.early = half.early /\ new.watchers = left
  BY DEF TableRecord
<1> HIDE DEF new
<1>5. table'[t] = new /\ \A u \in Ids : u # t => table'[u] = table[u]
  BY <1>1 DEF TransportOK
<1> QED BY <1>2, <1>3, <1>4, <1>5

\* An exchange with a room that is gone lets every watcher go.
LEMMA UnknownRest ==
  ASSUME TransportOK, NEW t \in Ids, NEW tb \in TableRecord, Unknown(t, tb)
  PROVE /\ table'[t].early = tb.early
        /\ table'[t].watchers = {}
        /\ \A u \in Ids : u # t => table'[u] = table[u]
<1> DEFINE new == [tb EXCEPT !.watchers = {}]
<1>1. table' = [table EXCEPT ![t] = new]
  BY DEF Unknown
<1>4. new.early = tb.early /\ new.watchers = {}
  BY DEF TableRecord
<1> HIDE DEF new
<1>5. table'[t] = new /\ \A u \in Ids : u # t => table'[u] = table[u]
  BY <1>1 DEF TransportOK
<1> QED BY <1>4, <1>5

\* A timer that fires, a reference taken or given back, a connection lost.
LEMMA FireRest ==
  ASSUME TransportOK, NEW t \in Ids, Fire(t)
  PROVE \A u \in Ids : Same(table'[u], table[u]) /\ table'[u].seats = table[u].seats
BY DEF Fire, TransportOK, TableRecord, Same

\* Nor does a window that runs out.
LEMMA WindowFiresRest ==
  ASSUME TransportOK, NEW t \in Ids, NEW s \in Seat, WindowFires(t, s)
  PROVE \A u \in Ids : Same(table'[u], table[u]) /\ table'[u].seats = table[u].seats
BY DEF WindowFires, TransportOK, TableRecord, Same

\* Nor does a connection that says hello.
LEMMA DialRest ==
  ASSUME TransportOK, NEW c \in Conns, NEW first \in Firsts, Dial(c, first)
  PROVE \A u \in Ids : Same(table'[u], table[u]) /\ table'[u].seats = table[u].seats
<1>1. PICK t \in Ids : table' = [table EXCEPT ![t] = Claimed(@)]
  BY DEF Dial
<1>2. Same(Claimed(table[t]), table[t]) /\ Claimed(table[t]).seats = table[t].seats
  BY DEF Claimed, TransportOK, TableRecord, Same
<1> QED BY <1>1, <1>2 DEF Same, TransportOK

\* Nor does one that gives its reference back.
LEMMA ReleaseRest ==
  ASSUME TransportOK, NEW c \in Conns, Release(c)
  PROVE \A u \in Ids : Same(table'[u], table[u]) /\ table'[u].seats = table[u].seats
BY DEF Release, TransportOK, TableRecord, Same

\* A watcher let in joins the watchers of its own table.
LEMMA WatchRest ==
  ASSUME TransportOK, NEW c \in Conns, Watch(c)
  PROVE /\ tableOf[c] \in Ids
        /\ \A u \in Ids : /\ table'[u].early = table[u].early
                          /\ table'[u].seats = table[u].seats
                          /\ table'[u].watchers = IF u = tableOf[c] THEN table[u].watchers \cup {c}
                                                  ELSE table[u].watchers
BY DEF Watch, TransportOK, TableRecord

\* A shutdown lets watchers go and leaves the seats.
LEMMA StoppingRest ==
  ASSUME TransportOK, Stopping
  PROVE \A u \in Ids : /\ table'[u].early = table[u].early
                       /\ table'[u].seats = table[u].seats
                       /\ table'[u].watchers \subseteq table[u].watchers
<1>1. CASE entry = 0
  BY <1>1 DEF Stopping
<1>2. CASE entry # 0
  BY <1>2 DEF Stopping, TransportOK, TableRecord
<1> QED BY <1>1, <1>2

\* A seat freed for a player is not that player's any more.
LEMMA FreedRest ==
  ASSUME NEW tb \in TableRecord, NEW s \in Seat, NEW c
  PROVE /\ Same(Freed(tb, s, c), tb)
        /\ \A x \in Seat : Freed(tb, s, c).seats[x] \in {tb.seats[x], Absent}
        /\ Freed(tb, s, c).seats[s] # c \/ c = Absent
BY DEF Freed, TableRecord, Same

\* Sitting down moves no watcher.
LEMMA SatDownRest ==
  ASSUME NEW tb \in TableRecord, NEW s \in Seat, NEW c
  PROVE Same(SatDown(tb, s, c), tb)
BY DEF SatDown, TableRecord, Same

\* Coming back moves no watcher, and is remembered when it was early.
LEMMA CameBackRest ==
  ASSUME NEW tb \in TableRecord, NEW s \in Seat, NEW c, NEW early \in SUBSET Conns
  PROVE /\ CameBack(tb, s, c, early).early = early
        /\ CameBack(tb, s, c, early).watchers = tb.watchers
BY DEF CameBack, TableRecord

\* A table becomes tb: by an exchange with the room, by one with a room that is
\* gone, or with no exchange at all.
Passes(t, tb, before) ==
  \/ Known /\ Settled(t, tb, "none", before)
  \/ ~Known /\ Unknown(t, tb)
  \/ table' = [table EXCEPT ![t] = tb] /\ UNCHANGED <<vars, got, cursor>>

\* However a table becomes tb, it has tb's early players and no watcher tb has not.
LEMMA PassesRest ==
  ASSUME TransportOK, NEW t \in Ids, NEW tb \in TableRecord, NEW before, Passes(t, tb, before)
  PROVE /\ table'[t].early = tb.early
        /\ table'[t].watchers \subseteq tb.watchers
        /\ \A u \in Ids : u # t => table'[u] = table[u]
<1>1. CASE Settled(t, tb, "none", before)
  BY <1>1, SettledRest DEF Kept
<1>2. CASE Unknown(t, tb)
  BY <1>2, UnknownRest
<1>3. CASE table' = [table EXCEPT ![t] = tb]
  BY <1>3 DEF TransportOK
<1> QED BY <1>1, <1>2, <1>3 DEF Passes

\* A message leaves the table as it was, but for the exchange.
LEMMA MessagePasses ==
  ASSUME TransportOK, NEW c \in Conns, Act(c) \/ Chatter(c) \/ Overdue(c)
  PROVE tableOf[c] \in Ids /\ Passes(tableOf[c], table[tableOf[c]], got)
<1>1. tableOf[c] \in Ids
  BY DEF TransportOK, Act, Chatter, Overdue
<1>2. Passes(tableOf[c], table[tableOf[c]], got)
  BY DEF Act, Chatter, Overdue, Passes
<1> QED BY <1>1, <1>2

\* An allowance that runs out touches no seat and no watcher.
LEMMA AllowancePasses ==
  ASSUME TransportOK, TypeOK', NEW t \in Ids, NEW s \in Seat, AllowanceOut(t, s)
  PROVE \E tb \in TableRecord : /\ Same(tb, table[t]) /\ tb.seats = table[t].seats
                                /\ Passes(t, tb, got)
<1> DEFINE tb == [table[t] EXCEPT !.late = table[t].late \ {s}]
           set == [tb EXCEPT !.alarm = SetAlarm(tb.alarm, s)]
<1>0. table[t] \in TableRecord
  BY DEF TransportOK
<1>1. /\ tb \in TableRecord /\ Same(tb, table[t]) /\ tb.seats = table[t].seats
  BY <1>0 DEF TableRecord, Same
<1>2. \/ ~Known /\ Unknown(t, tb)
      \/ UNCHANGED <<vars, got, cursor>> /\ table' = [table EXCEPT ![t] = set]
      \/ Known /\ Settled(t, tb, "none", got)
  BY DEF AllowanceOut
<1> HIDE DEF tb
<1>3. CASE UNCHANGED <<vars, got, cursor>> /\ table' = [table EXCEPT ![t] = set]
  <2>1. SetAlarm(tb.alarm, s) \in Seat \cup {"none"}
    BY <1>1, AwaitsASeat DEF SetAlarm, TableRecord
  <2>2. set \in TableRecord /\ Same(set, tb) /\ set.seats = tb.seats
    BY <1>1, <2>1 DEF TableRecord, Same
  <2>3. Same(set, table[t]) /\ set.seats = table[t].seats
    BY <1>1, <2>2 DEF Same
  <2>4. Passes(t, set, got)
    BY <1>3 DEF Passes
  <2> HIDE DEF set
  <2> QED BY <2>2, <2>3, <2>4
<1>4. CASE (~Known /\ Unknown(t, tb)) \/ (Known /\ Settled(t, tb, "none", got))
  <2>1. Passes(t, tb, got)
    BY <1>4 DEF Passes
  <2> QED BY <1>1, <2>1
<1> QED BY <1>2, <1>3, <1>4

\* Giving a seat back is an exchange.
LEMMA GiveBackPasses ==
  ASSUME NEW t, NEW tb, NEW s, GiveBack(t, tb, s)
  PROVE Passes(t, tb, got)
BY DEF GiveBack, Passes

\* Nor does the end of a window.
LEMMA WindowClosedPasses ==
  ASSUME TransportOK, NEW t \in Ids, NEW s \in Seat, WindowClosed(t, s)
  PROVE \E tb \in TableRecord : /\ Same(tb, table[t]) /\ tb.seats = table[t].seats
                                /\ Passes(t, tb, got)
<1> DEFINE tb == [table[t] EXCEPT !.ringing = table[t].ringing \ {s}]
           free == [tb EXCEPT !.holding = [tb.holding EXCEPT ![s] = "none"]]
<1>0. table[t] \in TableRecord
  BY DEF TransportOK
<1>1. /\ tb \in TableRecord /\ Same(tb, table[t]) /\ tb.seats = table[t].seats
  BY <1>0 DEF TableRecord, Same
<1>2. \/ UNCHANGED <<vars, got, cursor>> /\ table' = [table EXCEPT ![t] = tb]
      \/ GiveBack(t, free, s)
  BY DEF WindowClosed
<1> HIDE DEF tb
<1>3. CASE GiveBack(t, free, s)
  <2>1. free \in TableRecord /\ Same(free, tb) /\ free.seats = tb.seats
    BY <1>1 DEF TableRecord, Same
  <2>2. Same(free, table[t]) /\ free.seats = table[t].seats
    BY <1>1, <2>1 DEF Same
  <2>3. Passes(t, free, got)
    BY <1>3, GiveBackPasses
  <2> HIDE DEF free
  <2> QED BY <2>1, <2>2, <2>3
<1>4. CASE UNCHANGED <<vars, got, cursor>> /\ table' = [table EXCEPT ![t] = tb]
  <2>1. Passes(t, tb, got)
    BY <1>4 DEF Passes
  <2> QED BY <1>1, <2>1
<1> QED BY <1>2, <1>3, <1>4

\* A player who leaves: their seat at the table is nobody's or somebody else's.
LEMMA PartPasses ==
  ASSUME TransportOK, NEW c \in Conns, Part(c), place[c] \in Seat
  PROVE \E tb \in TableRecord :
          /\ Same(tb, table[tableOf[c]])
          /\ \A x \in Seat : tb.seats[x] \in {table[tableOf[c]].seats[x], Absent}
          /\ Passes(tableOf[c], tb, got)
<1> DEFINE t == tableOf[c]
           s == place[c]
           tb == Freed(table[t], s, c)
           held == [tb EXCEPT !.holding = [tb.holding EXCEPT ![s] = "running"]]
<1>0. t \in Ids /\ table[t] \in TableRecord /\ s \in Seat /\ s # "none"
  BY Seats DEF TransportOK, Part
<1>1. /\ tb \in TableRecord /\ Same(tb, table[t])
      /\ \A x \in Seat : tb.seats[x] \in {table[t].seats[x], Absent}
  BY <1>0, FreedIsATable, FreedRest
<1>2. \/ UNCHANGED <<vars, got, cursor>> /\ table' = [table EXCEPT ![t] = held]
      \/ GiveBack(t, tb, s)
  BY <1>0 DEF Part
<1> HIDE DEF tb, s, t
<1>3. CASE UNCHANGED <<vars, got, cursor>> /\ table' = [table EXCEPT ![t] = held]
  <2>1. held \in TableRecord /\ Same(held, tb) /\ held.seats = tb.seats
    BY <1>0, <1>1 DEF TableRecord, Same
  <2>2. Same(held, table[t])
    BY <1>1, <2>1 DEF Same
  <2>3. Passes(t, held, got)
    BY <1>3 DEF Passes
  <2> HIDE DEF held
  <2>4. /\ held \in TableRecord /\ Same(held, table[t])
        /\ \A x \in Seat : held.seats[x] \in {table[t].seats[x], Absent}
        /\ Passes(t, held, got)
    BY <1>1, <2>1, <2>2, <2>3
  <2> QED BY <2>4 DEF t
<1>4. CASE GiveBack(t, tb, s)
  <2>1. Passes(t, tb, got)
    BY <1>4, GiveBackPasses
  <2> QED BY <1>1, <2>1 DEF t
<1> QED BY <1>2, <1>3, <1>4

\* A player who sits down is at the table's seat before anything is written.
LEMMA SitPasses ==
  ASSUME TransportOK, NEW c \in Conns, Sit(c)
  PROVE \E tb \in TableRecord :
          /\ tableOf[c] \in Ids /\ FreeSeat \in Seat
          /\ Same(tb, table[tableOf[c]])
          /\ tb.seats[FreeSeat] = c
          /\ \A x \in Seat : x # FreeSeat => tb.seats[x] = table[tableOf[c]].seats[x]
          /\ Settled(tableOf[c], tb, "none", got)
<1> DEFINE t == tableOf[c]
           s == FreeSeat
           tb == SatDown(table[t], s, c)
<1>1. t \in Ids /\ table[t] \in TableRecord /\ s \in Seat
  BY Seats DEF Sit, TransportOK, FreeSeat
<1>2. Settled(t, tb, "none", got)
  BY DEF Sit, SatDown
<1>3. /\ tb \in TableRecord /\ Same(tb, table[t])
      /\ tb.seats[s] = c /\ \A x \in Seat : x # s => tb.seats[x] = table[t].seats[x]
  BY <1>1, SatDownIsATable, SatDownRest
<1> HIDE DEF tb
<1> QED BY <1>1, <1>2, <1>3

\* A player who comes back was put down as early unless nobody of theirs was left.
LEMMA RejoinPasses ==
  ASSUME TransportOK, NEW c \in Conns, Rejoin(c)
  PROVE \E s \in Seat, tb \in TableRecord :
          /\ tableOf[c] \in Ids
          /\ seated[s].taken
          /\ place' = [place EXCEPT ![c] = s]
          /\ tb.watchers = table[tableOf[c]].watchers
          /\ table[tableOf[c]].early \subseteq tb.early
          /\ c \in tb.early \/ \A d \in Conns : place[d] = s => phase[d] \in {"releasing", "gone"}
          /\ tb.seats[s] = c /\ tb.holding[s] = "none"
          /\ \A x \in Seat : x # s => tb.seats[x] = table[tableOf[c]].seats[x]
          /\ \A x \in Seat : x # s => tb.holding[x] = table[tableOf[c]].holding[x]
          /\ \/ /\ phase' = [phase EXCEPT ![c] = "pumping"]
                /\ Settled(tableOf[c], tb, "none", [got EXCEPT ![c] = Resume(s)])
             \/ /\ phase' = [phase EXCEPT ![c] = "releasing"]
                /\ table' = [table EXCEPT ![tableOf[c]] = tb]
                /\ UNCHANGED <<got, cursor>>
<1> DEFINE t == tableOf[c]
           s == CHOOSE seat \in SeatsFor(hello[c].token) : TRUE
           missed == \A d \in Conns : place[d] = s => phase[d] \in {"releasing", "gone"}
           early == IF missed THEN table[t].early ELSE table[t].early \cup {c}
           tb == CameBack(table[t], s, c, early)
<1>1. t \in Ids /\ table[t] \in TableRecord
  BY DEF Rejoin, TransportOK
<1>2. s \in Seat /\ seated[s].taken
  <2>1. Gate(Said(c)) = "rejoined"
    BY DEF Rejoin
  <2>2. SeatsFor(hello[c].token) # {}
    BY <2>1 DEF Gate, Said
  <2>3. s \in SeatsFor(hello[c].token)
    BY <2>2
  <2> QED BY <2>3 DEF SeatsFor
<1>3. early \in SUBSET Conns
  BY <1>1 DEF TableRecord
<1>4. table[t].early \subseteq early /\ (c \in early \/ missed)
  OBVIOUS
<1>5. /\ place' = [place EXCEPT ![c] = s]
      /\ \/ /\ phase' = [phase EXCEPT ![c] = "pumping"]
            /\ Settled(t, tb, "none", [got EXCEPT ![c] = Resume(s)])
         \/ /\ phase' = [phase EXCEPT ![c] = "releasing"]
            /\ table' = [table EXCEPT ![t] = tb]
            /\ UNCHANGED <<got, cursor>>
  BY DEF Rejoin, CameBack
<1> HIDE DEF early, s
<1>6. /\ tb \in TableRecord
      /\ tb.early = early /\ tb.watchers = table[t].watchers
      /\ tb.seats[s] = c /\ tb.holding[s] = "none"
      /\ \A x \in Seat : x # s => tb.seats[x] = table[t].seats[x]
      /\ \A x \in Seat : x # s => tb.holding[x] = table[t].holding[x]
  BY <1>1, <1>2, <1>3, CameBackIsATable, CameBackRest
<1> HIDE DEF tb
<1> QED BY <1>1, <1>2, <1>4, <1>5, <1>6

-----------------------------------------------------------------------------
(* Who came back early. *)

\* A place in a seat is kept for good.
LEMMA PlacesKept ==
  ASSUME TransportOK, [TableNext]_tableVars, NEW d \in Conns, NEW s \in Seat, place[d] = s
  PROVE place'[d] = s
<1>0. "none" \notin Seat
  BY Seats
<1>1. ASSUME NEW c \in Conns, NEW p, phase[c] = "claimed", place' = [place EXCEPT ![c] = p]
      PROVE place'[d] = s
  BY <1>0, <1>1 DEF TransportOK, Introduced
<1>2. ASSUME NEW c \in Conns, Sit(c) PROVE place'[d] = s
  BY <1>1, <1>2 DEF Sit
<1>3. ASSUME NEW c \in Conns, Rejoin(c) PROVE place'[d] = s
  BY <1>1, <1>3 DEF Rejoin
<1>4. ASSUME UNCHANGED place PROVE place'[d] = s
  BY <1>4
<1>5. ASSUME NEW c \in Conns,
             \/ Refused(c) \/ Watch(c) \/ Act(c) \/ Chatter(c) \/ Overdue(c)
             \/ Lose(c) \/ Notice(c) \/ Part(c) \/ Release(c)
      PROVE UNCHANGED place
  BY <1>5 DEF Refused, Watch, Act, Chatter, Overdue, Lose, Notice, Part, Release
<1>6. ASSUME NEW c \in Conns, NEW first \in Firsts, Dial(c, first) PROVE UNCHANGED place
  BY <1>6 DEF Dial
<1>7. ASSUME NEW t \in Ids, NEW x \in Seat,
             Fire(t) \/ AllowanceOut(t, x) \/ WindowFires(t, x) \/ WindowClosed(t, x)
      PROVE UNCHANGED place
  BY <1>7 DEF Fire, AllowanceOut, WindowFires, WindowClosed
<1>8. ASSUME Stopping \/ ClosedAll \/ Returned \/ UNCHANGED tableVars PROVE UNCHANGED place
  BY <1>8 DEF Stopping, ClosedAll, Returned, tableVars, transport
<1> QED BY <1>2, <1>3, <1>4, <1>5, <1>6, <1>7, <1>8, TableCases

\* A seat nobody has come back to early has been so all along: who came back early
\* is never forgotten, and a place is kept for good.
LEMMA OrderlyBefore ==
  ASSUME TransportOK, TypeOK', [TableNext]_tableVars, NEW s \in Seat, Orderly(s)'
  PROVE Orderly(s)
<1>1. ASSUME \A t \in Ids : table[t].early \subseteq table'[t].early
      PROVE Orderly(s)
  <2>1. \A t \in Ids : table[t].early \subseteq Conns
    BY DEF TransportOK, TableRecord
  <2>2. \A d \in Conns : place[d] = s => place'[d] = s
    BY PlacesKept
  <2> QED BY <1>1, <2>1, <2>2 DEF Orderly
<1>2. ASSUME NEW t \in Ids, NEW tb \in TableRecord, NEW before, Same(tb, table[t]),
             Passes(t, tb, before)
      PROVE Orderly(s)
  <2>1. \A u \in Ids : table'[u].early = table[u].early
    BY <1>2, PassesRest DEF Same
  <2> QED BY <1>1, <1>2, <2>1
<1>3. ASSUME NEW c \in Conns, Sit(c) PROVE Orderly(s)
  <2>1. PICK tb \in TableRecord :
          /\ tableOf[c] \in Ids
          /\ Same(tb, table[tableOf[c]])
          /\ Settled(tableOf[c], tb, "none", got)
    BY <1>3, SitPasses
  <2>2. \A u \in Ids : table'[u].early = table[u].early
    BY <2>1, SettledRest DEF Same
  <2> QED BY <1>1, <2>2
<1>4. ASSUME NEW c \in Conns, Rejoin(c) PROVE Orderly(s)
  <2>1. PICK x \in Seat, tb \in TableRecord :
          /\ tableOf[c] \in Ids
          /\ table[tableOf[c]].early \subseteq tb.early
          /\ \/ Settled(tableOf[c], tb, "none", [got EXCEPT ![c] = Resume(x)])
             \/ table' = [table EXCEPT ![tableOf[c]] = tb]
    BY <1>4, RejoinPasses
  <2>2. table'[tableOf[c]].early = tb.early /\ \A u \in Ids : u # tableOf[c] => table'[u] = table[u]
    <3>1. CASE Settled(tableOf[c], tb, "none", [got EXCEPT ![c] = Resume(x)])
      BY <2>1, <3>1, SettledRest
    <3>2. CASE table' = [table EXCEPT ![tableOf[c]] = tb]
      BY <2>1, <3>2 DEF TransportOK
    <3> QED BY <2>1, <3>1, <3>2
  <2> QED BY <1>1, <2>1, <2>2
<1>5. ASSUME NEW c \in Conns, Part(c) PROVE Orderly(s)
  <2>1. CASE place[c] \in Seat
    <3>1. PICK tb \in TableRecord : Same(tb, table[tableOf[c]]) /\ Passes(tableOf[c], tb, got)
      BY <1>5, <2>1, PartPasses
    <3>2. tableOf[c] \in Ids
      BY <1>5, PartLeaves
    <3> QED BY <1>2, <3>1, <3>2
  <2>2. CASE place[c] = "none"
    <3>1. table' = [table EXCEPT ![tableOf[c]].watchers = @ \ {c}]
      BY <1>5, <2>2 DEF Part
    <3>2. \A u \in Ids : table'[u].early = table[u].early
      BY <3>1 DEF TransportOK, TableRecord
    <3> QED BY <1>1, <3>2
  <2> QED BY <2>1, <2>2 DEF TransportOK, Introduced
<1>6. ASSUME NEW c \in Conns, Act(c) \/ Chatter(c) \/ Overdue(c) PROVE Orderly(s)
  <2>1. tableOf[c] \in Ids /\ Passes(tableOf[c], table[tableOf[c]], got)
    BY <1>6, MessagePasses
  <2> QED BY <1>2, <2>1 DEF TransportOK, Same
<1>7. ASSUME NEW t \in Ids, NEW x \in Seat, AllowanceOut(t, x) \/ WindowClosed(t, x) PROVE Orderly(s)
  <2>1. PICK tb \in TableRecord : Same(tb, table[t]) /\ Passes(t, tb, got)
    BY <1>7, AllowancePasses, WindowClosedPasses
  <2> QED BY <1>2, <2>1
<1>8. ASSUME NEW c \in Conns, NEW first \in Firsts, Dial(c, first) PROVE Orderly(s)
  BY <1>1, <1>8, DialRest DEF Same
<1>9. ASSUME NEW c \in Conns, Release(c) PROVE Orderly(s)
  BY <1>1, <1>9, ReleaseRest DEF Same
<1>10. ASSUME NEW c \in Conns, Watch(c) PROVE Orderly(s)
  BY <1>1, <1>10, WatchRest
<1>11. ASSUME NEW t \in Ids, Fire(t) \/ \E x \in Seat : WindowFires(t, x) PROVE Orderly(s)
  BY <1>1, <1>11, FireRest, WindowFiresRest DEF Same
<1>12. ASSUME Stopping PROVE Orderly(s)
  BY <1>1, <1>12, StoppingRest
<1>13. ASSUME UNCHANGED table PROVE Orderly(s)
  BY <1>1, <1>13
<1>14. ASSUME NEW c \in Conns, Refused(c) \/ Lose(c) \/ Notice(c) PROVE Orderly(s)
  BY <1>13, <1>14 DEF Refused, Lose, Notice
<1>15. ASSUME ClosedAll \/ Returned \/ UNCHANGED tableVars PROVE Orderly(s)
  BY <1>13, <1>15 DEF ClosedAll, Returned, tableVars, transport
<1> QED
  BY <1>3, <1>4, <1>5, <1>6, <1>7, <1>8, <1>9, <1>10, <1>11, <1>12, <1>14, <1>15, TableCases

-----------------------------------------------------------------------------
(* One connection to a seat. *)

AtSeat(c, s) == place[c] = s /\ phase[c] \in {"pumping", "parting"}

\* A seat has one connection in it, which is the one its table names and for which
\* no window runs; a seat in a window is still its player's.
OneAt(s) ==
  /\ \A c, d \in Conns : AtSeat(c, s) /\ AtSeat(d, s) => c = d
  /\ \A c \in Conns : AtSeat(c, s) =>
       /\ Known => seated[s].taken
       /\ \A t \in Ids : table[t].holding[s] = "none" /\ table[t].seats[s] = c
  /\ \A t \in Ids : table[t].holding[s] # "none" /\ Known => seated[s].taken

\* A step that seats nobody, holds no seat more and frees none the room keeps.
LEMMA OneAtKept ==
  ASSUME NEW s \in Seat, OneAt(s),
         Known' => Known,
         Known' /\ seated[s].taken => seated'[s].taken,
         \A c \in Conns : AtSeat(c, s)' => AtSeat(c, s),
         \A t \in Ids : /\ table'[t].seats[s] = table[t].seats[s]
                        /\ table'[t].holding[s] # "none" => table[t].holding[s] # "none"
  PROVE OneAt(s)'
<1>1. \A c, d \in Conns : AtSeat(c, s)' /\ AtSeat(d, s)' => c = d
  BY DEF OneAt
<1>2. ASSUME NEW c \in Conns, AtSeat(c, s)'
      PROVE /\ Known' => seated'[s].taken
            /\ \A t \in Ids : table'[t].holding[s] = "none" /\ table'[t].seats[s] = c
  BY <1>2 DEF OneAt
<1>3. \A t \in Ids : table'[t].holding[s] # "none" /\ Known' => seated'[s].taken
  BY DEF OneAt
<1> QED BY <1>1, <1>2, <1>3 DEF OneAt

\* No step puts a second connection in a seat whose players come back in order.
LEMMA OneAtStays ==
  ASSUME MaxTables = 1, TransportOK, TransportOK', IInv, TypeOK', [TableNext]_tableVars,
         NEW s \in Seat, OneAt(s), Orderly(s)'
  PROVE OneAt(s)'
<1>0. /\ "none" \notin Seat
      /\ \A t, u \in Ids : t = u
      /\ \A t \in Ids : table[t] \in TableRecord
  BY Seats DEF TransportOK, Ids
<1>2. ASSUME UNCHANGED <<vars, down>>
      PROVE (Known' <=> Known) /\ seated' = seated
  BY <1>2 DEF vars, match, Known, Finished
\* A step that leaves the room as it was, and everybody where they were.
<1>1. ASSUME UNCHANGED <<vars, down>>,
             \A c \in Conns : AtSeat(c, s)' => AtSeat(c, s),
             \A t \in Ids : /\ table'[t].seats[s] = table[t].seats[s]
                            /\ table'[t].holding[s] # "none" => table[t].holding[s] # "none"
      PROVE OneAt(s)'
  BY <1>1, <1>2, OneAtKept
<1>3. ASSUME NEW c \in Conns, NEW first \in Firsts, Dial(c, first) PROVE OneAt(s)'
  <2>1. /\ UNCHANGED <<vars, place, down>>
        /\ phase[c] = "out" /\ phase' = [phase EXCEPT ![c] = "claimed"]
        /\ \A u \in Ids : table'[u].seats = table[u].seats /\ table'[u].holding = table[u].holding
    BY <1>3, DialLeaves
  <2>2. \A d \in Conns : AtSeat(d, s)' => AtSeat(d, s)
    BY <2>1 DEF TransportOK, AtSeat
  <2> QED BY <1>1, <2>1, <2>2
<1>4. ASSUME NEW c \in Conns, Refused(c) \/ Lose(c) \/ Notice(c) PROVE OneAt(s)'
  <2>1. /\ UNCHANGED <<vars, place, table, down>>
        /\ \/ phase[c] = "claimed" /\ phase' = [phase EXCEPT ![c] = "releasing"]
           \/ phase[c] = "pumping" /\ phase' = [phase EXCEPT ![c] = "parting"]
           \/ phase' = phase
    BY <1>4 DEF Refused, Lose, Notice
  <2>2. \A d \in Conns : AtSeat(d, s)' => AtSeat(d, s)
    BY <2>1 DEF TransportOK, AtSeat
  <2> QED BY <1>1, <2>1, <2>2
<1>5. ASSUME NEW c \in Conns, Watch(c) PROVE OneAt(s)'
  <2>1. /\ UNCHANGED <<vars, place, down>>
        /\ phase[c] = "claimed" /\ phase' = [phase EXCEPT ![c] = "pumping"]
        /\ \A u \in Ids : table'[u].seats = table[u].seats /\ table'[u].holding = table[u].holding
    BY <1>5, WatchLeaves
  <2>2. \A d \in Conns : AtSeat(d, s)' => AtSeat(d, s)
    BY <1>0, <2>1 DEF TransportOK, AtSeat
  <2> QED BY <1>1, <2>1, <2>2
<1>6. ASSUME NEW c \in Conns, Sit(c) PROVE OneAt(s)'
  <2>0. PICK f \in Seat : f = FreeSeat
    BY <1>6, SitLeaves
  <2>1. /\ tableOf[c] \in Ids /\ Known
        /\ table'[tableOf[c]].holding = table[tableOf[c]].holding
        /\ table'[tableOf[c]].seats[f] = c
        /\ \A x \in Seat : x # f => table'[tableOf[c]].seats[x] = table[tableOf[c]].seats[x]
        /\ Join(Said(c))
    BY <1>6, <2>0, SitLeaves
  <2>2. /\ phase[c] = "claimed" /\ phase' = [phase EXCEPT ![c] = "pumping"]
        /\ place' = [place EXCEPT ![c] = f]
    BY <1>6, <2>0 DEF Sit
  <2>3. /\ ~seated[f].taken
        /\ seated'[f].taken /\ \A x \in Seat : x # f => seated'[x] = seated[x]
    <3>1. Gate(Said(c)) = "seated" /\ Gate(Said(c)) # "full"
      BY <2>1 DEF Join
    <3>2. FreeSeats # {}
      BY <3>1 DEF Gate
    <3>3. ~seated[f].taken
      BY <2>0, <3>2, LastSeat DEF FreeSeats
    <3> QED BY <2>0, <2>1, <3>3 DEF Join, IInv, TypeOK
  <2>4. CASE s # f
    <3>1. \A d \in Conns : AtSeat(d, s)' => AtSeat(d, s)
      BY <1>0, <2>2, <2>4 DEF TransportOK, Introduced, AtSeat
    <3>2. \A t \in Ids : /\ table'[t].seats[s] = table[t].seats[s]
                         /\ table'[t].holding[s] = table[t].holding[s]
      BY <1>0, <2>1, <2>4
    <3> QED BY <2>1, <2>3, <2>4, <3>1, <3>2, OneAtKept
  <2>5. CASE s = f
    <3>1. \A d \in Conns : ~AtSeat(d, s)
      BY <2>1, <2>3, <2>5 DEF OneAt
    <3>2. \A d \in Conns : AtSeat(d, s)' => d = c
      BY <2>2, <3>1 DEF TransportOK, Introduced, AtSeat
    <3>3. \A t \in Ids : table[t].holding[s] = "none"
      BY <2>1, <2>3, <2>5 DEF OneAt
    <3>4. \A t \in Ids : table'[t].holding[s] = "none" /\ table'[t].seats[s] = c
      BY <1>0, <2>1, <2>5, <3>3
    <3> QED BY <2>3, <2>5, <3>2, <3>4 DEF OneAt
  <2> QED BY <2>4, <2>5
<1>7. ASSUME NEW c \in Conns, Rejoin(c) PROVE OneAt(s)'
  <2>1. PICK f \in Seat, tb \in TableRecord :
          /\ tableOf[c] \in Ids
          /\ seated[f].taken
          /\ place' = [place EXCEPT ![c] = f]
          /\ c \in tb.early \/ \A d \in Conns : place[d] = f => phase[d] \in {"releasing", "gone"}
          /\ tb.seats[f] = c /\ tb.holding[f] = "none"
          /\ \A x \in Seat : x # f => tb.seats[x] = table[tableOf[c]].seats[x]
          /\ \A x \in Seat : x # f => tb.holding[x] = table[tableOf[c]].holding[x]
          /\ \/ /\ phase' = [phase EXCEPT ![c] = "pumping"]
                /\ Settled(tableOf[c], tb, "none", [got EXCEPT ![c] = Resume(f)])
             \/ /\ phase' = [phase EXCEPT ![c] = "releasing"]
                /\ table' = [table EXCEPT ![tableOf[c]] = tb]
    BY <1>7, RejoinPasses
  <2>2. phase[c] = "claimed" /\ UNCHANGED <<vars, down>>
    BY <1>7 DEF Rejoin
  <2>3. /\ table'[tableOf[c]].early = tb.early
        /\ table'[tableOf[c]].seats = tb.seats
        /\ table'[tableOf[c]].holding = tb.holding
    <3>1. CASE Settled(tableOf[c], tb, "none", [got EXCEPT ![c] = Resume(f)])
      <4>1. table'[tableOf[c]].early = tb.early
        BY <2>1, <3>1, SettledRest
      <4>2. table'[tableOf[c]].seats = tb.seats /\ table'[tableOf[c]].holding = tb.holding
        BY <2>1, <3>1, SettledLeaves
      <4> QED BY <4>1, <4>2
    <3>2. CASE table' = [table EXCEPT ![tableOf[c]] = tb]
      BY <2>1, <3>2 DEF TransportOK
    <3> QED BY <2>1, <3>1, <3>2
  <2>4. CASE s # f
    <3>1. \A d \in Conns : AtSeat(d, s)' => AtSeat(d, s)
      BY <1>0, <2>1, <2>2, <2>4 DEF TransportOK, Introduced, AtSeat
    <3>2. \A t \in Ids : /\ table'[t].seats[s] = table[t].seats[s]
                         /\ table'[t].holding[s] = table[t].holding[s]
      BY <1>0, <2>1, <2>3, <2>4
    <3> QED BY <1>1, <2>2, <3>1, <3>2
  <2>5. CASE s = f
    <3>1. place'[c] = s
      BY <2>1, <2>5 DEF TransportOK, Introduced
    <3>2. c \notin tb.early
      BY <1>0, <2>1, <2>3, <3>1 DEF Orderly
    <3>3. \A d \in Conns : ~AtSeat(d, s)
      BY <2>1, <2>5, <3>2 DEF AtSeat
    <3>4. \A d \in Conns : AtSeat(d, s)' => d = c
      BY <2>1, <3>3 DEF TransportOK, Introduced, AtSeat
    <3>5. \A t \in Ids : table'[t].holding[s] = "none" /\ table'[t].seats[s] = c
      BY <1>0, <2>1, <2>3, <2>5
    <3> QED BY <1>2, <2>1, <2>2, <2>5, <3>4, <3>5 DEF OneAt
  <2> QED BY <2>4, <2>5
<1>8. ASSUME NEW c \in Conns, Act(c) \/ Chatter(c) \/ Overdue(c) PROVE OneAt(s)'
  <2>1. /\ phase[c] = "pumping"
        /\ phase' = phase \/ phase' = [phase EXCEPT ![c] = "parting"]
        /\ \A u \in Ids : table'[u].seats = table[u].seats /\ table'[u].holding = table[u].holding
        /\ UNCHANGED vars \/ (Known /\ place[c] \in Seat /\ Answer(place[c]))
        /\ UNCHANGED <<place, down>>
    BY <1>8, MessageLeaves
  <2>2. \A d \in Conns : AtSeat(d, s)' => AtSeat(d, s)
    BY <2>1 DEF TransportOK, AtSeat
  <2>3. CASE UNCHANGED vars
    BY <1>1, <2>1, <2>2, <2>3
  <2>4. CASE Known /\ place[c] \in Seat /\ Answer(place[c])
    <3>1. seated'[s].taken = seated[s].taken
      BY <2>4, ResolvedGoesOn DEF Answer
    <3> QED BY <2>1, <2>2, <2>4, <3>1, OneAtKept
  <2> QED BY <2>1, <2>3, <2>4
<1>9. ASSUME NEW c \in Conns, Part(c) PROVE OneAt(s)'
  <2>0. PICK p \in Seat \cup {"none"} : p = place[c]
    BY DEF TransportOK, Introduced
  <2>1. /\ tableOf[c] \in Ids
        /\ phase' = [phase EXCEPT ![c] = "releasing"]
        /\ \A x \in Seat : x # p =>
             /\ table'[tableOf[c]].seats[x] = table[tableOf[c]].seats[x]
             /\ table'[tableOf[c]].holding[x] = table[tableOf[c]].holding[x]
        /\ \/ p = "none" /\ UNCHANGED vars
           \/ p \in Seat /\ UNCHANGED vars /\ table'[tableOf[c]].holding[p] = "running"
           \/ /\ p \in Seat /\ table'[tableOf[c]].holding[p] = table[tableOf[c]].holding[p]
              /\ \E tb \in TableRecord : GiveBack(tableOf[c], tb, p)
    BY <1>9, <2>0, PartLeaves
  <2>2. phase[c] = "parting" /\ UNCHANGED <<place, down>>
    BY <1>9 DEF Part
  <2>3. \A d \in Conns : AtSeat(d, s)' => AtSeat(d, s) /\ d # c
    BY <2>1, <2>2 DEF TransportOK, AtSeat
  <2>4. CASE s # p
    <3>1. \A t \in Ids : /\ table'[t].seats[s] = table[t].seats[s]
                         /\ table'[t].holding[s] = table[t].holding[s]
      BY <1>0, <2>1, <2>4
    <3>2. CASE UNCHANGED vars
      BY <1>1, <2>2, <2>3, <3>1, <3>2
    <3>3. CASE p \in Seat /\ \E tb \in TableRecord : GiveBack(tableOf[c], tb, p)
      <4>1. Known' => Known /\ seated'[s] = seated[s]
        BY <2>1, <2>2, <2>4, <3>3, GivenUp
      <4> QED BY <2>3, <3>1, <4>1, OneAtKept
    <3> QED BY <2>1, <3>2, <3>3
  <2>5. CASE s = p
    <3>1. AtSeat(c, s)
      BY <2>0, <2>2, <2>5 DEF AtSeat
    <3>2. \A d \in Conns : ~AtSeat(d, s)'
      BY <2>3, <3>1 DEF OneAt
    <3>3. (Known => seated[s].taken) /\ table[tableOf[c]].holding[s] = "none"
      BY <2>1, <3>1 DEF OneAt
    <3>4. \A t \in Ids : table'[t].holding[s] # "none" /\ Known' => seated'[s].taken
      BY <1>0, <1>2, <2>1, <2>2, <2>5, <3>3
    <3> QED BY <3>2, <3>4 DEF OneAt
  <2> QED BY <2>4, <2>5
<1>10. ASSUME NEW c \in Conns, Release(c) PROVE OneAt(s)'
  <2>1. /\ UNCHANGED <<vars, place, down>>
        /\ phase[c] = "releasing" /\ phase' = [phase EXCEPT ![c] = "gone"]
        /\ \A u \in Ids : table'[u].seats = table[u].seats /\ table'[u].holding = table[u].holding
    BY <1>10, ReleaseLeaves
  <2>2. \A d \in Conns : AtSeat(d, s)' => AtSeat(d, s)
    BY <2>1 DEF TransportOK, AtSeat
  <2> QED BY <1>1, <2>1, <2>2
<1>11. ASSUME NEW t \in Ids, Fire(t) PROVE OneAt(s)'
  <2>1. /\ \A u \in Ids : u # t => table'[u] = table[u]
        /\ table'[t].seats = table[t].seats /\ table'[t].holding = table[t].holding
    BY <1>11, FireLeaves
  <2>2. UNCHANGED <<vars, phase, place, down>>
    BY <1>11 DEF Fire
  <2> QED BY <1>0, <1>1, <2>1, <2>2 DEF AtSeat
<1>12. ASSUME NEW t \in Ids, NEW x \in Seat, AllowanceOut(t, x) PROVE OneAt(s)'
  <2>1. /\ table'[t].seats = table[t].seats /\ table'[t].holding = table[t].holding
        /\ UNCHANGED vars \/ (Known /\ TurnTimedOut(x))
    BY <1>12, AllowanceOutLeaves
  <2>2. UNCHANGED <<phase, place, down>>
    BY <1>12 DEF AllowanceOut
  <2>3. /\ \A d \in Conns : AtSeat(d, s)' => AtSeat(d, s)
        /\ \A u \in Ids : table'[u].seats = table[u].seats /\ table'[u].holding = table[u].holding
    BY <1>0, <2>1, <2>2 DEF AtSeat
  <2>4. CASE UNCHANGED vars
    BY <1>1, <2>2, <2>3, <2>4
  <2>5. CASE Known /\ TurnTimedOut(x)
    <3>1. seated'[s].taken = seated[s].taken
      BY <2>5, ResolvedGoesOn DEF TurnTimedOut
    <3> QED BY <2>2, <2>3, <2>5, <3>1, OneAtKept
  <2> QED BY <2>1, <2>4, <2>5
<1>13. ASSUME NEW t \in Ids, NEW x \in Seat, WindowFires(t, x) PROVE OneAt(s)'
  <2>1. /\ table'[t].seats = table[t].seats
        /\ table'[t].holding = [table[t].holding EXCEPT ![x] = "fired"]
    BY <1>13, WindowFiresLeaves
  <2>2. UNCHANGED <<vars, phase, place, down>> /\ table[t].holding[x] = "running"
    BY <1>13 DEF WindowFires
  <2>3. table[t].holding \in [Seat -> {"none", "running", "fired"}]
    BY DEF TransportOK, TableRecord
  <2>4. \A u \in Ids : /\ table'[u].seats[s] = table[u].seats[s]
                       /\ table'[u].holding[s] # "none" => table[u].holding[s] # "none"
    BY <1>0, <2>1, <2>2, <2>3
  <2> QED BY <1>1, <2>2, <2>4 DEF AtSeat
<1>14. ASSUME NEW t \in Ids, NEW x \in Seat, WindowClosed(t, x) PROVE OneAt(s)'
  <2>1. /\ table'[t].seats = table[t].seats
        /\ \A y \in Seat : y # x => table'[t].holding[y] = table[t].holding[y]
        /\ table'[t].holding[x] = "none"
        /\ \/ UNCHANGED vars /\ table[t].holding[x] = "none"
           \/ \E tb \in TableRecord : GiveBack(t, tb, x)
    BY <1>14, WindowClosedLeaves
  <2>2. UNCHANGED <<phase, place, down>>
    BY <1>14 DEF WindowClosed
  <2>3. \A d \in Conns : AtSeat(d, s)' => AtSeat(d, s)
    BY <2>2 DEF AtSeat
  <2>4. \A u \in Ids : /\ table'[u].seats[s] = table[u].seats[s]
                       /\ table'[u].holding[s] # "none" => table[u].holding[s] # "none"
    BY <1>0, <2>1
  <2>5. CASE UNCHANGED vars
    BY <1>1, <2>2, <2>3, <2>4, <2>5
  <2>6. CASE s # x /\ \E tb \in TableRecord : GiveBack(t, tb, x)
    <3>1. Known' => Known /\ seated'[s] = seated[s]
      BY <2>2, <2>6, GivenUp
    <3> QED BY <2>3, <2>4, <3>1, OneAtKept
  <2>7. CASE s = x /\ table[t].holding[x] # "none"
    <3>1. \A d \in Conns : ~AtSeat(d, s)
      BY <2>7 DEF OneAt
    <3>2. \A u \in Ids : table'[u].holding[s] = "none"
      BY <1>0, <2>1, <2>7
    <3> QED BY <2>3, <3>1, <3>2 DEF OneAt
  <2>8. table[t].holding[x] = "none" => UNCHANGED vars
    BY <1>0, <1>14 DEF WindowClosed, TableRecord
  <2> QED BY <2>1, <2>5, <2>6, <2>7, <2>8
<1>15. ASSUME Stopping PROVE OneAt(s)'
  <2>1. \A u \in Ids : /\ table'[u].seats = table[u].seats
                       /\ table'[u].holding[s] \in {"none", table[u].holding[s]}
    BY <1>15, StoppingRest, StoppingLeaves
  <2>2. UNCHANGED <<vars, phase, place>> /\ down = "up"
    BY <1>15 DEF Stopping
  <2>3. Known' => Known
    BY <2>2 DEF Known, Finished, vars, match
  <2>4. UNCHANGED seated
    BY <2>2 DEF vars, match
  <2> QED BY <2>1, <2>2, <2>3, <2>4, OneAtKept DEF AtSeat
<1>16. ASSUME ClosedAll \/ Returned PROVE OneAt(s)'
  <2>1. UNCHANGED <<vars, phase, place, table>> /\ (Known' => Known)
    BY <1>16 DEF ClosedAll, Returned, Known, Finished, vars, match
  <2>2. UNCHANGED seated
    BY <2>1 DEF vars, match
  <2> QED BY <2>1, <2>2, OneAtKept DEF AtSeat
<1>17. CASE UNCHANGED tableVars
  BY <1>1, <1>17 DEF tableVars, transport, AtSeat
<1> QED
  BY <1>3, <1>4, <1>5, <1>6, <1>7, <1>8, <1>9, <1>10, <1>11, <1>12, <1>13, <1>14, <1>15,
     <1>16, <1>17, TableCases

\* Every seat whose players have come back in order.
OneToASeat == \A s \in Seat : Orderly(s) => OneAt(s)

\* No step breaks it.
LEMMA OneToASeatStays ==
  ASSUME MaxTables = 1, TransportOK, TransportOK', IInv, TypeOK', OneToASeat, [TableNext]_tableVars
  PROVE OneToASeat'
<1> SUFFICES ASSUME NEW s \in Seat, Orderly(s)' PROVE OneAt(s)'
  BY DEF OneToASeat
<1>1. Orderly(s)
  BY OrderlyBefore
<1>2. OneAt(s)
  BY <1>1 DEF OneToASeat
<1> QED BY <1>2, OneAtStays

\* An answer, or a pass, reports nobody gone.
LEMMA ResolvedReportsNobody ==
  ASSUME Resolved
  PROVE result' = result \/ result'.departed = "none"
<1>1. PICK o \in Settlings(turns) :
        UNCHANGED result \/ Close(o, Told(TurnBody(index)), Append(watched, TurnBody(index)))
  BY DEF Resolved
<1> QED BY <1>1, TableAssumption DEF Close

\* Only a seat given back is reported gone.
LEMMA OnlyGivenBack ==
  ASSUME NEW t, NEW tb, NEW s \in Seat, GiveBack(t, tb, s)
  PROVE result' = result \/ result'.departed = s
BY DEF GiveBack, Unknown, Left, vars, match

\* A seat is reported gone by the end of its window or by its own player's
\* departure, and then nobody sits in it.
LEMMA ReportedLeft ==
  ASSUME TransportOK, TypeOK', OneToASeat, [TableNext]_tableVars,
         NEW s \in Seat, result.departed = "none", result'.departed = s, Orderly(s),
         NEW d \in Conns, Sits(d, s)
  PROVE FALSE
<1>0. s # "none" /\ AtSeat(d, s) /\ phase[d] = "pumping" /\ OneAt(s)
  BY Seats DEF Sits, AtSeat, OneToASeat
<1>1. ~UNCHANGED result
  BY <1>0
<1>2. ~UNCHANGED vars
  BY <1>1 DEF vars, match
<1>3. ASSUME NEW c \in Conns, Sit(c) PROVE FALSE
  <2>1. Join(Said(c))
    BY <1>3, SitLeaves
  <2> QED BY <1>1, <2>1 DEF Join
<1>4. ASSUME NEW c \in Conns, Act(c) \/ Chatter(c) \/ Overdue(c) PROVE FALSE
  <2>1. UNCHANGED vars \/ Answer(place[c])
    BY <1>4, MessageLeaves
  <2> QED BY <1>0, <1>1, <1>2, <2>1, ResolvedReportsNobody DEF Answer
<1>5. ASSUME NEW t \in Ids, NEW x \in Seat, AllowanceOut(t, x) PROVE FALSE
  <2>1. UNCHANGED vars \/ TurnTimedOut(x)
    BY <1>5, AllowanceOutLeaves
  <2> QED BY <1>0, <1>1, <1>2, <2>1, ResolvedReportsNobody DEF TurnTimedOut
<1>6. ASSUME NEW c \in Conns, Part(c) PROVE FALSE
  <2>1. place[c] \in Seat /\ \E tb \in TableRecord : GiveBack(tableOf[c], tb, place[c])
    BY <1>2, <1>6, PartLeaves
  <2>2. place[c] = s
    BY <1>1, <2>1, OnlyGivenBack
  <2>3. phase[c] = "parting"
    BY <1>6 DEF Part
  <2>4. AtSeat(c, s)
    BY <2>2, <2>3 DEF AtSeat
  <2> QED BY <1>0, <2>3, <2>4 DEF OneAt
<1>7. ASSUME NEW t \in Ids, NEW x \in Seat, WindowClosed(t, x) PROVE FALSE
  <2>1. \E tb \in TableRecord : GiveBack(t, tb, x)
    BY <1>2, <1>7, WindowClosedLeaves
  <2>2. x = s
    BY <1>1, <2>1, OnlyGivenBack
  <2>3. table[t].holding[x] # "none"
    <3>1. table[t] \in TableRecord
      BY DEF TransportOK
    <3> QED BY <1>2, <1>7, <3>1 DEF WindowClosed, TableRecord
  <2> QED BY <1>0, <2>2, <2>3 DEF OneAt
<1>8. ASSUME NEW c \in Conns,
             Refused(c) \/ Watch(c) \/ Rejoin(c) \/ Lose(c) \/ Notice(c) \/ Release(c)
      PROVE FALSE
  BY <1>2, <1>8 DEF Refused, Watch, Rejoin, Lose, Notice, Release
<1>9. ASSUME NEW c \in Conns, NEW first \in Firsts, Dial(c, first) PROVE FALSE
  BY <1>2, <1>9 DEF Dial
<1>10. ASSUME NEW t \in Ids, Fire(t) \/ \E x \in Seat : WindowFires(t, x) PROVE FALSE
  BY <1>2, <1>10 DEF Fire, WindowFires
<1>11. ASSUME Stopping \/ ClosedAll \/ Returned \/ UNCHANGED tableVars PROVE FALSE
  BY <1>2, <1>11 DEF Stopping, ClosedAll, Returned, tableVars
<1> QED BY <1>3, <1>4, <1>5, <1>6, <1>7, <1>8, <1>9, <1>10, <1>11, TableCases

\* At one table there is one connection to a seat, always.
LEMMA OneToASeatAlways ==
  ASSUME MaxTables = 1
  PROVE TableSpec => []OneToASeat
<1>1. ASSUME TableInit PROVE OneToASeat
  <2>1. /\ \A c \in Conns, s \in Seat : ~AtSeat(c, s)
        /\ \A t \in Ids, s \in Seat : table[t].holding[s] = "none"
    BY <1>1 DEF TableInit, NewTable, AtSeat
  <2> QED BY <2>1 DEF OneToASeat, OneAt
<1>2. TransportOK /\ TransportOK' /\ IInv /\ TypeOK' /\ OneToASeat /\ [TableNext]_tableVars => OneToASeat'
  BY OneToASeatStays
<1>3. IInv => TypeOK
  BY DEF IInv
<1> QED BY <1>1, <1>2, <1>3, TransportTyped, PlayersAreInAMatch, PTL DEF TableSpec

\* At one table the room is never told that a player went while a connection of
\* theirs is being read: not by a window, not by an old socket's departure.
THEOREM SittersAreNotReported ==
  ASSUME MaxTables = 1
  PROVE TableSpec => NobodySittingIsReported
<1> DEFINE Quiet == \A s \in Seat : result.departed = "none" /\ result'.departed = s /\ Orderly(s) =>
                     ~\E c \in Conns : Sits(c, s)
<1>1. TransportOK /\ TypeOK' /\ OneToASeat /\ [TableNext]_tableVars => Quiet
  BY ReportedLeft
<1>2. IInv => TypeOK
  BY DEF IInv
<1> HIDE DEF Quiet
<1>3. TableSpec => [][Quiet]_tableVars
  BY <1>1, <1>2, OneToASeatAlways, TransportTyped, PlayersAreInAMatch, PTL DEF TableSpec
<1> QED BY <1>3 DEF Quiet, NobodySittingIsReported

-----------------------------------------------------------------------------
(* What the room says, it says after what it has said. *)

\* A step of the room adds nothing, one body or two.
Grown(old, new) ==
  \/ new = old
  \/ \E b \in Body : new = Append(old, b)
  \/ \E b, d \in Body : new = Append(Append(old, b), d)

\* What a concatenation adds is what was appended.
LEMMA WhatWasAdded ==
  ASSUME NEW old \in Seq(Body), NEW more \in Seq(Body), more # <<>>
  PROVE /\ old \o more \in Seq(Body)
        /\ SubSeq(old \o more, Len(old) + 1, Len(old \o more)) = more
<1>1. /\ Len(old) \in Nat /\ Len(more) \in Nat \ {0}
      /\ old \o more \in Seq(Body) /\ Len(old \o more) = Len(old) + Len(more)
  BY EmptySeq, ConcatProperties
<1>2. Len(old) + 1 \in Len(old) + 1 .. Len(old) + Len(more)
      /\ Len(old) + Len(more) \in Len(old) + 1 .. Len(old) + Len(more)
  BY <1>1
<1>3. SubSeq(old \o more, Len(old) + 1, Len(old) + Len(more))
      = SubSeq(more, (Len(old) + 1) - Len(old), (Len(old) + Len(more)) - Len(old))
  BY <1>2, SubSeqOfConcat2
<1>4. SubSeq(more, 1, Len(more)) = more
  BY SubSeqFull
<1> QED BY <1>1, <1>3, <1>4

\* The news of a step is what it added, and none when it added nothing.
LEMMA GrownIsMore ==
  ASSUME NEW old \in Seq(Body), NEW new, Grown(old, new)
  PROVE /\ new \in Seq(Body)
        /\ SubSeq(new, Len(old) + 1, Len(new)) \in Seq(Body)
        /\ old \o SubSeq(new, Len(old) + 1, Len(new)) = new
        /\ SubSeq(new, Len(old) + 1, Len(new)) = <<>> => new = old
<1>1. CASE new = old
  <2>1. SubSeq(new, Len(old) + 1, Len(new)) = <<>>
    BY <1>1
  <2> QED BY <1>1, <2>1, ConcatEmptySeq, EmptySeq
<1>2. ASSUME NEW more \in Seq(Body), more # <<>>, new = old \o more
      PROVE /\ new \in Seq(Body)
            /\ SubSeq(new, Len(old) + 1, Len(new)) \in Seq(Body)
            /\ old \o SubSeq(new, Len(old) + 1, Len(new)) = new
            /\ SubSeq(new, Len(old) + 1, Len(new)) # <<>>
  BY <1>2, WhatWasAdded
<1>3. ASSUME NEW b \in Body, new = Append(old, b)
      PROVE <<b>> \in Seq(Body) /\ <<b>> # <<>> /\ new = old \o <<b>>
  BY <1>3
<1>4. ASSUME NEW b \in Body, NEW d \in Body, new = Append(Append(old, b), d)
      PROVE <<b, d>> \in Seq(Body) /\ <<b, d>> # <<>> /\ new = old \o <<b, d>>
  BY <1>4
<1>5. CASE \E b \in Body : new = Append(old, b)
  BY <1>2, <1>3, <1>5
<1>6. CASE \E b, d \in Body : new = Append(Append(old, b), d)
  BY <1>2, <1>4, <1>6
<1> QED BY <1>1, <1>5, <1>6 DEF Grown

\* A battle that opens adds its start.
LEMMA BeginGrows ==
  ASSUME NEW i \in Nat, NEW told, NEW record, Begin(i, told, record)
  PROVE /\ \E b \in Body : watched' = Append(record, b)
        /\ \A s \in Seat : \E b \in Body : sent'[s] = Append(told[s], b)
<1>1. \A s \in Seat : StartBody(i, SideUnder(HomeFor(i), s)) \in Body
  BY Sides, Bodies
<1>2. "host" \in Seat
  BY Seats
<1> QED BY <1>1, <1>2 DEF Begin

\* A decision that comes in adds the turn, and what the battle's end brings.
LEMMA ResolvedGrows ==
  ASSUME IInv, Resolved
  PROVE Grown(watched, watched') /\ \A s \in Seat : Grown(sent[s], sent'[s])
<1> DEFINE told == Told(TurnBody(index))
           record == Append(watched, TurnBody(index))
<1>0. index \in Nat /\ index + 1 \in Nat /\ TurnBody(index) \in Body
  BY Bodies, RoomAssumption DEF IInv, TypeOK
<1>1. \A s \in Seat : told[s] = Append(sent[s], TurnBody(index))
  BY DEF Told
<1>2. \/ sent' = told /\ watched' = record
      \/ Begin(index + 1, told, record)
  BY TableAssumption DEF Resolved, Close
<1> HIDE DEF told
<1>3. CASE sent' = told /\ watched' = record
  BY <1>0, <1>1, <1>3 DEF Grown
<1>4. CASE Begin(index + 1, told, record)
  <2> HIDE DEF record
  <2>1. /\ \E b \in Body : watched' = Append(record, b)
        /\ \A s \in Seat : \E b \in Body : sent'[s] = Append(told[s], b)
    BY <1>0, <1>4, BeginGrows
  <2> QED BY <1>0, <1>1, <2>1 DEF Grown, record
<1> QED BY <1>2, <1>3, <1>4

\* The room's record and what it addresses to a seat are only added to.
LEMMA RoomGrows ==
  ASSUME IInv, [Next]_vars
  PROVE Grown(watched, watched') /\ \A s \in Seat : Grown(sent[s], sent'[s])
<1>0. ClosedBody \in Body
  BY Bodies, RoomAssumption
<1>1. ASSUME UNCHANGED <<watched, sent>>
      PROVE Grown(watched, watched') /\ \A s \in Seat : Grown(sent[s], sent'[s])
  BY <1>1 DEF Grown
<1>2. ASSUME NEW h, Join(h)
      PROVE Grown(watched, watched') /\ \A s \in Seat : Grown(sent[s], sent'[s])
  <2>1. CASE Begin(1, sent, watched)
    BY <2>1, BeginGrows DEF Grown
  <2> QED BY <1>1, <1>2, <2>1 DEF Join
<1>3. ASSUME NEW s \in Seat, Answer(s) \/ TurnTimedOut(s)
      PROVE Grown(watched, watched') /\ \A x \in Seat : Grown(sent[x], sent'[x])
  BY <1>3, ResolvedGrows DEF Answer, TurnTimedOut
<1>4. ASSUME NEW s \in Seat, Left(s)
      PROVE Grown(watched, watched') /\ \A x \in Seat : Grown(sent[x], sent'[x])
  <2>1. CASE /\ sent' = [sent EXCEPT ![Other(s)] = Append(@, ClosedBody)]
             /\ watched' = Append(watched, ClosedBody)
    BY <1>0, <2>1 DEF Grown, IInv, TypeOK
  <2> QED BY <1>1, <1>4, <2>1 DEF Left
<1>5. ~DraftOpen
  BY TableAssumption DEF DraftOpen
<1>6. CASE UNCHANGED vars
  BY <1>1, <1>6 DEF vars, logs
<1> QED BY <1>2, <1>3, <1>4, <1>5, <1>6 DEF Next, Decide, DraftTimedOut

-----------------------------------------------------------------------------
(* What is written to whom. *)

\* Bodies are written to connections, and a table names a connection for a seat only
\* if the seat is its place.
Written ==
  /\ got \in [Conns -> Seq(Body)]
  /\ cursor \in [Conns -> Nat]
  /\ \A t \in Ids, s \in Seat : table[t].seats[s] # Absent => place[table[t].seats[s]] = s

\* The record as a seat would have received it is made of bodies.
LEMMA ResumeIsTyped ==
  ASSUME TypeOK, NEW s \in Seat
  PROVE Resume(s) \in Seq(Body)
<1>1. SideOf(s) \in {"ally", "enemy"}
  BY Sides DEF SideOf
<1>2. \A i \in 1..Len(watched) :
        (IF watched[i].kind = "start" THEN [watched[i] EXCEPT !.side = SideOf(s)]
                                      ELSE watched[i]) \in Body
  <2> SUFFICES ASSUME NEW i \in 1..Len(watched)
               PROVE /\ watched[i] \in Body
                     /\ [watched[i] EXCEPT !.side = SideOf(s)] \in Body
    OBVIOUS
  <2>1. watched[i] \in Body
    BY DEF TypeOK
  <2> QED BY <1>1, <2>1 DEF Body
<1>3. DOMAIN watched = 1..Len(watched) /\ Len(watched) \in Nat
  BY DEF TypeOK
<1>4. Resume(s) = [i \in 1..Len(watched) |->
                     IF watched[i].kind = "start" THEN [watched[i] EXCEPT !.side = SideOf(s)]
                                                  ELSE watched[i]]
  BY <1>3 DEF Resume
<1>5. Resume(s) \in [1..Len(watched) -> Body]
  BY <1>2, <1>4
<1> QED BY <1>3, <1>5, SeqDef

\* An exchange writes bodies.
LEMMA PassesWrites ==
  ASSUME IInv, [Next]_vars, NEW t, NEW tb, NEW before \in [Conns -> Seq(Body)],
         got \in [Conns -> Seq(Body)], cursor \in [Conns -> Nat], Passes(t, tb, before)
  PROVE got' \in [Conns -> Seq(Body)] /\ cursor' \in [Conns -> Nat]
<1>1. CASE UNCHANGED <<got, cursor>>
  BY <1>1
<1>2. CASE Settled(t, tb, "none", before)
  <2>1. \A s \in Seat : Grown(sent[s], sent'[s]) /\ sent[s] \in Seq(Body)
    BY RoomGrows DEF IInv, TypeOK
  <2>2. \A s \in Seat : News(s) \in Seq(Body)
    BY <2>1, GrownIsMore DEF News
  <2>3. Grown(watched, watched') /\ watched \in Seq(Body)
    BY RoomGrows DEF IInv, TypeOK
  <2>4. Recorded \in Seq(Body) /\ Len(watched') \in Nat
    BY <2>3, GrownIsMore DEF Recorded
  <2>5. ASSUME NEW c \in Conns, NEW more \in Seq(Body) PROVE before[c] \o more \in Seq(Body)
    BY ConcatProperties
  <2>6. \A c \in Conns : (CHOOSE s \in Seat : tb.seats[s] = c) \in Seat \/ ~\E s \in Seat : tb.seats[s] = c
    OBVIOUS
  <2>7. got' \in [Conns -> Seq(Body)]
    BY <1>2, <2>2, <2>4, <2>5, <2>6 DEF Settled
  <2>8. cursor' \in [Conns -> Nat]
    BY <1>2, <2>4 DEF Settled
  <2> QED BY <2>7, <2>8
<1> QED BY <1>1, <1>2 DEF Passes, Unknown

\* The table names its old players, or one whose place the seat has become.
NamesItsOwn(t, tb) ==
  \A s \in Seat : \/ tb.seats[s] \in {table[t].seats[s], Absent}
                  \/ tb.seats[s] \in Conns /\ place'[tb.seats[s]] = s

\* No step writes anything but bodies, or names a connection for a seat not its own.
LEMMA WrittenStays ==
  ASSUME TransportOK, TransportOK', IInv, TypeOK', Written, [TableNext]_tableVars
  PROVE Written'
<1>0. [Next]_vars /\ got \in [Conns -> Seq(Body)]
  BY RoomSteps DEF TransportOK, Written
<1>1. ASSUME UNCHANGED <<got, cursor>>,
             \A t \in Ids, s \in Seat : table'[t].seats[s] \in {table[t].seats[s], Absent}
      PROVE Written'
  <2>1. \A t \in Ids, s \in Seat : table'[t].seats[s] # Absent => place'[table'[t].seats[s]] = s
    <3> SUFFICES ASSUME NEW t \in Ids, NEW s \in Seat, table'[t].seats[s] # Absent
                 PROVE place'[table'[t].seats[s]] = s
      OBVIOUS
    <3>1. table'[t].seats[s] = table[t].seats[s] /\ place[table[t].seats[s]] = s
      BY <1>1 DEF Written
    <3>2. table'[t].seats[s] \in Conns
      BY DEF TransportOK, TableRecord
    <3> QED BY <3>1, <3>2, PlacesKept
  <2> QED BY <1>1, <2>1 DEF Written
<1>2. ASSUME NEW t \in Ids, NEW tb \in TableRecord, NEW before \in [Conns -> Seq(Body)],
             Passes(t, tb, before), NamesItsOwn(t, tb)
      PROVE Written'
  <2>1. got' \in [Conns -> Seq(Body)] /\ cursor' \in [Conns -> Nat]
    BY <1>0, <1>2, PassesWrites DEF Written
  <2>2. table'[t].seats = tb.seats /\ \A u \in Ids : u # t => table'[u] = table[u]
    <3>1. CASE Settled(t, tb, "none", before)
      BY <1>2, <3>1, SettledLeaves
    <3>2. CASE Unknown(t, tb)
      BY <1>2, <3>2, UnknownLeaves
    <3>3. CASE table' = [table EXCEPT ![t] = tb]
      BY <1>2, <3>3 DEF TransportOK
    <3> QED BY <1>2, <3>1, <3>2, <3>3 DEF Passes
  <2>3. ASSUME NEW u \in Ids, NEW s \in Seat, table'[u].seats[s] # Absent
        PROVE place'[table'[u].seats[s]] = s
    <3>1. table'[u].seats[s] \in Conns
      BY <2>3 DEF TransportOK, TableRecord
    <3>2. \/ table'[u].seats[s] = table[u].seats[s]
          \/ place'[table'[u].seats[s]] = s
      BY <1>2, <2>2, <2>3 DEF NamesItsOwn
    <3>3. table'[u].seats[s] = table[u].seats[s] => place[table'[u].seats[s]] = s
      BY <2>3 DEF Written
    <3> QED BY <3>1, <3>2, <3>3, PlacesKept
  <2> QED BY <2>1, <2>3 DEF Written
<1>3. ASSUME NEW c \in Conns, Sit(c) PROVE Written'
  <2>1. PICK tb \in TableRecord :
          /\ tableOf[c] \in Ids /\ FreeSeat \in Seat
          /\ tb.seats[FreeSeat] = c
          /\ \A x \in Seat : x # FreeSeat => tb.seats[x] = table[tableOf[c]].seats[x]
          /\ Settled(tableOf[c], tb, "none", got)
    BY <1>3, SitPasses
  <2>2. place' = [place EXCEPT ![c] = FreeSeat] /\ Known
    BY <1>3 DEF Sit
  <2>3. place'[c] = FreeSeat
    BY <2>2 DEF TransportOK, Introduced
  <2>4. Passes(tableOf[c], tb, got)
    BY <2>1, <2>2 DEF Passes
  <2>5. NamesItsOwn(tableOf[c], tb)
    BY <2>1, <2>3 DEF NamesItsOwn
  <2> QED BY <1>0, <1>2, <2>1, <2>4, <2>5
<1>4. ASSUME NEW c \in Conns, Rejoin(c) PROVE Written'
  <2>1. PICK f \in Seat, tb \in TableRecord :
          /\ tableOf[c] \in Ids
          /\ place' = [place EXCEPT ![c] = f]
          /\ tb.seats[f] = c
          /\ \A x \in Seat : x # f => tb.seats[x] = table[tableOf[c]].seats[x]
          /\ \/ Settled(tableOf[c], tb, "none", [got EXCEPT ![c] = Resume(f)])
             \/ /\ table' = [table EXCEPT ![tableOf[c]] = tb]
                /\ UNCHANGED <<got, cursor>>
    BY <1>4, RejoinPasses
  <2>2. Known /\ UNCHANGED vars
    BY <1>4 DEF Rejoin
  <2>3. place'[c] = f
    BY <2>1 DEF TransportOK, Introduced
  <2>4. Passes(tableOf[c], tb, [got EXCEPT ![c] = Resume(f)])
    BY <2>1, <2>2 DEF Passes
  <2>5. [got EXCEPT ![c] = Resume(f)] \in [Conns -> Seq(Body)]
    BY <2>1, ResumeIsTyped DEF Written, IInv
  <2>6. NamesItsOwn(tableOf[c], tb)
    BY <2>1, <2>3 DEF NamesItsOwn
  <2> QED BY <1>2, <2>1, <2>4, <2>5, <2>6
<1>5. ASSUME NEW c \in Conns, Part(c) PROVE Written'
  <2>1. CASE place[c] \in Seat
    <3>1. PICK tb \in TableRecord :
            /\ \A x \in Seat : tb.seats[x] \in {table[tableOf[c]].seats[x], Absent}
            /\ Passes(tableOf[c], tb, got)
      BY <1>5, <2>1, PartPasses
    <3>2. tableOf[c] \in Ids
      BY <1>5, PartLeaves
    <3>3. NamesItsOwn(tableOf[c], tb)
      BY <3>1 DEF NamesItsOwn
    <3> QED BY <1>0, <1>2, <3>1, <3>2, <3>3
  <2>2. CASE place[c] = "none"
    <3>1. table' = [table EXCEPT ![tableOf[c]].watchers = @ \ {c}] /\ UNCHANGED <<got, cursor>>
      BY <1>5, <2>2 DEF Part
    <3>2. \A u \in Ids : table'[u].seats = table[u].seats
      BY <3>1 DEF TransportOK, TableRecord
    <3> QED BY <1>1, <3>1, <3>2
  <2> QED BY <2>1, <2>2 DEF TransportOK, Introduced
<1>6. ASSUME NEW c \in Conns, Act(c) \/ Chatter(c) \/ Overdue(c) PROVE Written'
  <2>1. tableOf[c] \in Ids /\ Passes(tableOf[c], table[tableOf[c]], got)
    BY <1>6, MessagePasses
  <2>2. NamesItsOwn(tableOf[c], table[tableOf[c]]) /\ table[tableOf[c]] \in TableRecord
    BY <2>1 DEF NamesItsOwn, TransportOK
  <2> QED BY <1>0, <1>2, <2>1, <2>2
<1>7. ASSUME NEW t \in Ids, NEW x \in Seat, AllowanceOut(t, x) \/ WindowClosed(t, x) PROVE Written'
  <2>1. PICK tb \in TableRecord : tb.seats = table[t].seats /\ Passes(t, tb, got)
    BY <1>7, AllowancePasses, WindowClosedPasses
  <2>2. NamesItsOwn(t, tb)
    BY <2>1 DEF NamesItsOwn
  <2> QED BY <1>0, <1>2, <2>1, <2>2
<1>8. ASSUME NEW c \in Conns, NEW first \in Firsts, Dial(c, first) PROVE Written'
  <2>1. UNCHANGED <<got, cursor>>
    BY <1>8 DEF Dial
  <2> QED BY <1>1, <1>8, <2>1, DialRest
<1>9. ASSUME NEW c \in Conns, Release(c) PROVE Written'
  <2>1. /\ got' = [got EXCEPT ![c] = <<>>] /\ cursor' = [cursor EXCEPT ![c] = 0]
        /\ UNCHANGED place
    BY <1>9 DEF Release
  <2>2. got' \in [Conns -> Seq(Body)] /\ cursor' \in [Conns -> Nat]
    BY <2>1, EmptySeq DEF Written
  <2>3. \A t \in Ids : table'[t].seats = table[t].seats
    BY <1>9, ReleaseRest
  <2> QED BY <2>1, <2>2, <2>3 DEF Written
<1>10. ASSUME NEW c \in Conns, Watch(c) PROVE Written'
  <2>1. /\ got' = [got EXCEPT ![c] = watched] /\ cursor' = [cursor EXCEPT ![c] = Len(watched)]
        /\ UNCHANGED place
    BY <1>10 DEF Watch
  <2>0. watched \in Seq(Body) /\ Len(watched) \in Nat
    BY DEF IInv, TypeOK
  <2>2. got' \in [Conns -> Seq(Body)] /\ cursor' \in [Conns -> Nat]
    BY <2>0, <2>1 DEF Written
  <2>3. \A t \in Ids : table'[t].seats = table[t].seats
    BY <1>10, WatchRest
  <2> QED BY <2>1, <2>2, <2>3 DEF Written
<1>11. ASSUME NEW t \in Ids, Fire(t) \/ \E x \in Seat : WindowFires(t, x) PROVE Written'
  <2>1. UNCHANGED <<got, cursor>>
    BY <1>11 DEF Fire, WindowFires
  <2> QED BY <1>1, <1>11, <2>1, FireRest, WindowFiresRest
<1>12. ASSUME Stopping PROVE Written'
  <2>1. UNCHANGED <<got, cursor>>
    BY <1>12 DEF Stopping
  <2> QED BY <1>1, <1>12, <2>1, StoppingRest
<1>13. ASSUME UNCHANGED <<table, got, cursor>> PROVE Written'
  BY <1>1, <1>13
<1>14. ASSUME NEW c \in Conns, Refused(c) \/ Lose(c) \/ Notice(c) PROVE Written'
  BY <1>13, <1>14 DEF Refused, Lose, Notice
<1>15. ASSUME ClosedAll \/ Returned \/ UNCHANGED tableVars PROVE Written'
  BY <1>13, <1>15 DEF ClosedAll, Returned, tableVars, transport
<1> QED
  BY <1>3, <1>4, <1>5, <1>6, <1>7, <1>8, <1>9, <1>10, <1>11, <1>12, <1>14, <1>15, TableCases

-----------------------------------------------------------------------------
(* The watchers. *)

\* A watcher still at a table has the whole record, and knows that it has.
Watching ==
  \A t \in Ids : \A w \in table[t].watchers :
    /\ phase[w] \in {"pumping", "parting"} /\ place[w] = "none"
    /\ got[w] = watched /\ cursor[w] = Len(watched)

\* The step hands whoever watches the table all it records.
Served(t) == \A w \in table[t].watchers : got'[w] = watched' /\ cursor'[w] = Len(watched')

\* What was written ahead was to no watcher, and no watcher has a seat.
Aside(tb, before) == \A w \in tb.watchers : before[w] = got[w] /\ \A s \in Seat : tb.seats[s] # w

\* An exchange at the watchers' table hands them what it records.
LEMMA PassesServes ==
  ASSUME TransportOK, IInv, [Next]_vars, Written, Watching,
         NEW t \in Ids, NEW tb \in TableRecord, NEW before, Passes(t, tb, before),
         tb.watchers = table[t].watchers, Aside(tb, before)
  PROVE Served(t)
<1>1. \A w \in tb.watchers : w \in Conns /\ got[w] = watched /\ cursor[w] = Len(watched)
  BY DEF Watching, TableRecord
<1>2. CASE UNCHANGED <<vars, got, cursor>>
  BY <1>1, <1>2 DEF Served, vars, logs
<1>3. CASE Settled(t, tb, "none", before)
  <2>1. watched \in Seq(Body) /\ Grown(watched, watched')
    BY RoomGrows DEF IInv, TypeOK
  <2>2. watched \o Recorded = watched'
    BY <2>1, GrownIsMore DEF Recorded
  <2>3. Kept(tb.watchers) = tb.watchers
    BY <1>1 DEF Kept
  <2>4. ASSUME NEW w \in tb.watchers
        PROVE got'[w] = before[w] \o Recorded /\ cursor'[w] = Len(watched')
    BY <1>1, <1>3, <2>3 DEF Settled, Aside
  <2>5. ASSUME NEW w \in tb.watchers PROVE got'[w] = watched' /\ cursor'[w] = Len(watched')
    <3>1. before[w] = watched
      BY <1>1 DEF Aside
    <3> QED BY <2>2, <2>4, <3>1
  <2> QED BY <2>5 DEF Served
<1> QED BY <1>2, <1>3 DEF Passes, Unknown

\* Who watches is where watchers are.
Apart(t) == \A w \in table[t].watchers : phase[w] \in {"pumping", "parting"} /\ place[w] = "none"

\* At one table every step hands the watchers all it records, and the watchers it
\* leaves have been handed everything.
LEMMA WatchingStays ==
  ASSUME MaxTables = 1, TransportOK, TransportOK', IInv, TypeOK', Written, Watching,
         [TableNext]_tableVars
  PROVE Watching' /\ \A t \in Ids : Served(t)
<1>0. /\ [Next]_vars
      /\ "none" \notin Seat
      /\ \A t, u \in Ids : t = u
      /\ \A t \in Ids : table[t] \in TableRecord
      /\ \A c \in Conns : phase[c] = "claimed" => place[c] = "none" /\ tableOf[c] \in Ids
  BY RoomSteps, Seats DEF TransportOK, Ids
<1>1. \A t \in Ids : /\ table[t].watchers \subseteq Conns /\ Apart(t)
                     /\ \A w \in table[t].watchers, s \in Seat : table[t].seats[s] # w
  <2> SUFFICES ASSUME NEW t \in Ids
               PROVE /\ table[t].watchers \subseteq Conns /\ Apart(t)
                     /\ \A w \in table[t].watchers, s \in Seat : table[t].seats[s] # w
    OBVIOUS
  <2>1. table[t].watchers \subseteq Conns /\ Apart(t)
    BY <1>0 DEF TableRecord, Apart, Watching
  <2>2. ASSUME NEW w \in table[t].watchers, NEW s \in Seat, table[t].seats[s] = w PROVE FALSE
    <3>1. place[w] = "none" /\ w # Absent
      BY <2>1, TableAssumption DEF Apart
    <3>2. place[table[t].seats[s]] = s
      BY <2>2, <3>1 DEF Written
    <3> QED BY <1>0, <2>2, <3>1, <3>2
  <2> QED BY <2>1, <2>2
<1>2. ASSUME \A t \in Ids : Served(t),
             \A t \in Ids : table'[t].watchers \subseteq table[t].watchers,
             \A t \in Ids : Apart(t)'
      PROVE Watching'
  BY <1>2 DEF Watching, Served, Apart
\* A step that records nothing, and writes to nobody who watches.
<1>3. ASSUME UNCHANGED vars,
             \A w \in Conns : phase[w] \in {"pumping", "parting"} =>
               got'[w] = got[w] /\ cursor'[w] = cursor[w]
      PROVE \A t \in Ids : Served(t)
  BY <1>1, <1>3 DEF Served, Apart, Watching, vars, logs
\* A step that moves nobody who watches.
<1>4. ASSUME \A t \in Ids : table'[t].watchers \subseteq table[t].watchers,
             \A w \in Conns : phase[w] \in {"pumping", "parting"} /\ place[w] = "none" =>
               phase'[w] \in {"pumping", "parting"} /\ place'[w] = "none"
      PROVE \A t \in Ids : Apart(t)'
  BY <1>1, <1>4 DEF Apart
<1>5. ASSUME NEW t \in Ids, NEW tb \in TableRecord, NEW before, Passes(t, tb, before),
             tb.watchers = table[t].watchers, Aside(tb, before)
      PROVE \A u \in Ids : Served(u) /\ table'[u].watchers \subseteq table[u].watchers
  <2>1. Served(t)
    BY <1>0, <1>5, PassesServes
  <2>2. table'[t].watchers \subseteq table[t].watchers
    BY <1>5, PassesRest
  <2> QED BY <1>0, <2>1, <2>2
<1>6. ASSUME NEW c \in Conns, Sit(c) PROVE Watching' /\ \A t \in Ids : Served(t)
  <2>1. PICK tb \in TableRecord :
          /\ tableOf[c] \in Ids /\ FreeSeat \in Seat
          /\ Same(tb, table[tableOf[c]])
          /\ tb.seats[FreeSeat] = c
          /\ \A x \in Seat : x # FreeSeat => tb.seats[x] = table[tableOf[c]].seats[x]
          /\ Settled(tableOf[c], tb, "none", got)
    BY <1>6, SitPasses
  <2>2. /\ phase[c] = "claimed" /\ Known
        /\ phase' = [phase EXCEPT ![c] = "pumping"] /\ place' = [place EXCEPT ![c] = FreeSeat]
    BY <1>6 DEF Sit
  <2>3. Passes(tableOf[c], tb, got)
    BY <2>1, <2>2 DEF Passes
  <2>4. c \notin table[tableOf[c]].watchers
    BY <1>1, <2>1, <2>2 DEF Apart
  <2>5. Aside(tb, got)
    BY <1>1, <2>1, <2>4 DEF Same, Aside
  <2>6. \A u \in Ids : Served(u) /\ table'[u].watchers \subseteq table[u].watchers
    BY <1>5, <2>1, <2>3, <2>5 DEF Same
  <2>7. \A t \in Ids : Apart(t)'
    BY <1>4, <2>2, <2>6 DEF TransportOK, Introduced
  <2> QED BY <1>2, <2>6, <2>7
<1>7. ASSUME NEW c \in Conns, Rejoin(c) PROVE Watching' /\ \A t \in Ids : Served(t)
  <2>1. PICK f \in Seat, tb \in TableRecord :
          /\ tableOf[c] \in Ids
          /\ place' = [place EXCEPT ![c] = f]
          /\ tb.watchers = table[tableOf[c]].watchers
          /\ tb.seats[f] = c
          /\ \A x \in Seat : x # f => tb.seats[x] = table[tableOf[c]].seats[x]
          /\ \/ /\ phase' = [phase EXCEPT ![c] = "pumping"]
                /\ Settled(tableOf[c], tb, "none", [got EXCEPT ![c] = Resume(f)])
             \/ /\ phase' = [phase EXCEPT ![c] = "releasing"]
                /\ table' = [table EXCEPT ![tableOf[c]] = tb]
                /\ UNCHANGED <<got, cursor>>
    BY <1>7, RejoinPasses
  <2>2. phase[c] = "claimed" /\ Known /\ UNCHANGED vars
    BY <1>7 DEF Rejoin
  <2>3. Passes(tableOf[c], tb, [got EXCEPT ![c] = Resume(f)])
    BY <2>1, <2>2 DEF Passes
  <2>4. c \notin table[tableOf[c]].watchers
    BY <1>1, <2>1, <2>2 DEF Apart
  <2>5. Aside(tb, [got EXCEPT ![c] = Resume(f)])
    <3>1. ASSUME NEW w \in tb.watchers PROVE w \in Conns /\ w # c /\ \A s \in Seat : tb.seats[s] # w
      BY <1>1, <2>1, <2>4
    <3>2. ASSUME NEW w \in tb.watchers PROVE [got EXCEPT ![c] = Resume(f)][w] = got[w]
      BY <3>1 DEF Written
    <3> QED BY <3>1, <3>2 DEF Aside
  <2>6. \A u \in Ids : Served(u) /\ table'[u].watchers \subseteq table[u].watchers
    BY <1>5, <2>1, <2>3, <2>5
  <2>7. \A t \in Ids : Apart(t)'
    BY <1>4, <2>1, <2>2, <2>6 DEF TransportOK, Introduced
  <2> QED BY <1>2, <2>6, <2>7
<1>8. ASSUME NEW c \in Conns, Act(c) \/ Chatter(c) \/ Overdue(c)
      PROVE Watching' /\ \A t \in Ids : Served(t)
  <2>1. tableOf[c] \in Ids /\ Passes(tableOf[c], table[tableOf[c]], got)
    BY <1>8, MessagePasses
  <2>2. /\ phase[c] = "pumping" /\ UNCHANGED place
        /\ phase' = phase \/ phase' = [phase EXCEPT ![c] = "parting"]
    BY <1>8, MessageLeaves
  <2>5. Aside(table[tableOf[c]], got)
    BY <1>1, <2>1 DEF Aside
  <2>3. \A u \in Ids : Served(u) /\ table'[u].watchers \subseteq table[u].watchers
    BY <1>0, <1>5, <2>1, <2>5
  <2>4. \A t \in Ids : Apart(t)'
    BY <1>4, <2>2, <2>3 DEF TransportOK
  <2> QED BY <1>2, <2>3, <2>4
<1>9. ASSUME NEW c \in Conns, Part(c) PROVE Watching' /\ \A t \in Ids : Served(t)
  <2>0. /\ tableOf[c] \in Ids /\ phase[c] = "parting" /\ UNCHANGED place
        /\ phase' = [phase EXCEPT ![c] = "releasing"]
    BY <1>9, PartLeaves DEF Part
  <2>1. CASE place[c] \in Seat
    <3>1. PICK tb \in TableRecord :
            /\ Same(tb, table[tableOf[c]])
            /\ \A x \in Seat : tb.seats[x] \in {table[tableOf[c]].seats[x], Absent}
            /\ Passes(tableOf[c], tb, got)
      BY <1>9, <2>1, PartPasses
    <3>2. Aside(tb, got)
      BY <1>1, <2>0, <3>1, TableAssumption DEF Same, Aside
    <3>3. \A u \in Ids : Served(u) /\ table'[u].watchers \subseteq table[u].watchers
      BY <1>5, <2>0, <3>1, <3>2 DEF Same
    <3>4. \A t \in Ids : Apart(t)'
      BY <1>0, <1>4, <2>0, <2>1, <3>3 DEF TransportOK
    <3> QED BY <1>2, <3>3, <3>4
  <2>2. CASE place[c] = "none"
    <3>1. /\ table' = [table EXCEPT ![tableOf[c]].watchers = @ \ {c}]
          /\ UNCHANGED <<vars, got, cursor>>
      BY <1>9, <2>2 DEF Part
    <3>2. \A u \in Ids : table'[u].watchers \subseteq table[u].watchers /\ c \notin table'[u].watchers
      BY <1>0, <2>0, <3>1 DEF TransportOK, TableRecord
    <3>3. \A u \in Ids : Served(u)
      BY <1>3, <3>1
    <3>4. \A t \in Ids : Apart(t)'
      BY <1>1, <2>0, <3>2 DEF Apart, TransportOK
    <3> QED BY <1>2, <3>2, <3>3, <3>4
  <2> QED BY <2>1, <2>2 DEF TransportOK, Introduced
<1>10. ASSUME NEW t \in Ids, NEW x \in Seat, AllowanceOut(t, x) \/ WindowClosed(t, x)
       PROVE Watching' /\ \A u \in Ids : Served(u)
  <2>1. PICK tb \in TableRecord : /\ Same(tb, table[t]) /\ tb.seats = table[t].seats
                                 /\ Passes(t, tb, got)
    BY <1>10, AllowancePasses, WindowClosedPasses
  <2>2. Aside(tb, got)
    BY <1>1, <2>1 DEF Same, Aside
  <2>3. \A u \in Ids : Served(u) /\ table'[u].watchers \subseteq table[u].watchers
    BY <1>5, <2>1, <2>2 DEF Same
  <2>4. UNCHANGED <<phase, place>>
    BY <1>10 DEF AllowanceOut, WindowClosed
  <2>5. \A u \in Ids : Apart(u)'
    BY <1>4, <2>3, <2>4
  <2> QED BY <1>2, <2>3, <2>5
<1>11. ASSUME NEW c \in Conns, Watch(c) PROVE Watching' /\ \A t \in Ids : Served(t)
  <2>1. /\ UNCHANGED <<vars, place>>
        /\ phase[c] = "claimed" /\ phase' = [phase EXCEPT ![c] = "pumping"]
        /\ got' = [got EXCEPT ![c] = watched] /\ cursor' = [cursor EXCEPT ![c] = Len(watched)]
    BY <1>11 DEF Watch
  <2>2. \A t \in Ids : Served(t)
    BY <1>3, <2>1 DEF Written
  <2>3. tableOf[c] \in Ids /\ \A t \in Ids : table'[t].watchers = table[t].watchers \cup {c}
    BY <1>0, <1>11, WatchRest
  <2>4. /\ got'[c] = watched' /\ cursor'[c] = Len(watched')
        /\ phase'[c] = "pumping" /\ place'[c] = "none"
    BY <1>0, <2>1 DEF Written, TransportOK, vars, logs
  <2>5. ASSUME NEW t \in Ids, NEW w \in table[t].watchers
        PROVE /\ phase'[w] \in {"pumping", "parting"} /\ place'[w] = "none"
              /\ got'[w] = watched' /\ cursor'[w] = Len(watched')
    BY <1>1, <2>1, <2>2 DEF Apart, Served, TransportOK
  <2> QED BY <2>2, <2>3, <2>4, <2>5 DEF Watching
\* The other steps: nothing is recorded, and nobody who watches is moved.
<1>12. ASSUME UNCHANGED vars,
              \A t \in Ids : table'[t].watchers \subseteq table[t].watchers,
              \A w \in Conns : phase[w] \in {"pumping", "parting"} =>
                /\ got'[w] = got[w] /\ cursor'[w] = cursor[w]
                /\ phase'[w] \in {"pumping", "parting"} /\ place'[w] = place[w]
       PROVE Watching' /\ \A t \in Ids : Served(t)
  BY <1>2, <1>3, <1>4, <1>12
<1>13. ASSUME NEW c \in Conns, NEW first \in Firsts, Dial(c, first)
       PROVE Watching' /\ \A t \in Ids : Served(t)
  <2>1. /\ phase[c] = "out" /\ phase' = [phase EXCEPT ![c] = "claimed"]
        /\ UNCHANGED <<vars, place, got, cursor>>
    BY <1>13 DEF Dial
  <2>2. \A t \in Ids : table'[t].watchers = table[t].watchers
    BY <1>13, DialRest DEF Same
  <2> QED BY <1>12, <2>1, <2>2 DEF TransportOK
<1>14. ASSUME NEW c \in Conns, Release(c) PROVE Watching' /\ \A t \in Ids : Served(t)
  <2>1. /\ phase[c] = "releasing" /\ phase' = [phase EXCEPT ![c] = "gone"]
        /\ got' = [got EXCEPT ![c] = <<>>] /\ cursor' = [cursor EXCEPT ![c] = 0]
        /\ UNCHANGED <<vars, place>>
    BY <1>14 DEF Release
  <2>2. \A t \in Ids : table'[t].watchers = table[t].watchers
    BY <1>14, ReleaseRest DEF Same
  <2> QED BY <1>12, <2>1, <2>2 DEF TransportOK, Written
<1>15. ASSUME NEW c \in Conns, Refused(c) \/ Lose(c) \/ Notice(c)
       PROVE Watching' /\ \A t \in Ids : Served(t)
  <2>1. /\ UNCHANGED <<vars, place, table, got, cursor>>
        /\ \/ phase[c] = "claimed" /\ phase' = [phase EXCEPT ![c] = "releasing"]
           \/ phase[c] = "pumping" /\ phase' = [phase EXCEPT ![c] = "parting"]
           \/ phase' = phase
    BY <1>15 DEF Refused, Lose, Notice
  <2> QED BY <1>12, <2>1 DEF TransportOK
<1>16. ASSUME NEW t \in Ids, Fire(t) \/ \E x \in Seat : WindowFires(t, x)
       PROVE Watching' /\ \A u \in Ids : Served(u)
  <2>1. UNCHANGED <<vars, phase, place, got, cursor>>
    BY <1>16 DEF Fire, WindowFires
  <2>2. \A u \in Ids : table'[u].watchers = table[u].watchers
    BY <1>16, FireRest, WindowFiresRest DEF Same
  <2> QED BY <1>12, <2>1, <2>2
<1>17. ASSUME Stopping PROVE Watching' /\ \A t \in Ids : Served(t)
  <2>1. UNCHANGED <<vars, phase, place, got, cursor>>
    BY <1>17 DEF Stopping
  <2> QED BY <1>12, <1>17, <2>1, StoppingRest
<1>18. ASSUME ClosedAll \/ Returned \/ UNCHANGED tableVars
       PROVE Watching' /\ \A t \in Ids : Served(t)
  <2>1. UNCHANGED <<vars, phase, place, got, cursor, table>>
    BY <1>18 DEF ClosedAll, Returned, tableVars, transport
  <2> QED BY <1>12, <2>1
<1> QED
  BY <1>6, <1>7, <1>8, <1>9, <1>10, <1>11, <1>13, <1>14, <1>15, <1>16, <1>17, <1>18, TableCases

\* So it is always.
LEMMA WrittenAlways == TableSpec => []Written
<1>1. ASSUME TableInit PROVE Written
  <2>1. got = [c \in Conns |-> <<>>] /\ cursor = [c \in Conns |-> 0]
        /\ \A t \in Ids, s \in Seat : table[t].seats[s] = Absent
    BY <1>1 DEF TableInit, NewTable
  <2> QED BY <2>1, EmptySeq DEF Written
<1>2. TransportOK /\ TransportOK' /\ IInv /\ TypeOK' /\ Written /\ [TableNext]_tableVars => Written'
  BY WrittenStays
<1>3. IInv => TypeOK
  BY DEF IInv
<1> QED BY <1>1, <1>2, <1>3, TransportTyped, PlayersAreInAMatch, PTL DEF TableSpec

\* At one table nothing the room records goes past a watcher it has let in.
THEOREM WatchersSeeAll ==
  ASSUME MaxTables = 1
  PROVE TableSpec => WatchersMissNothing
<1> DEFINE Handed == \A t \in Ids : \A w \in table[t].watchers : got[w] = watched /\ got'[w] = watched'
<1>1. ASSUME TableInit PROVE Watching
  BY <1>1 DEF TableInit, NewTable, Watching
<1>2. /\ TransportOK /\ TransportOK' /\ IInv /\ TypeOK' /\ Written /\ Watching
      /\ [TableNext]_tableVars
      => Watching' /\ Handed
  BY WatchingStays DEF Watching, Served
<1>3. IInv => TypeOK
  BY DEF IInv
<1> HIDE DEF Handed
<1>4. TableSpec => [][Handed]_tableVars
  BY <1>1, <1>2, <1>3, WrittenAlways, TransportTyped, PlayersAreInAMatch, PTL DEF TableSpec
<1> QED BY <1>4 DEF Handed, WatchersMissNothing

-----------------------------------------------------------------------------
(* The record a returning player is handed. *)

\* In a single battle the record is, for each seat, what it was sent, as long as the
\* match is open; and it is empty until both seats are taken.
RecordIsTheirs ==
  ~Finished => /\ \A s \in Seat : sent[s] = Resume(s)
               /\ ~BothTaken => watched = <<>>

Sided(h, s, b) == IF b.kind = "start" THEN [b EXCEPT !.side = SideUnder(h, s)] ELSE b

\* A sequence with one more element, as a function.
LEMMA AppendIs ==
  ASSUME NEW S, NEW q \in Seq(S), NEW e
  PROVE Append(q, e) = [i \in 1..(Len(q) + 1) |-> IF i = Len(q) + 1 THEN e ELSE q[i]]
<1> DEFINE T == S \cup {e}
           f == [i \in 1..(Len(q) + 1) |-> IF i = Len(q) + 1 THEN e ELSE q[i]]
<1>1. q \in Seq(T) /\ e \in T
  BY SeqMonotonic
<1>2. Append(q, e) \in Seq(T) /\ Len(Append(q, e)) = Len(q) + 1
      /\ (\A i \in 1..Len(q) : Append(q, e)[i] = q[i]) /\ Append(q, e)[Len(q) + 1] = e
  BY <1>1, AppendProperties
<1>3. Len(q) \in Nat
  OBVIOUS
<1>4. f \in Seq(T) /\ Len(f) = Len(q) + 1
  <2>1. f \in [1..(Len(q) + 1) -> T]
    BY <1>3
  <2>2. Len(q) + 1 \in Nat
    BY <1>3
  <2> HIDE DEF f
  <2> QED BY <2>1, <2>2, SeqDef, LenProperties
<1>5. ASSUME NEW i \in 1..(Len(q) + 1) PROVE Append(q, e)[i] = f[i]
  BY <1>2, <1>3
<1> HIDE DEF f, T
<1>6. Append(q, e) = f
  BY <1>2, <1>4, <1>5, SeqEqual
<1> QED BY <1>6 DEF f

\* The record with one more body, for a seat that keeps its home or had no record.
LEMMA ResumeAppended ==
  ASSUME watched \in Seq(Body), NEW b \in Body, watched' = Append(watched, b),
         home' = home \/ watched = <<>>, NEW s \in Seat
  PROVE Resume(s)' = Append(Resume(s), Sided(home', s, b))
<1> DEFINE n == Len(watched)
           old == [i \in 1..n |-> Sided(home, s, watched[i])]
           new == [i \in 1..(n + 1) |-> Sided(home', s, watched'[i])]
<1>1. n \in Nat /\ DOMAIN watched = 1..n /\ DOMAIN watched' = 1..(n + 1)
      /\ watched'[n + 1] = b /\ \A i \in 1..n : watched'[i] = watched[i]
  OBVIOUS
<1>2. Resume(s) = old /\ Resume(s)' = new
  BY <1>1 DEF Resume, Sided, SideOf
<1>3. \A i \in 1..n : Sided(home', s, watched'[i]) = Sided(home, s, watched[i])
  <2>1. CASE home' = home
    BY <1>1, <2>1
  <2>2. CASE watched = <<>>
    BY <2>2
  <2> QED BY <2>1, <2>2
<1> DEFINE last == Sided(home', s, b)
<1>4. new = [i \in 1..(n + 1) |-> IF i = n + 1 THEN last ELSE old[i]]
  BY <1>1, <1>3
<1>5. Append(old, last) = [i \in 1..(n + 1) |-> IF i = n + 1 THEN last ELSE old[i]]
  <2>1. old \in Seq({old[i] : i \in 1..n}) /\ Len(old) = n
    BY <1>1, SeqDef
  <2> HIDE DEF old, last
  <2> QED BY <1>1, <2>1, AppendIs
<1> QED BY <1>2, <1>4, <1>5

\* A turn and the start of a battle, as a seat is told of them.
LEMMA SidedBodies ==
  /\ \A h, s, i : Sided(h, s, TurnBody(i)) = TurnBody(i)
  /\ \A h, s, i, side : Sided(h, s, StartBody(i, side)) = StartBody(i, SideUnder(h, s))
BY DEF Sided, TurnBody, StartBody

\* In a single battle the record and what the seats are sent grow together until
\* the match is over.
LEMMA RecordStays ==
  ASSUME Battles = 1, IInv, NeverStuck, OneQuestion, RecordIsTheirs, [Next]_vars
  PROVE RecordIsTheirs'
<1>0. /\ watched \in Seq(Body) /\ ~DraftOpen /\ Awaiting = asked
      /\ index \in Nat /\ Len(played) \in Nat /\ played \in Seq(BattleResult)
  BY TableAssumption, RoomAssumption DEF IInv, TypeOK, DraftOpen, Awaiting
<1>1. ASSUME UNCHANGED vars PROVE RecordIsTheirs'
  BY <1>1 DEF vars, match, logs, RecordIsTheirs, Finished, BothTaken, Resume, SideOf
<1>2. ASSUME NEW h, Join(h) PROVE RecordIsTheirs'
  <2>1. FreeSeats # {} /\ UNCHANGED result
    BY <1>2 DEF Join, Gate
  <2>2. ~BothTaken /\ ~Finished
    BY <2>1, LastSeat, Gathering
  <2>3. watched = <<>> /\ \A s \in Seat : sent[s] = Resume(s)
    BY <2>2 DEF RecordIsTheirs
  <2>4. CASE Cardinality(FreeSeats) = 1 /\ ~Drafts
    <3>1. Begin(1, sent, watched)
      BY <1>2, <2>4 DEF Join
    <3>2. /\ home' = HomeFor(1)
          /\ watched' = Append(watched, StartBody(1, SideUnder(HomeFor(1), "host")))
          /\ sent' = [s \in Seat |-> Append(sent[s], StartBody(1, SideUnder(HomeFor(1), s)))]
      BY <3>1 DEF Begin
    <3>3. StartBody(1, SideUnder(HomeFor(1), "host")) \in Body
      BY Sides, Bodies
    <3>4. ASSUME NEW s \in Seat PROVE sent'[s] = Resume(s)'
      <4>1. Resume(s)' = Append(Resume(s), Sided(home', s, StartBody(1, SideUnder(HomeFor(1), "host"))))
        BY <1>0, <2>3, <3>2, <3>3, ResumeAppended
      <4>2. Sided(home', s, StartBody(1, SideUnder(HomeFor(1), "host"))) = StartBody(1, SideUnder(home', s))
        BY SidedBodies
      <4> QED BY <2>3, <3>2, <4>1, <4>2
    <3>5. BothTaken'
      <4>1. FreeSeat \in FreeSeats /\ \A s \in Seat : s # FreeSeat => seated[s].taken
        BY <2>1, <2>4, LastSeat
      <4>2. \A s \in Seat : seated'[s].taken
        BY <1>2, <4>1 DEF Join, FreeSeats, IInv, TypeOK
      <4> QED BY <4>2 DEF BothTaken
    <3> QED BY <3>4, <3>5 DEF RecordIsTheirs
  <2>5. CASE ~(Cardinality(FreeSeats) = 1 /\ ~Drafts)
    <3>1. UNCHANGED <<home, sent, watched>>
      BY <1>2, <2>5 DEF Join
    <3> QED BY <2>3, <3>1 DEF RecordIsTheirs, Resume, SideOf
  <2> QED BY <2>4, <2>5
<1>3. ASSUME NEW s \in Seat, Answer(s) \/ TurnTimedOut(s) PROVE RecordIsTheirs'
  <2>1. Resolved /\ asked = s
    BY <1>3 DEF Answer, TurnTimedOut
  <2>2. BothTaken /\ ~Finished
    BY <1>0, <2>1, Seats DEF NeverStuck
  <2>3. TurnBody(index) \in Body
    BY <1>0, Bodies
  <2>4. CASE /\ sent' = Told(TurnBody(index)) /\ watched' = Append(watched, TurnBody(index))
             /\ UNCHANGED <<seated, home>>
    <3>1. ASSUME NEW x \in Seat PROVE sent'[x] = Resume(x)'
      <4>1. Resume(x)' = Append(Resume(x), TurnBody(index))
        BY <1>0, <2>3, <2>4, ResumeAppended, SidedBodies
      <4> QED BY <2>2, <2>4, <4>1 DEF Told, RecordIsTheirs
    <3>2. BothTaken'
      BY <2>2, <2>4 DEF BothTaken
    <3> QED BY <3>1, <3>2 DEF RecordIsTheirs
  <2>5. ASSUME NEW o, NEW told, NEW record, Close(o, told, record) PROVE RecordIsTheirs'
    <3> DEFINE fought == Append(played, [battle |-> index, home |-> home,
                                         winner |-> o.winner, capped |-> o.capped])
               wins == [x \in Seat |-> standing[x] + IF x = o.winner THEN 1 ELSE 0]
    <3>1. Len(fought) = Len(played) + 1
      BY <1>0
    <3>2. SeriesOver(fought, wins)
      BY <1>0, <3>1 DEF SeriesOver
    <3> HIDE DEF fought
    <3>3. result' = [verdict |-> IF Leader(wins) = "none" THEN "drawn" ELSE "won",
                     winner |-> Leader(wins), departed |-> "none"]
      BY <2>5, <3>2 DEF Close, fought
    <3>4. Finished'
      BY <3>3 DEF Finished
    <3> QED BY <3>4 DEF RecordIsTheirs
  <2> QED BY <2>1, <2>4, <2>5 DEF Resolved
<1>4. ASSUME NEW s \in Seat, Left(s) PROVE RecordIsTheirs'
  <2>1. CASE Finished'
    BY <2>1 DEF RecordIsTheirs
  <2>2. CASE ~fight /\ UNCHANGED <<result, sent, watched>>
    <3>1. ~Finished /\ UNCHANGED home
      BY <1>4 DEF Left
    <3>2. ~BothTaken
      BY <1>0, <2>2, <3>1 DEF NeverStuck, OneQuestion
    <3> QED BY <2>2, <3>1, <3>2 DEF RecordIsTheirs, Resume, SideOf
  <2> QED BY <1>4, <2>1, <2>2 DEF Left, Finished
<1> QED BY <1>0, <1>1, <1>2, <1>3, <1>4 DEF Next, Decide, DraftTimedOut

\* So a seat's share of the record is what it was sent, as long as it is asked for.
LEMMA RecordAlways ==
  ASSUME Battles = 1
  PROVE TableSpec => []RecordIsTheirs
<1>1. ASSUME TableInit PROVE RecordIsTheirs
  <2>1. watched = <<>> /\ \A s \in Seat : sent[s] = <<>>
    BY <1>1 DEF TableInit, Init
  <2>2. \A s \in Seat : Resume(s) = <<>>
    BY <2>1 DEF Resume
  <2> QED BY <2>1, <2>2 DEF RecordIsTheirs
<1>2. IInv /\ NeverStuck /\ OneQuestion /\ RecordIsTheirs /\ [Next]_vars => RecordIsTheirs'
  BY RecordStays
<1>3. TableSpec => Spec
  BY TransportDrivesTheRoom
<1> QED BY <1>1, <1>2, <1>3, Inductive, NeverStuckInvariant, OneQuestionInvariant, PTL DEF TableSpec, Spec

-----------------------------------------------------------------------------
(* The players. *)

\* A connection not yet answered has been written nothing, and one its table names
\* for a seat has been written what the room said to the seat.
Fresh(c) == phase[c] \in {"out", "claimed"}

HasHeard(s) == \A t \in Ids, c \in Conns : table[t].seats[s] = c /\ phase[c] = "pumping" => got[c] = sent[s]

Seating ==
  /\ \A c \in Conns : Fresh(c) => got[c] = <<>>
  /\ \A s \in Seat : HasHeard(s)

\* What was written ahead of an exchange, and to whom.
Fits(tb, before) ==
  \A s \in Seat, c \in Conns : tb.seats[s] = c /\ phase'[c] = "pumping" => before[c] = sent[s]

Blank(tb, before) ==
  \A c \in Conns : Fresh(c)' => before[c] = <<>> /\ c \notin tb.watchers

\* An exchange writes a player what it says to their seat after what it said before.
LEMMA SettledFits ==
  ASSUME TransportOK, TransportOK', TypeOK', IInv, [Next]_vars, Written',
         \A t, u \in Ids : t = u,
         NEW t \in Ids, NEW tb \in TableRecord, NEW before \in [Conns -> Seq(Body)],
         Settled(t, tb, "none", before), Fits(tb, before), Blank(tb, before)
  PROVE Seating'
<1>1. table'[t].seats = tb.seats
  BY SettledLeaves
<1>2. \A s \in Seat, c \in Conns : tb.seats[s] = c => place'[c] = s
  BY <1>1, TableAssumption DEF Written
<1>3. ASSUME NEW s \in Seat, NEW c \in Conns, tb.seats[s] = c
      PROVE got'[c] = before[c] \o News(s)
  <2>1. (CHOOSE x \in Seat : tb.seats[x] = c) = s
    BY <1>2, <1>3
  <2> QED BY <1>3, <2>1 DEF Settled
<1>4. ASSUME NEW s \in Seat PROVE HasHeard(s)'
  <2>1. sent[s] \o News(s) = sent'[s]
    <3>1. sent[s] \in Seq(Body) /\ Grown(sent[s], sent'[s])
      BY RoomGrows DEF IInv, TypeOK
    <3> QED BY <3>1, GrownIsMore DEF News
  <2>2. ASSUME NEW c \in Conns, tb.seats[s] = c, phase'[c] = "pumping" PROVE got'[c] = sent'[s]
    <3>1. before[c] = sent[s]
      BY <2>2 DEF Fits
    <3> QED BY <1>3, <2>1, <2>2, <3>1
  <2> QED BY <1>1, <2>2 DEF HasHeard
<1>5. ASSUME NEW c \in Conns, Fresh(c)' PROVE got'[c] = <<>>
  <2>1. place'[c] = "none" /\ "none" \notin Seat
    BY <1>5, Seats DEF TransportOK, Fresh
  <2>2. ~\E s \in Seat : tb.seats[s] = c
    BY <1>2, <2>1
  <2>3. c \notin Kept(tb.watchers)
    BY <1>5 DEF Blank, Kept
  <2> QED BY <1>5, <2>2, <2>3 DEF Settled, Blank
<1> QED BY <1>4, <1>5 DEF Seating

\* At one table no step leaves a player short of what the room said to their seat.
LEMMA SeatingStays ==
  ASSUME MaxTables = 1, TransportOK, TransportOK', TypeOK', IInv, Written, Written', Watching,
         RecordIsTheirs, Seating, [TableNext]_tableVars
  PROVE Seating'
<1>0. /\ [Next]_vars /\ got \in [Conns -> Seq(Body)]
      /\ \A t, u \in Ids : t = u
      /\ \A t \in Ids : table[t] \in TableRecord
  BY RoomSteps DEF TransportOK, Written, Ids
<1>1. ASSUME NEW t \in Ids, NEW w \in table[t].watchers PROVE ~Fresh(w)
  BY DEF Watching, Fresh
\* The connection of a seat was answered.
<1>2. ASSUME NEW t \in Ids, NEW s \in Seat, NEW c \in Conns, table[t].seats[s] = c
      PROVE ~Fresh(c)
  <2>1. place[c] = s /\ s # "none"
    BY <1>2, Seats, TableAssumption DEF Written
  <2> QED BY <2>1 DEF TransportOK, Fresh
\* A step that writes nothing and sits nobody down.
<1>3. ASSUME UNCHANGED <<sent, got>>,
             \A t \in Ids, s \in Seat : table'[t].seats[s] \in {table[t].seats[s], Absent},
             \A c \in Conns : phase'[c] = "pumping" => phase[c] = "pumping" \/ place[c] = "none",
             \A c \in Conns : Fresh(c)' => Fresh(c)
      PROVE Seating'
  <2>1. ASSUME NEW s \in Seat PROVE HasHeard(s)'
    <3> SUFFICES ASSUME NEW t \in Ids, NEW c \in Conns, table'[t].seats[s] = c, phase'[c] = "pumping"
                 PROVE got'[c] = sent'[s]
      BY DEF HasHeard
    <3>0. c # Absent /\ s # "none"
      BY Seats, TableAssumption
    <3>4. table[t].seats[s] = c
      BY <1>3, <3>0
    <3>1. table[t].seats[s] = c /\ place[c] = s /\ s # "none"
      BY <3>0, <3>4 DEF Written
    <3>2. phase[c] = "pumping"
      BY <1>3, <3>1
    <3> QED BY <1>3, <3>1, <3>2 DEF Seating, HasHeard
  <2> QED BY <1>3, <2>1 DEF Seating
\* An exchange that sits nobody down.
<1>4. ASSUME NEW t \in Ids, NEW tb \in TableRecord, Passes(t, tb, got),
             \A s \in Seat : tb.seats[s] \in {table[t].seats[s], Absent},
             tb.watchers = table[t].watchers,
             \A c \in Conns : phase'[c] = "pumping" => phase[c] = "pumping",
             \A c \in Conns : Fresh(c)' => Fresh(c)
      PROVE Seating'
  <2>1. CASE Settled(t, tb, "none", got)
    <3>1. Fits(tb, got)
      BY <1>4, TableAssumption DEF Fits, Seating, HasHeard
    <3>2. Blank(tb, got)
      BY <1>1, <1>4 DEF Blank, Seating
    <3> QED BY <1>0, <1>4, <2>1, <3>1, <3>2, SettledFits
  <2>2. CASE UNCHANGED <<vars, got>> /\ table'[t].seats = tb.seats
    <3>1. \A u \in Ids, s \in Seat : table'[u].seats[s] \in {table[u].seats[s], Absent}
      BY <1>0, <1>4, <2>2
    <3>2. UNCHANGED <<sent, got>>
      BY <2>2 DEF vars, logs
    <3> QED BY <1>3, <1>4, <3>1, <3>2
  <2>3. CASE Unknown(t, tb)
    BY <2>2, <2>3, UnknownLeaves DEF Unknown
  <2>4. CASE table' = [table EXCEPT ![t] = tb] /\ UNCHANGED <<vars, got, cursor>>
    BY <2>2, <2>4 DEF TransportOK
  <2> QED BY <1>4, <2>1, <2>3, <2>4 DEF Passes
<1>5. ASSUME NEW c \in Conns, Sit(c) PROVE Seating'
  <2>1. PICK tb \in TableRecord :
          /\ tableOf[c] \in Ids /\ FreeSeat \in Seat
          /\ Same(tb, table[tableOf[c]])
          /\ tb.seats[FreeSeat] = c
          /\ \A x \in Seat : x # FreeSeat => tb.seats[x] = table[tableOf[c]].seats[x]
          /\ Settled(tableOf[c], tb, "none", got)
    BY <1>5, SitPasses
  <2>2. /\ phase[c] = "claimed" /\ Known /\ FreeSeats # {}
        /\ phase' = [phase EXCEPT ![c] = "pumping"]
    BY <1>5 DEF Sit, Join, Gate
  <2>3. Fresh(c) /\ ~Finished /\ ~BothTaken
    BY <2>2, LastSeat DEF Fresh, Known
  <2>4. watched = <<>> /\ sent[FreeSeat] = Resume(FreeSeat)
    BY <2>1, <2>3 DEF RecordIsTheirs
  <2>5. got[c] = sent[FreeSeat]
    <3>1. Resume(FreeSeat) = <<>>
      BY <2>4 DEF Resume
    <3> QED BY <2>3, <2>4, <3>1 DEF Seating
  <2>6. Fits(tb, got)
    <3> SUFFICES ASSUME NEW s \in Seat, NEW d \in Conns, tb.seats[s] = d, phase'[d] = "pumping"
                 PROVE got[d] = sent[s]
      BY DEF Fits
    <3>1. CASE s = FreeSeat
      BY <2>1, <2>5, <3>1
    <3>2. CASE s # FreeSeat
      <4>1. table[tableOf[c]].seats[s] = d
        BY <2>1, <3>2
      <4>2. d # c
        BY <1>2, <2>1, <2>3, <4>1
      <4>3. phase[d] = "pumping"
        BY <2>2, <4>2 DEF TransportOK
      <4> QED BY <2>1, <4>1, <4>3 DEF Seating, HasHeard
    <3> QED BY <3>1, <3>2
  <2>7. Blank(tb, got)
    <3> SUFFICES ASSUME NEW d \in Conns, Fresh(d)' PROVE got[d] = <<>> /\ d \notin tb.watchers
      BY DEF Blank
    <3>1. Fresh(d)
      BY <2>2, <2>3 DEF TransportOK, Fresh
    <3> QED BY <1>1, <2>1, <3>1 DEF Same, Seating
  <2> QED BY <1>0, <2>1, <2>6, <2>7, SettledFits
<1>6. ASSUME NEW c \in Conns, Rejoin(c) PROVE Seating'
  <2>1. PICK f \in Seat, tb \in TableRecord :
          /\ tableOf[c] \in Ids
          /\ tb.watchers = table[tableOf[c]].watchers
          /\ tb.seats[f] = c
          /\ \A x \in Seat : x # f => tb.seats[x] = table[tableOf[c]].seats[x]
          /\ \/ /\ phase' = [phase EXCEPT ![c] = "pumping"]
                /\ Settled(tableOf[c], tb, "none", [got EXCEPT ![c] = Resume(f)])
             \/ /\ phase' = [phase EXCEPT ![c] = "releasing"]
                /\ table' = [table EXCEPT ![tableOf[c]] = tb]
                /\ UNCHANGED <<got, cursor>>
    BY <1>6, RejoinPasses
  <2>2. phase[c] = "claimed" /\ Known /\ UNCHANGED vars
    BY <1>6 DEF Rejoin
  <2>3. Fresh(c) /\ sent[f] = Resume(f) /\ UNCHANGED sent
    BY <2>2 DEF Fresh, Known, RecordIsTheirs, vars, logs
  <2> DEFINE before == [got EXCEPT ![c] = Resume(f)]
  <2>4. ASSUME NEW d \in Conns, Fresh(d)' PROVE d # c /\ Fresh(d)
    BY <2>1, <2>4 DEF TransportOK, Fresh
  <2>5. ASSUME NEW s \in Seat, NEW d \in Conns, s # f, tb.seats[s] = d, phase'[d] = "pumping"
        PROVE got[d] = sent[s] /\ d # c
    <3>1. table[tableOf[c]].seats[s] = d
      BY <2>1, <2>5
    <3>2. d # c
      BY <1>2, <2>1, <2>3, <3>1
    <3>3. phase[d] = "pumping"
      BY <2>1, <2>5, <3>2 DEF TransportOK
    <3> QED BY <2>1, <3>1, <3>2, <3>3 DEF Seating, HasHeard
  <2>6. CASE phase' = [phase EXCEPT ![c] = "pumping"]
             /\ Settled(tableOf[c], tb, "none", before)
    <3>1. before \in [Conns -> Seq(Body)]
      BY ResumeIsTyped, <1>0 DEF IInv
    <3>2. Fits(tb, before)
      <4>1. ASSUME NEW s \in Seat, NEW d \in Conns, tb.seats[s] = d, phase'[d] = "pumping"
            PROVE before[d] = sent[s]
        <5>1. CASE s = f
          BY <1>0, <2>1, <2>3, <4>1, <5>1
        <5>2. CASE s # f
          BY <1>0, <2>5, <4>1, <5>2
        <5> QED BY <5>1, <5>2
      <4> HIDE DEF before
      <4> QED BY <4>1 DEF Fits
    <3>3. Blank(tb, before)
      <4>1. ASSUME NEW d \in Conns, Fresh(d)' PROVE before[d] = <<>> /\ d \notin tb.watchers
        BY <1>0, <1>1, <2>1, <2>4, <4>1 DEF Seating
      <4> HIDE DEF before
      <4> QED BY <4>1 DEF Blank
    <3> HIDE DEF before
    <3> QED BY <1>0, <2>1, <2>6, <3>1, <3>2, <3>3, SettledFits
  <2>7. CASE /\ phase' = [phase EXCEPT ![c] = "releasing"]
             /\ table' = [table EXCEPT ![tableOf[c]] = tb] /\ UNCHANGED <<got, cursor>>
    <3>1. ASSUME NEW s \in Seat PROVE HasHeard(s)'
      <4> SUFFICES ASSUME NEW t \in Ids, NEW d \in Conns, table'[t].seats[s] = d, phase'[d] = "pumping"
                   PROVE got'[d] = sent'[s]
        BY DEF HasHeard
      <4>1. t = tableOf[c] /\ tb.seats[s] = d
        BY <1>0, <2>1, <2>7 DEF TransportOK
      <4>2. d # c
        BY <2>7 DEF TransportOK
      <4>3. s # f
        BY <2>1, <4>1, <4>2
      <4> QED BY <2>3, <2>5, <2>7, <4>1, <4>3
    <3>2. \A d \in Conns : Fresh(d)' => got'[d] = <<>>
      BY <2>4, <2>7 DEF Seating
    <3> QED BY <3>1, <3>2 DEF Seating
  <2> QED BY <2>1, <2>6, <2>7
<1>7. ASSUME NEW c \in Conns, Part(c) PROVE Seating'
  <2>1. /\ tableOf[c] \in Ids /\ UNCHANGED place /\ phase[c] = "parting"
        /\ phase' = [phase EXCEPT ![c] = "releasing"]
    BY <1>7, PartLeaves DEF Part
  <2>2. \A d \in Conns : /\ phase'[d] = "pumping" => phase[d] = "pumping"
                         /\ Fresh(d)' => Fresh(d)
    BY <2>1 DEF TransportOK, Fresh
  <2>3. CASE place[c] \in Seat
    <3>1. PICK tb \in TableRecord :
            /\ Same(tb, table[tableOf[c]])
            /\ \A x \in Seat : tb.seats[x] \in {table[tableOf[c]].seats[x], Absent}
            /\ Passes(tableOf[c], tb, got)
      BY <1>7, <2>3, PartPasses
    <3> QED BY <1>4, <2>1, <2>2, <3>1 DEF Same
  <2>4. CASE place[c] = "none"
    <3>1. table' = [table EXCEPT ![tableOf[c]].watchers = @ \ {c}] /\ UNCHANGED <<vars, got>>
      BY <1>7, <2>4 DEF Part
    <3>2. \A u \in Ids : table'[u].seats = table[u].seats
      BY <3>1 DEF TransportOK, TableRecord
    <3>3. UNCHANGED <<sent, got>>
      BY <3>1 DEF vars, logs
    <3> QED BY <1>3, <2>2, <3>2, <3>3
  <2> QED BY <2>3, <2>4 DEF TransportOK, Introduced
<1>8. ASSUME NEW c \in Conns, Act(c) \/ Chatter(c) \/ Overdue(c) PROVE Seating'
  <2>1. tableOf[c] \in Ids /\ Passes(tableOf[c], table[tableOf[c]], got)
    BY <1>8, MessagePasses
  <2>2. /\ phase[c] = "pumping" /\ UNCHANGED place
        /\ phase' = phase \/ phase' = [phase EXCEPT ![c] = "parting"]
    BY <1>8, MessageLeaves
  <2>3. \A d \in Conns : /\ phase'[d] = "pumping" => phase[d] = "pumping"
                         /\ Fresh(d)' => Fresh(d)
    BY <2>2 DEF TransportOK, Fresh
  <2> QED BY <1>0, <1>4, <2>1, <2>3
<1>9. ASSUME NEW t \in Ids, NEW x \in Seat, AllowanceOut(t, x) \/ WindowClosed(t, x)
      PROVE Seating'
  <2>1. PICK tb \in TableRecord : /\ Same(tb, table[t]) /\ tb.seats = table[t].seats
                                 /\ Passes(t, tb, got)
    BY <1>9, AllowancePasses, WindowClosedPasses
  <2>2. UNCHANGED phase
    BY <1>9 DEF AllowanceOut, WindowClosed
  <2> QED BY <1>4, <2>1, <2>2 DEF Same, Fresh
<1>10. ASSUME NEW c \in Conns, NEW first \in Firsts, Dial(c, first) PROVE Seating'
  <2>1. /\ phase[c] = "out" /\ phase' = [phase EXCEPT ![c] = "claimed"]
        /\ UNCHANGED <<sent, got>>
    BY <1>10 DEF Dial, vars, logs
  <2>2. \A d \in Conns : /\ phase'[d] = "pumping" => phase[d] = "pumping"
                         /\ Fresh(d)' => Fresh(d)
    BY <2>1 DEF TransportOK, Fresh
  <2> QED BY <1>3, <1>10, <2>1, <2>2, DialRest
<1>11. ASSUME NEW c \in Conns, Watch(c) PROVE Seating'
  <2>1. /\ UNCHANGED sent /\ phase[c] = "claimed" /\ phase' = [phase EXCEPT ![c] = "pumping"]
        /\ got' = [got EXCEPT ![c] = watched]
    BY <1>11 DEF Watch, vars, logs
  <2>2. \A u \in Ids : table'[u].seats = table[u].seats
    BY <1>11, WatchRest
  <2>3. ASSUME NEW s \in Seat PROVE HasHeard(s)'
    <3> SUFFICES ASSUME NEW t \in Ids, NEW d \in Conns, table'[t].seats[s] = d, phase'[d] = "pumping"
                 PROVE got'[d] = sent'[s]
      BY DEF HasHeard
    <3>1. table[t].seats[s] = d /\ d # c
      BY <1>2, <2>1, <2>2 DEF Fresh
    <3>2. phase[d] = "pumping" /\ got'[d] = got[d]
      BY <1>0, <2>1, <3>1 DEF TransportOK
    <3> QED BY <2>1, <3>1, <3>2 DEF Seating, HasHeard
  <2>4. ASSUME NEW d \in Conns, Fresh(d)' PROVE got'[d] = <<>>
    <3>1. d # c /\ Fresh(d)
      BY <2>1, <2>4 DEF TransportOK, Fresh
    <3> QED BY <1>0, <2>1, <3>1 DEF Seating
  <2> QED BY <2>3, <2>4 DEF Seating
<1>12. ASSUME NEW c \in Conns, Release(c) PROVE Seating'
  <2>1. /\ UNCHANGED sent /\ phase[c] = "releasing" /\ phase' = [phase EXCEPT ![c] = "gone"]
        /\ got' = [got EXCEPT ![c] = <<>>]
    BY <1>12 DEF Release, vars, logs
  <2>2. \A u \in Ids : table'[u].seats = table[u].seats
    BY <1>12, ReleaseRest
  <2>3. ASSUME NEW s \in Seat PROVE HasHeard(s)'
    <3> SUFFICES ASSUME NEW t \in Ids, NEW d \in Conns, table'[t].seats[s] = d, phase'[d] = "pumping"
                 PROVE got'[d] = sent'[s]
      BY DEF HasHeard
    <3>1. d # c /\ phase[d] = "pumping" /\ got'[d] = got[d]
      BY <1>0, <2>1 DEF TransportOK
    <3> QED BY <2>1, <2>2, <3>1 DEF Seating, HasHeard
  <2>4. ASSUME NEW d \in Conns, Fresh(d)' PROVE got'[d] = <<>>
    <3>1. d # c /\ Fresh(d)
      BY <2>1, <2>4 DEF TransportOK, Fresh
    <3> QED BY <1>0, <2>1, <3>1 DEF Seating
  <2> QED BY <2>3, <2>4 DEF Seating
<1>13. ASSUME NEW c \in Conns, Refused(c) \/ Lose(c) \/ Notice(c) PROVE Seating'
  <2>1. /\ UNCHANGED <<vars, got, table>>
        /\ \/ phase' = [phase EXCEPT ![c] = "releasing"]
           \/ phase' = [phase EXCEPT ![c] = "parting"]
           \/ phase' = phase
    BY <1>13 DEF Refused, Lose, Notice
  <2>2. \A d \in Conns : /\ phase'[d] = "pumping" => phase[d] = "pumping"
                         /\ Fresh(d)' => Fresh(d)
    BY <2>1 DEF TransportOK, Fresh
  <2>3. UNCHANGED <<sent, got>> /\ \A u \in Ids : table'[u].seats = table[u].seats
    BY <2>1 DEF vars, logs
  <2> QED BY <1>3, <2>2, <2>3
<1>14. ASSUME NEW t \in Ids, Fire(t) \/ \E x \in Seat : WindowFires(t, x) PROVE Seating'
  <2>1. UNCHANGED <<vars, phase, got>>
    BY <1>14 DEF Fire, WindowFires
  <2>2. \A u \in Ids : table'[u].seats = table[u].seats
    BY <1>14, FireRest, WindowFiresRest
  <2>3. UNCHANGED <<sent, got>>
    BY <2>1 DEF vars, logs
  <2> QED BY <1>3, <2>1, <2>2, <2>3 DEF Fresh
<1>15. ASSUME Stopping PROVE Seating'
  <2>1. UNCHANGED <<vars, phase, got>>
    BY <1>15 DEF Stopping
  <2>2. UNCHANGED <<sent, got>>
    BY <2>1 DEF vars, logs
  <2> QED BY <1>3, <1>15, <2>1, <2>2, StoppingRest DEF Fresh
<1>16. ASSUME ClosedAll \/ Returned \/ UNCHANGED tableVars PROVE Seating'
  <2>1. UNCHANGED <<vars, phase, got, table>>
    BY <1>16 DEF ClosedAll, Returned, tableVars, transport
  <2>2. UNCHANGED <<sent, got>>
    BY <2>1 DEF vars, logs
  <2> QED BY <1>3, <2>1, <2>2 DEF Fresh
<1> QED
  BY <1>5, <1>6, <1>7, <1>8, <1>9, <1>10, <1>11, <1>12, <1>13, <1>14, <1>15, <1>16, TableCases

\* Who watches the table has the whole record.
LEMMA WatchingAlways ==
  ASSUME MaxTables = 1
  PROVE TableSpec => []Watching
<1>1. ASSUME TableInit PROVE Watching
  BY <1>1 DEF TableInit, NewTable, Watching
<1>2. /\ TransportOK /\ TransportOK' /\ IInv /\ TypeOK' /\ Written /\ Watching
      /\ [TableNext]_tableVars
      => Watching'
  BY WatchingStays
<1>3. IInv => TypeOK
  BY DEF IInv
<1> QED BY <1>1, <1>2, <1>3, WrittenAlways, TransportTyped, PlayersAreInAMatch, PTL DEF TableSpec

\* Who sits at the table has what the room said to their seat.
LEMMA SeatingAlways ==
  ASSUME MaxTables = 1, Battles = 1
  PROVE TableSpec => []Seating
<1>1. ASSUME TableInit PROVE Seating
  <2>1. /\ \A c \in Conns : got[c] = <<>> /\ phase[c] = "out"
    BY <1>1 DEF TableInit
  <2> QED BY <2>1 DEF Seating, HasHeard
<1>2. /\ TransportOK /\ TransportOK' /\ TypeOK' /\ IInv /\ Written /\ Written' /\ Watching
      /\ RecordIsTheirs /\ Seating /\ [TableNext]_tableVars
      => Seating'
  BY SeatingStays
<1>3. IInv => TypeOK
  BY DEF IInv
<1> QED
  BY <1>1, <1>2, <1>3, WrittenAlways, WatchingAlways, RecordAlways, TransportTyped,
     PlayersAreInAMatch, PTL DEF TableSpec

\* In a single battle at one table, whoever sits at the table has been written what
\* the room said to their seat, in the order it said it, through every loss, return,
\* late timer and watcher.
THEOREM SittersSeeTheMatch ==
  ASSUME MaxTables = 1, Battles = 1
  PROVE TableSpec => []SeatedSeeTheMatch
<1>1. TransportOK /\ OneToASeat /\ Seating => SeatedSeeTheMatch
  <2> SUFFICES ASSUME TransportOK, OneToASeat, Seating, NEW c \in Conns, NEW s \in Seat, Sits(c, s),
                      Orderly(s) \/ table[tableOf[c]].seats[s] = c
               PROVE got[c] = sent[s]
    BY DEF SeatedSeeTheMatch
  <2>1. tableOf[c] \in Ids /\ phase[c] = "pumping" /\ place[c] = s
    BY DEF Sits, TransportOK
  <2>2. table[tableOf[c]].seats[s] = c
    BY <2>1 DEF OneToASeat, OneAt, AtSeat
  <2> QED BY <2>1, <2>2 DEF Seating, HasHeard
<1> QED BY <1>1, OneToASeatAlways, SeatingAlways, TransportTyped, PTL

-----------------------------------------------------------------------------
(* The registry.                                                           *)

\* The count under the mutex is the goroutines that have not returned.
Counted == live = Cardinality(Alive)

\* Nobody can close a room a second time by its code.
EnrolledIsNotClosed ==
  \A k \in Codes : rooms[k] # NoHandle =>
    rooms[k] \notin quit /\ \A p \in Closers : rooms[k] \notin closing[p]

\* Only rooms that were opened are closed.
ClosedWasOpened ==
  \A h \in Handles : state[h] = "unopened" =>
    h \notin quit /\ \A p \in Closers : h \notin closing[p]

\* A room that was opened was opened under a code.
OpenedHasCode == \A h \in Handles : state[h] # "unopened" => codeOf[h] \in Codes

Places ==
  /\ Counted
  /\ OpenedHasCode
  /\ CodeIsItsRooms
  /\ EnrolledIsNotClosed
  /\ ClosedWasOpened
  /\ QuitClosedOnce

\* A caller with a question out has been told nothing yet, and asks a real room.
AskingIsUntold ==
  \A c \in Callers : caller[c].at # "idle" =>
    caller[c].got = "nothing" /\ caller[c].of \in Handles

\* The caller a room has taken in waits for that room and for no other.
HandledIsWaiting ==
  \A h \in Handles : handling[h] # NoCaller =>
    caller[handling[h]].at = "waiting" /\ caller[handling[h]].of = h

RegistryInv == RegistryOK /\ Places /\ AskingIsUntold /\ HandledIsWaiting

\* A step of the registry is one step of one goroutine.
LEMMA RegistryCases ==
  ASSUME RegistryNext
  PROVE \/ \E h \in Handles : Open(h) \/ Quit(h) \/ Retired(h)
        \/ \E h \in Handles, over \in BOOLEAN : AnswerAsked(h, over)
        \/ \E c \in Callers : Enter(c) \/ GiveUp(c) \/ Collect(c)
        \/ \E c \in Callers, k \in Codes : Ask(c, k)
        \/ \E p \in Closers : CloseAll(p) \/ CloseQuit(p)
        \/ \E p \in Closers, k \in Codes : CloseRoom(p, k)
        \/ \E w \in Waiters : Wait(w)
BY DEF RegistryNext

-----------------------------------------------------------------------------
(* Goroutines and their count. *)

\* The goroutines that have not returned can be counted.
LEMMA AliveIsFinite == IsFiniteSet(Alive) /\ Cardinality(Alive) \in Nat
<1>1. Alive \subseteq Handles
  BY DEF Alive
<1> QED BY <1>1, RegistryAssumption, FS_Subset, FS_CardinalityType

\* A room that is opened is one more.
LEMMA OneMore ==
  ASSUME RegistryOK, Counted, NEW h \in Handles, state[h] = "unopened",
         state' = [state EXCEPT ![h] = "serving"], live' = live + 1
  PROVE Counted'
<1>1. Alive' = Alive \cup {h} /\ h \notin Alive
  BY DEF Alive, RegistryOK
<1>2. Cardinality(Alive \cup {h}) = Cardinality(Alive) + 1
  BY <1>1, AliveIsFinite, FS_AddElement
<1> QED BY <1>1, <1>2 DEF Counted

\* A room that retires is one fewer, and was one of at least one.
LEMMA OneFewer ==
  ASSUME RegistryOK, Counted, NEW h \in Handles, state[h] = "leaving",
         state' = [state EXCEPT ![h] = "gone"], live' = live - 1
  PROVE Counted' /\ live' \in Nat
<1>1. Alive' = Alive \ {h} /\ h \in Alive
  BY DEF Alive, RegistryOK
<1>2. /\ IsFiniteSet(Alive \ {h})
      /\ Cardinality(Alive \ {h}) = Cardinality(Alive) - 1
  BY <1>1, AliveIsFinite, FS_RemoveElement
<1>3. Cardinality(Alive \ {h}) \in Nat
  BY <1>2, FS_CardinalityType
<1> QED BY <1>1, <1>2, <1>3 DEF Counted

\* A room on its way out is still counted.
LEMMA LeavingIsAlive ==
  ASSUME RegistryOK, Places, NEW h \in Handles, state[h] = "serving",
         state' = [state EXCEPT ![h] = "leaving"],
         UNCHANGED <<rooms, live, codeOf, quit, closing>>
  PROVE Places'
<1>1. Alive' = Alive
  BY DEF Alive, RegistryOK
<1>2. Counted'
  BY <1>1 DEF Places, Counted
<1>3. CodeIsItsRooms'
  BY <1>1 DEF Places, CodeIsItsRooms, RegistryOK
<1>4. EnrolledIsNotClosed' /\ QuitClosedOnce'
  BY DEF Places, EnrolledIsNotClosed, QuitClosedOnce
<1>5. ClosedWasOpened' /\ OpenedHasCode'
  BY DEF Places, ClosedWasOpened, OpenedHasCode, RegistryOK
<1> QED BY <1>2, <1>3, <1>4, <1>5 DEF Places

\* What only moves a caller or a waiter moves nothing of the rooms.
LEMMA RoomsUntouched ==
  ASSUME Places, UNCHANGED <<rooms, live, state, codeOf, quit, closing>>
  PROVE Places'
BY DEF Places, Counted, Alive, OpenedHasCode, CodeIsItsRooms, EnrolledIsNotClosed,
       ClosedWasOpened, QuitClosedOnce

-----------------------------------------------------------------------------
(* Types. *)

\* No step of the registry takes a variable out of its kind.
THEOREM TypeIsKept ==
  ASSUME RegistryInv, [RegistryNext]_registryVars
  PROVE RegistryOK'
<1> USE DEF RegistryInv
<1>1. ASSUME NEW h \in Handles, Open(h) PROVE RegistryOK'
  BY <1>1 DEF Open, Enrol, FreeCodes, RegistryOK
<1>2. ASSUME NEW h \in Handles, Quit(h) PROVE RegistryOK'
  BY <1>2 DEF Quit, RegistryOK
<1>3. ASSUME NEW h \in Handles, Retired(h) PROVE RegistryOK'
  <2>1. live' \in Nat
    BY <1>3, OneFewer DEF Retired, Places
  <2>2. rooms' \in [Codes -> Handles \cup {NoHandle}]
    BY <1>3 DEF Retired, RegistryOK
  <2>3. waiter' \in [Waiters -> {"outside", "asleep", "awake", "returned"}]
    BY <1>3 DEF Retired, Woken, RegistryOK
  <2> QED BY <1>3, <2>1, <2>2, <2>3 DEF Retired, RegistryOK
<1>4. ASSUME NEW h \in Handles, NEW over \in BOOLEAN, AnswerAsked(h, over) PROVE RegistryOK'
  <2>1. state' \in [Handles -> {"unopened", "serving", "leaving", "gone"}]
    BY <1>4 DEF AnswerAsked, RegistryOK
  <2>2. handling[h] \in Callers
    BY <1>4 DEF AnswerAsked, RegistryOK
  <2>3. handling' \in [Handles -> Callers \cup {NoCaller}]
    BY <1>4 DEF AnswerAsked, RegistryOK
  <2>4. caller' \in [Callers -> [at : {"idle", "found", "waiting", "answered"},
                                 of : Handles \cup {NoHandle},
                                 got : {"nothing", "answer", "unknown"}]]
    BY <1>4, <2>2 DEF AnswerAsked, RegistryOK
  <2> QED BY <1>4, <2>1, <2>3, <2>4 DEF AnswerAsked, RegistryOK
<1>5. ASSUME NEW c \in Callers, Enter(c) PROVE RegistryOK'
  <2>1. caller[c].of \in Handles
    BY <1>5 DEF Enter, AskingIsUntold
  <2> QED BY <1>5, <2>1 DEF Enter, RegistryOK
<1>6. ASSUME NEW c \in Callers, GiveUp(c) PROVE RegistryOK'
  BY <1>6 DEF GiveUp, Idle, RegistryOK
<1>7. ASSUME NEW c \in Callers, Collect(c) PROVE RegistryOK'
  BY <1>7 DEF Collect, Idle, RegistryOK
<1>8. ASSUME NEW c \in Callers, NEW k \in Codes, Ask(c, k) PROVE RegistryOK'
  BY <1>8 DEF Ask, Idle, RegistryOK
<1>9. ASSUME NEW p \in Closers, CloseAll(p) PROVE RegistryOK'
  BY <1>9 DEF CloseAll, Unenrol, Enrolled, RegistryOK
<1>10. ASSUME NEW p \in Closers, CloseQuit(p) PROVE RegistryOK'
  BY <1>10 DEF CloseQuit, RegistryOK
<1>11. ASSUME NEW p \in Closers, NEW k \in Codes, CloseRoom(p, k) PROVE RegistryOK'
  BY <1>11 DEF CloseRoom, Unenrol, RegistryOK
<1>12. ASSUME NEW w \in Waiters, Wait(w) PROVE RegistryOK'
  BY <1>12 DEF Wait, RegistryOK
<1>13. CASE UNCHANGED registryVars
  BY <1>13 DEF registryVars, RegistryOK
<1> QED
  BY RegistryCases, <1>1, <1>2, <1>3, <1>4, <1>5, <1>6, <1>7, <1>8, <1>9, <1>10, <1>11,
     <1>12, <1>13

-----------------------------------------------------------------------------
(* Rooms and codes. *)

\* Opening takes a code nobody is enrolled under.
LEMMA OpenKeeps ==
  ASSUME RegistryOK, Places, NEW h \in Handles, Open(h)
  PROVE Places'
<1>1. PICK k \in Codes : /\ rooms[k] = NoHandle
                         /\ rooms' = [rooms EXCEPT ![k] = h]
                         /\ codeOf' = [codeOf EXCEPT ![h] = k]
  BY DEF Open, Enrol, FreeCodes
<1>2. /\ h \notin Alive /\ Alive' = Alive \cup {h}
      /\ h \notin quit /\ \A p \in Closers : h \notin closing[p]
  BY DEF Open, Alive, RegistryOK, Places, ClosedWasOpened
<1>3. Counted'
  BY OneMore DEF Open, Places
<1>4. CodeIsItsRooms'
  <2>1. \A j \in Codes : rooms'[j] # NoHandle =>
          codeOf'[rooms'[j]] = j /\ rooms'[j] \in Alive'
    <3> TAKE j \in Codes
    <3>1. CASE j = k
      BY <1>1, <1>2, <3>1 DEF RegistryOK
    <3>2. CASE j # k
      BY <1>1, <1>2, <3>2 DEF RegistryOK, Places, CodeIsItsRooms
    <3> QED BY <3>1, <3>2
  <2>2. \A g \in Handles : state'[g] = "serving" =>
          \/ rooms'[codeOf'[g]] = g
          \/ g \in quit'
          \/ \E p \in Closers : g \in closing'[p]
    <3> TAKE g \in Handles
    <3> HAVE state'[g] = "serving"
    <3>1. CASE g = h
      BY <1>1, <3>1 DEF RegistryOK
    <3>2. CASE g # h
      <4>1. codeOf'[g] = codeOf[g] /\ state'[g] = state[g]
        BY <1>1, <3>2 DEF Open, RegistryOK
      <4>2. rooms[codeOf[g]] = g => rooms'[codeOf[g]] = g
        BY <1>1, <4>1, RegistryAssumption DEF RegistryOK, Places, OpenedHasCode
      <4> QED BY <4>1, <4>2 DEF Open, Places, CodeIsItsRooms
    <3> QED BY <3>1, <3>2
  <2> QED BY <2>1, <2>2 DEF CodeIsItsRooms
<1>5. EnrolledIsNotClosed'
  BY <1>1, <1>2 DEF Open, Places, EnrolledIsNotClosed, RegistryOK
<1>6. ClosedWasOpened' /\ OpenedHasCode'
  BY <1>1 DEF Open, Places, ClosedWasOpened, OpenedHasCode, RegistryOK
<1>7. QuitClosedOnce'
  BY DEF Open, Places, QuitClosedOnce
<1> QED BY <1>3, <1>4, <1>5, <1>6, <1>7 DEF Places

\* A room that goes takes its own name off its code and no other room's.
LEMMA RetiredKeeps ==
  ASSUME RegistryOK, Places, NEW h \in Handles, Retired(h)
  PROVE Places'
<1>1. /\ Alive' = Alive \ {h}
      /\ \A g \in Handles : state'[g] = IF g = h THEN "gone" ELSE state[g]
  BY DEF Retired, Alive, RegistryOK
<1>2. \A j \in Codes : rooms'[j] # NoHandle => rooms'[j] = rooms[j] /\ rooms[j] # h
  BY RegistryAssumption DEF Retired, RegistryOK, Places, CodeIsItsRooms
<1>3. \A g \in Handles : g # h /\ state[g] # "unopened" /\ rooms[codeOf[g]] = g =>
        rooms'[codeOf[g]] = g
  BY DEF Retired, RegistryOK, Places, OpenedHasCode
<1>4. Counted'
  BY OneFewer DEF Retired, Places
<1>5. CodeIsItsRooms'
  <2>1. \A j \in Codes : rooms'[j] # NoHandle =>
          codeOf'[rooms'[j]] = j /\ rooms'[j] \in Alive'
    BY <1>1, <1>2 DEF Retired, Places, CodeIsItsRooms
  <2>2. \A g \in Handles : state'[g] = "serving" =>
          \/ rooms'[codeOf'[g]] = g
          \/ g \in quit'
          \/ \E p \in Closers : g \in closing'[p]
    BY <1>1, <1>3 DEF Retired, Places, CodeIsItsRooms
  <2> QED BY <2>1, <2>2 DEF CodeIsItsRooms
<1>6. EnrolledIsNotClosed'
  BY <1>2 DEF Retired, Places, EnrolledIsNotClosed
<1>7. ClosedWasOpened' /\ OpenedHasCode'
  BY <1>1 DEF Retired, Places, ClosedWasOpened, OpenedHasCode
<1>8. QuitClosedOnce'
  BY DEF Retired, Places, QuitClosedOnce
<1> QED BY <1>4, <1>5, <1>6, <1>7, <1>8 DEF Places

\* What a closer takes in hand was enrolled, and is enrolled no more.
LEMMA UnenrolKeeps ==
  ASSUME RegistryOK, Places, NEW p \in Closers, closing[p] = {},
         NEW hs \in SUBSET Enrolled, Unenrol(p, hs),
         UNCHANGED <<live, state, codeOf, quit>>
  PROVE Places'
<1>1. /\ \A j \in Codes : rooms'[j] # NoHandle => rooms'[j] = rooms[j] /\ rooms[j] \notin hs
      /\ \A j \in Codes : rooms[j] \notin hs => rooms'[j] = rooms[j]
  BY DEF Unenrol
<1>2. \A q \in Closers : closing'[q] = IF q = p THEN hs ELSE closing[q]
  BY DEF Unenrol, RegistryOK
<1>3. \A g \in hs : /\ g \in Handles /\ g \in Alive /\ g \notin quit
                    /\ \A q \in Closers : g \notin closing[q]
  BY DEF Enrolled, RegistryOK, Places, CodeIsItsRooms, EnrolledIsNotClosed
<1>4. Alive' = Alive
  BY DEF Alive
<1>5. Counted'
  BY <1>4 DEF Places, Counted
<1>6. CodeIsItsRooms'
  <2>1. \A j \in Codes : rooms'[j] # NoHandle =>
          codeOf'[rooms'[j]] = j /\ rooms'[j] \in Alive'
    BY <1>1, <1>4 DEF Places, CodeIsItsRooms
  <2>2. \A g \in Handles : state'[g] = "serving" =>
          \/ rooms'[codeOf'[g]] = g
          \/ g \in quit'
          \/ \E q \in Closers : g \in closing'[q]
    <3> TAKE g \in Handles
    <3> HAVE state'[g] = "serving"
    <3>1. CASE g \in hs
      BY <3>1, <1>2
    <3>2. CASE g \notin hs
      <4>1. \A q \in Closers : g \in closing[q] => g \in closing'[q]
        BY <1>2
      <4>2. rooms[codeOf[g]] = g => rooms'[codeOf[g]] = g
        <5> SUFFICES ASSUME rooms[codeOf[g]] = g PROVE rooms'[codeOf[g]] = g
          OBVIOUS
        <5>1. codeOf[g] \in Codes
          BY DEF Places, OpenedHasCode
        <5> QED BY <5>1, <1>1, <3>2
      <4> QED BY <4>1, <4>2 DEF Places, CodeIsItsRooms
    <3> QED BY <3>1, <3>2
  <2> QED BY <2>1, <2>2 DEF CodeIsItsRooms
<1>7. EnrolledIsNotClosed'
  BY <1>1, <1>2 DEF Places, EnrolledIsNotClosed
<1>8. ClosedWasOpened' /\ OpenedHasCode'
  BY <1>2, <1>3 DEF Places, ClosedWasOpened, OpenedHasCode, Alive
<1>9. QuitClosedOnce'
  BY <1>2, <1>3 DEF Places, QuitClosedOnce
<1> QED BY <1>5, <1>6, <1>7, <1>8, <1>9 DEF Places

\* A quit channel is closed by the one closer that holds its room.
LEMMA CloseQuitKeeps ==
  ASSUME RegistryOK, Places, NEW p \in Closers, CloseQuit(p)
  PROVE Places'
<1>1. PICK h \in closing[p] : /\ quit' = quit \cup {h}
                              /\ closing' = [closing EXCEPT ![p] = @ \ {h}]
  BY DEF CloseQuit
<1>2. \A q \in Closers : closing'[q] = IF q = p THEN closing[p] \ {h} ELSE closing[q]
  BY <1>1 DEF RegistryOK
<1>3. Counted' /\ OpenedHasCode'
  BY DEF CloseQuit, Places, Counted, Alive, OpenedHasCode
<1>4. CodeIsItsRooms'
  <2>1. \A j \in Codes : rooms'[j] # NoHandle =>
          codeOf'[rooms'[j]] = j /\ rooms'[j] \in Alive'
    BY DEF CloseQuit, Places, CodeIsItsRooms, Alive
  <2>2. \A g \in Handles : state'[g] = "serving" =>
          \/ rooms'[codeOf'[g]] = g
          \/ g \in quit'
          \/ \E q \in Closers : g \in closing'[q]
    <3> TAKE g \in Handles
    <3>1. CASE g = h
      BY <3>1, <1>1
    <3>2. CASE g # h
      BY <3>2, <1>1, <1>2 DEF CloseQuit, Places, CodeIsItsRooms
    <3> QED BY <3>1, <3>2
  <2> QED BY <2>1, <2>2 DEF CodeIsItsRooms
<1>5. EnrolledIsNotClosed'
  BY <1>1, <1>2 DEF CloseQuit, Places, EnrolledIsNotClosed
<1>6. ClosedWasOpened'
  BY <1>1, <1>2 DEF CloseQuit, Places, ClosedWasOpened
<1>7. QuitClosedOnce'
  BY <1>1, <1>2 DEF Places, QuitClosedOnce
<1> QED BY <1>3, <1>4, <1>5, <1>6, <1>7 DEF Places

\* No step loses the count of goroutines, leaves a code on a room that is not
\* running, or lets two closers have one room in hand.
THEOREM PlacesAreKept ==
  ASSUME RegistryInv, [RegistryNext]_registryVars
  PROVE Places'
<1> USE DEF RegistryInv
<1>1. ASSUME NEW h \in Handles, Open(h) PROVE Places'
  BY <1>1, OpenKeeps
<1>2. ASSUME NEW h \in Handles, Quit(h) PROVE Places'
  BY <1>2, LeavingIsAlive DEF Quit
<1>3. ASSUME NEW h \in Handles, Retired(h) PROVE Places'
  BY <1>3, RetiredKeeps
<1>4. ASSUME NEW h \in Handles, NEW over \in BOOLEAN, AnswerAsked(h, over) PROVE Places'
  <2>1. CASE over
    BY <1>4, <2>1, LeavingIsAlive DEF AnswerAsked
  <2>2. CASE ~over
    BY <1>4, <2>2, RoomsUntouched DEF AnswerAsked
  <2> QED BY <2>1, <2>2
<1>5. ASSUME NEW c \in Callers, Enter(c) \/ GiveUp(c) \/ Collect(c) PROVE Places'
  BY <1>5, RoomsUntouched DEF Enter, GiveUp, Collect
<1>6. ASSUME NEW c \in Callers, NEW k \in Codes, Ask(c, k) PROVE Places'
  BY <1>6, RoomsUntouched DEF Ask
<1>7. ASSUME NEW p \in Closers, CloseAll(p) PROVE Places'
  <2>1. Enrolled \in SUBSET Enrolled
    OBVIOUS
  <2> QED BY <1>7, <2>1, UnenrolKeeps DEF CloseAll
<1>8. ASSUME NEW p \in Closers, CloseQuit(p) PROVE Places'
  BY <1>8, CloseQuitKeeps
<1>9. ASSUME NEW p \in Closers, NEW k \in Codes, CloseRoom(p, k) PROVE Places'
  <2>1. {rooms[k]} \in SUBSET Enrolled
    BY <1>9 DEF CloseRoom, Enrolled
  <2> QED BY <1>9, <2>1, UnenrolKeeps DEF CloseRoom
<1>10. ASSUME NEW w \in Waiters, Wait(w) PROVE Places'
  BY <1>10, RoomsUntouched DEF Wait
<1>11. CASE UNCHANGED registryVars
  BY <1>11, RoomsUntouched DEF registryVars
<1> QED
  BY RegistryCases, <1>1, <1>2, <1>3, <1>4, <1>5, <1>6, <1>7, <1>8, <1>9, <1>10, <1>11

-----------------------------------------------------------------------------
(* Callers. *)

\* No step answers a caller who is waiting on another room, or twice.
THEOREM QuestionsAreKept ==
  ASSUME RegistryInv, [RegistryNext]_registryVars
  PROVE AskingIsUntold' /\ HandledIsWaiting'
<1> DEFINE Stays == AskingIsUntold' /\ HandledIsWaiting'
<1> SUFFICES Stays
  OBVIOUS
<1> USE DEF RegistryInv, AskingIsUntold, HandledIsWaiting
<1>1. ASSUME UNCHANGED <<caller, handling>> PROVE Stays
  BY <1>1
<1>2. ASSUME NEW h \in Handles, Open(h) \/ Quit(h) \/ Retired(h) PROVE Stays
  BY <1>1, <1>2 DEF Open, Quit, Retired
<1>3. ASSUME NEW h \in Handles, NEW over \in BOOLEAN, AnswerAsked(h, over) PROVE Stays
  <2> DEFINE c == handling[h]
  <2>1. c \in Callers /\ caller[c].at = "waiting" /\ caller[c].of = h
    BY <1>3 DEF AnswerAsked, RegistryOK
  <2>2. /\ \A d \in Callers : d # c => caller'[d] = caller[d]
        /\ caller'[c] = [caller[c] EXCEPT !.at = "answered"]
    BY <1>3, <2>1 DEF AnswerAsked, RegistryOK
  <2>3. \A g \in Handles : handling'[g] = IF g = h THEN NoCaller ELSE handling[g]
    BY <1>3 DEF AnswerAsked, RegistryOK
  <2>4. AskingIsUntold'
    BY <2>1, <2>2 DEF RegistryOK
  <2>5. HandledIsWaiting'
    <3> SUFFICES ASSUME NEW g \in Handles, handling'[g] # NoCaller
                 PROVE caller'[handling'[g]].at = "waiting" /\ caller'[handling'[g]].of = g
      OBVIOUS
    <3>1. g # h /\ handling'[g] = handling[g] /\ handling[g] \in Callers
      BY <2>3 DEF RegistryOK
    <3>2. handling[g] # c
      BY <3>1, <2>1
    <3> QED BY <3>1, <3>2, <2>2
  <2> QED BY <2>4, <2>5
<1>4. ASSUME NEW c \in Callers, Enter(c) PROVE Stays
  <2>1. caller[c].at = "found" /\ caller[c].of \in Handles
    BY <1>4 DEF Enter
  <2>2. /\ \A d \in Callers : d # c => caller'[d] = caller[d]
        /\ caller'[c] = [caller[c] EXCEPT !.at = "waiting"]
    BY <1>4 DEF Enter, RegistryOK
  <2>3. \A g \in Handles :
          handling'[g] = IF g = caller[c].of THEN c ELSE handling[g]
    BY <1>4 DEF Enter, RegistryOK
  <2>4. AskingIsUntold'
    BY <2>1, <2>2 DEF RegistryOK
  <2>5. HandledIsWaiting'
    <3> SUFFICES ASSUME NEW g \in Handles, handling'[g] # NoCaller
                 PROVE caller'[handling'[g]].at = "waiting" /\ caller'[handling'[g]].of = g
      OBVIOUS
    <3>1. CASE g = caller[c].of
      BY <3>1, <2>1, <2>2, <2>3 DEF RegistryOK
    <3>2. CASE g # caller[c].of
      <4>1. handling'[g] = handling[g] /\ handling[g] \in Callers /\ handling[g] # c
        BY <3>2, <2>1, <2>3 DEF RegistryOK
      <4> QED BY <4>1, <2>2
    <3> QED BY <3>1, <3>2
  <2> QED BY <2>4, <2>5
<1>5. ASSUME NEW c \in Callers, caller[c].at # "waiting",
             caller'[c].at # "idle" => caller'[c].got = "nothing" /\ caller'[c].of \in Handles,
             \A d \in Callers : d # c => caller'[d] = caller[d],
             UNCHANGED handling
      PROVE Stays
  BY <1>5 DEF RegistryOK
<1>6. ASSUME NEW c \in Callers, GiveUp(c) \/ Collect(c) PROVE Stays
  <2>1. caller[c].at # "waiting"
    BY <1>6 DEF GiveUp, Collect
  <2>2. caller'[c].at = "idle" /\ \A d \in Callers : d # c => caller'[d] = caller[d]
    BY <1>6 DEF GiveUp, Collect, Idle, RegistryOK
  <2> QED BY <1>5, <1>6, <2>1, <2>2 DEF GiveUp, Collect
<1>7. ASSUME NEW c \in Callers, NEW k \in Codes, Ask(c, k) PROVE Stays
  <2>1. /\ caller'[c].at # "idle" => caller'[c].got = "nothing" /\ caller'[c].of \in Handles
        /\ \A d \in Callers : d # c => caller'[d] = caller[d]
    BY <1>7 DEF Ask, Idle, RegistryOK
  <2> QED BY <1>5, <1>7, <2>1 DEF Ask
<1>8. ASSUME NEW p \in Closers, CloseAll(p) \/ CloseQuit(p) PROVE Stays
  BY <1>1, <1>8 DEF CloseAll, CloseQuit
<1>9. ASSUME NEW p \in Closers, NEW k \in Codes, CloseRoom(p, k) PROVE Stays
  BY <1>1, <1>9 DEF CloseRoom
<1>10. ASSUME NEW w \in Waiters, Wait(w) PROVE Stays
  BY <1>1, <1>10 DEF Wait
<1>11. CASE UNCHANGED registryVars
  BY <1>1, <1>11 DEF registryVars
<1> QED BY RegistryCases, <1>2, <1>3, <1>4, <1>6, <1>7, <1>8, <1>9, <1>10, <1>11

-----------------------------------------------------------------------------
(* What follows. *)

\* A new registry satisfies the invariant.
LEMMA RegistryStarts ==
  ASSUME RegistryInit
  PROVE RegistryInv
<1>1. RegistryOK
  BY DEF RegistryInit, Idle, RegistryOK
<1>2. Alive = {}
  BY DEF RegistryInit, Alive
<1>3. Counted
  BY <1>2, FS_EmptySet DEF RegistryInit, Counted
<1>4. Places
  BY <1>3 DEF RegistryInit, Places, OpenedHasCode, CodeIsItsRooms, EnrolledIsNotClosed,
              ClosedWasOpened, QuitClosedOnce
<1>5. AskingIsUntold /\ HandledIsWaiting
  BY DEF RegistryInit, Idle, AskingIsUntold, HandledIsWaiting
<1> QED BY <1>1, <1>4, <1>5 DEF RegistryInv

\* The registry's own account of itself is right in every state it reaches.
THEOREM RegistryInductive == RegistrySpec => []RegistryInv
<1>1. RegistryInit => RegistryInv
  BY RegistryStarts
<1>2. RegistryInv /\ [RegistryNext]_registryVars => RegistryInv'
  BY TypeIsKept, PlacesAreKept, QuestionsAreKept DEF RegistryInv
<1> QED BY <1>1, <1>2, PTL DEF RegistrySpec

\* Every variable of the registry keeps its type.
THEOREM RegistryTyped == RegistrySpec => []RegistryOK
<1>1. RegistryInv => RegistryOK
  BY DEF RegistryInv
<1> QED BY <1>1, RegistryInductive, PTL

\* A running room is found under its code until it is closed or over, and a code
\* leads to a running room that was opened under it.
THEOREM CodesLeadToTheirRooms == RegistrySpec => []CodeIsItsRooms
<1>1. RegistryInv => CodeIsItsRooms
  BY DEF RegistryInv, Places
<1> QED BY <1>1, RegistryInductive, PTL

\* No interleaving of closers closes one quit channel twice.
THEOREM NoQuitIsClosedTwice == RegistrySpec => []QuitClosedOnce
<1>1. RegistryInv => QuitClosedOnce
  BY DEF RegistryInv, Places
<1> QED BY <1>1, RegistryInductive, PTL

\* Wait comes back only to a registry with no goroutine of a room left in it.
THEOREM WaitComesBackToNobody == RegistrySpec => WaitMeansGone
<1> DEFINE Step == \A w \in Waiters :
      waiter[w] # "returned" /\ waiter'[w] = "returned" => Alive = {}
<1>1. RegistryInv /\ [RegistryNext]_registryVars => Step
  <2> SUFFICES ASSUME RegistryInv, [RegistryNext]_registryVars, NEW w \in Waiters,
                      waiter[w] # "returned", waiter'[w] = "returned"
               PROVE Alive = {}
    OBVIOUS
  <2> USE DEF RegistryInv
  <2>1. ASSUME NEW h \in Handles, Retired(h) PROVE FALSE
    BY <2>1 DEF Retired, Woken, RegistryOK
  <2>2. ASSUME NEW v \in Waiters, Wait(v) PROVE Alive = {}
    <3>1. live = 0
      BY <2>2 DEF Wait, RegistryOK
    <3> QED BY <3>1, AliveIsFinite, FS_EmptySet DEF Places, Counted
  <2>3. CASE UNCHANGED waiter
    BY <2>3
  <2>4. \/ UNCHANGED waiter
        \/ \E h \in Handles : Retired(h)
        \/ \E v \in Waiters : Wait(v)
    BY RegistryCases DEF registryVars, Open, Quit, AnswerAsked, Enter, GiveUp, Collect, Ask, CloseAll,
                     CloseQuit, CloseRoom
  <2> QED BY <2>1, <2>2, <2>3, <2>4
<1>2. RegistryInv /\ [RegistryNext]_registryVars => [Step]_registryVars
  BY <1>1
<1> QED BY <1>2, RegistryInductive, PTL DEF RegistrySpec, WaitMeansGone

\* Nobody is told that a room is unknown while it could still answer.
THEOREM UnknownIsGone == RegistrySpec => UnknownMeansGone
<1> DEFINE Step == \A c \in Callers :
      caller[c].at = "found" /\ caller'[c].got = "unknown" =>
        /\ Done(caller[c].of)
        /\ \A k \in Codes : rooms[k] # caller[c].of
<1>1. RegistryInv /\ [RegistryNext]_registryVars => Step
  <2> SUFFICES ASSUME RegistryInv, [RegistryNext]_registryVars, NEW c \in Callers,
                      caller[c].at = "found", caller'[c].got = "unknown"
               PROVE Done(caller[c].of) /\ \A k \in Codes : rooms[k] # caller[c].of
    OBVIOUS
  <2> USE DEF RegistryInv
  <2>1. caller[c].got = "nothing" /\ caller[c].of \in Handles
    BY DEF AskingIsUntold
  <2>2. caller'[c] # caller[c]
    BY <2>1
  <2>3. ASSUME NEW h \in Handles, NEW over \in BOOLEAN, AnswerAsked(h, over) PROVE FALSE
    <3>1. caller'[c].got = caller[c].got
      BY <2>3 DEF AnswerAsked, RegistryOK
    <3> QED BY <3>1, <2>1
  <2>4. ASSUME NEW d \in Callers, Enter(d) \/ Collect(d) PROVE FALSE
    <3>1. d = c \/ caller'[c] = caller[c]
      BY <2>4 DEF Enter, Collect, RegistryOK
    <3>2. Enter(c)
      BY <3>1, <2>2, <2>4 DEF Collect
    <3>3. caller'[c].got = caller[c].got
      BY <3>2 DEF Enter, RegistryOK
    <3> QED BY <3>3, <2>1
  <2>5. ASSUME NEW d \in Callers, NEW k \in Codes, Ask(d, k) PROVE FALSE
    BY <2>2, <2>5 DEF Ask, RegistryOK
  <2>6. ASSUME NEW d \in Callers, GiveUp(d)
        PROVE Done(caller[c].of) /\ \A k \in Codes : rooms[k] # caller[c].of
    <3>1. d = c
      BY <2>2, <2>6 DEF GiveUp, RegistryOK
    <3>2. Done(caller[c].of)
      BY <3>1, <2>6 DEF GiveUp
    <3>3. caller[c].of \notin Alive /\ caller[c].of # NoHandle
      BY <3>2, <2>1, RegistryAssumption DEF Done, Alive
    <3> QED BY <3>2, <3>3 DEF Places, CodeIsItsRooms
  <2>7. \/ UNCHANGED caller
        \/ \E h \in Handles, over \in BOOLEAN : AnswerAsked(h, over)
        \/ \E d \in Callers : Enter(d) \/ GiveUp(d) \/ Collect(d)
        \/ \E d \in Callers, k \in Codes : Ask(d, k)
    BY RegistryCases DEF registryVars, Open, Quit, Retired, CloseAll, CloseQuit, CloseRoom, Wait
  <2> QED BY <2>2, <2>3, <2>4, <2>5, <2>6, <2>7
<1>2. RegistryInv /\ [RegistryNext]_registryVars => [Step]_registryVars
  BY <1>1
<1> QED BY <1>2, RegistryInductive, PTL DEF RegistrySpec, UnknownMeansGone

=============================================================================
