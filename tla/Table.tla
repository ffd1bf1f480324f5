------------------------------- MODULE Table -------------------------------
(***************************************************************************)
(* The transport of internal/socket around one room: connections, the       *)
(* table of their room code, the allowance on the seat that is asked, the   *)
(* window a dropped seat is held for, the watchers, and the shutdown.       *)
(*                                                                          *)
(* A table's exchange mutex is held over each exchange with the room, so an *)
(* exchange is one step; what happens outside it (a read failing, a timer   *)
(* firing, a deferred departure, the table being claimed and given back) is *)
(* a step of its own.  Timers have no lengths here: one that runs may fire  *)
(* at any moment.                                                           *)
(***************************************************************************)
EXTENDS Room

CONSTANTS
  Conns,        \* bound: the connections ever made
  MaxTables,    \* bound: the tables ever made for the code
  MaxWatchers,
  Absent,       \* no connection
  Timings       \* which awkward timings happen, out of AwkwardTimings

AwkwardTimings ==
  { "half_open",    \* a player is back before the server misses their old socket
    "lost_resume",  \* the write of the record to a returning player fails
    "spectators",   \* somebody watches
    "shutdown" }    \* the host stops serving

ASSUME TableAssumption ==
  /\ Absent \notin Conns
  /\ MaxTables \in Nat
  /\ MaxWatchers \in Nat
  /\ Timings \subseteq AwkwardTimings
  /\ ~Drafts

VARIABLES
  phase,    \* where each connection's goroutine is
  hello,    \* what it said first: the token it proves, or that it watches
  place,    \* the seat it was given, "none" for a watcher
  tableOf,  \* the table it holds a reference to
  open,     \* its socket still reads
  got,      \* history: the bodies written to it, refusals and welcomes aside,
            \* forgotten once its goroutine is gone
  cursor,   \* how much of the record a watcher has been handed
  table,    \* each table
  entry,    \* the table of the code, 0 when there is none
  made,     \* tables made so far
  down      \* how far a shutdown has come

transport == <<phase, hello, place, tableOf, open, got, cursor, table, entry, made, down>>
tableVars == <<vars, transport>>

Ids == 1..MaxTables

\* `early` is history: who came back before their old socket was missed.
NewTable ==
  [seats |-> [s \in Seat |-> Absent], rejoinable |-> [s \in Seat |-> FALSE],
   holding |-> [s \in Seat |-> "none"], ringing |-> {},
   alarm |-> "none", late |-> {}, watchers |-> {}, holders |-> 0,
   early |-> {}]

\* The room's goroutine is there to answer: it leaves when its match is over and
\* when CloseAll closes it, and every later question is answered by the registry.
Known == ~Finished /\ down \notin {"closed", "returned"}

TableInit ==
  /\ Init
  /\ phase = [c \in Conns |-> "out"]
  /\ hello = [c \in Conns |-> [watch |-> FALSE, token |-> 0]]
  /\ place = [c \in Conns |-> "none"]
  /\ tableOf = [c \in Conns |-> 0]
  /\ open = [c \in Conns |-> TRUE]
  /\ got = [c \in Conns |-> <<>>]
  /\ cursor = [c \in Conns |-> 0]
  /\ table = [t \in Ids |-> NewTable]
  /\ entry = 0
  /\ made = 0
  /\ down = "up"

-----------------------------------------------------------------------------
(* What an exchange writes. *)

\* The bodies this step of the room addresses to a seat, and those it records.
News(s) == SubSeq(sent'[s], Len(sent[s]) + 1, Len(sent'[s]))
Recorded == SubSeq(watched', Len(watched) + 1, Len(watched'))

\* Mutant: a report that raced with the next prompt disarms it.
SetAlarmDisarming(alarm, only) ==
  IF Awaiting' # "none" /\ only # "none" /\ Awaiting' # only THEN "none" ELSE Awaiting'

\* allowance.set: armed for whoever the room is waiting on, nobody when it waits
\* on nobody; a narrowed set leaves somebody else's clock alone.
SetAlarm(alarm, only) ==
  IF Awaiting' # "none" /\ only # "none" /\ Awaiting' # only THEN alarm ELSE Awaiting'

\* Mutant: the watchers of a match that is over are let go before its last bodies
\* are handed out.
KeptEndedFirst(watchers) == IF Finished' THEN {} ELSE watchers

\* Server.forward: a watcher whose cursor is where the exchange began is handed
\* what it recorded, any other is stopped.
Kept(watchers) ==
  IF Recorded = <<>> THEN watchers ELSE { w \in watchers : cursor[w] = Len(watched) }

\* Server.send, settled, forward and endWatching: table t becomes tb, `only`
\* narrows the clock and `before` is what was written ahead of the answer.
Settled(t, tb, only, before) ==
  LET kept == Kept(tb.watchers)
      cut == (tb.watchers \ kept) \cup (IF Finished' THEN tb.watchers ELSE {})
  IN /\ got' = [c \in Conns |->
          IF \E s \in Seat : tb.seats[s] = c
          THEN before[c] \o News(CHOOSE s \in Seat : tb.seats[s] = c)
          ELSE IF c \in kept THEN before[c] \o Recorded ELSE before[c]]
     /\ cursor' = [c \in Conns |-> IF c \in kept THEN Len(watched') ELSE cursor[c]]
     /\ open' = [c \in Conns |-> open[c] /\ c \notin cut]
     /\ table' = [table EXCEPT ![t] = [tb EXCEPT !.alarm = SetAlarm(tb.alarm, only),
                                                 !.watchers = kept \ cut]]

\* The room has gone: nothing is sent and the watchers are let go.
Unknown(t, tb) ==
  /\ table' = [table EXCEPT ![t] = [tb EXCEPT !.watchers = {}]]
  /\ open' = [c \in Conns |-> open[c] /\ c \notin tb.watchers]
  /\ UNCHANGED <<vars, got, cursor>>

-----------------------------------------------------------------------------
(* Arriving. *)

\* The player of this token is behind this connection.
Speaks(d, token) ==
  /\ phase[d] # "out"
  /\ \/ hello[d].token = token
     \/ place[d] # "none" /\ seated[place[d]].token = token

Claimed(tb) == [tb EXCEPT !.holders = @ + 1]

\* A connection says hello and claims the table of its code, which makes one if
\* there is none.  A player who was dropped presents their token.
Dial(c, first) ==
  /\ phase[c] = "out"
  /\ down # "returned"
  /\ first.watch => "spectators" \in Timings
  /\ first.token # 0 =>
       \E s \in Seat : seated[s].taken /\ seated[s].token = first.token
  /\ first.token # 0 =>
       \A d \in Conns : Speaks(d, first.token) =>
         phase[d] = "gone" \/ ("half_open" \in Timings /\ ~open[d])
  /\ LET t == IF entry = 0 THEN made + 1 ELSE entry
     IN /\ t \in Ids
        /\ entry' = t
        /\ made' = IF entry = 0 THEN made + 1 ELSE made
        /\ tableOf' = [tableOf EXCEPT ![c] = t]
        /\ table' = [table EXCEPT ![t] = Claimed(@)]
  /\ hello' = [hello EXCEPT ![c] = first]
  /\ phase' = [phase EXCEPT ![c] = "claimed"]
  /\ UNCHANGED <<vars, place, open, got, cursor, down>>

Said(c) ==
  [version |-> TRUE, password |-> TRUE, watch |-> hello[c].watch,
   token |-> hello[c].token, squad |-> "fieldable"]

\* Mutant: a refused connection keeps its reference to the table.
RefusedUnreleased(c) ==
  /\ phase[c] = "claimed"
  /\ \/ ~Known
     \/ Gate(Said(c)) \notin {"seated", "rejoined", "watching"}
  /\ phase' = [phase EXCEPT ![c] = "gone"]
  /\ UNCHANGED <<vars, hello, place, tableOf, open, got, cursor, table, entry, made, down>>

\* Server.join: an answer that seats nobody ends the connection.
Refused(c) ==
  /\ phase[c] = "claimed"
  /\ \/ ~Known
     \/ Gate(Said(c)) \notin {"seated", "rejoined", "watching"}
     \/ Gate(Said(c)) = "watching"
        /\ Cardinality(table[tableOf[c]].watchers) >= MaxWatchers
  /\ phase' = [phase EXCEPT ![c] = "releasing"]
  /\ UNCHANGED <<vars, hello, place, tableOf, open, got, cursor, table, entry, made, down>>

\* Server.watched: everything recorded so far, and the place it reached.
Watch(c) ==
  /\ phase[c] = "claimed"
  /\ Known
  /\ Gate(Said(c)) = "watching"
  /\ Cardinality(table[tableOf[c]].watchers) < MaxWatchers
  /\ got' = [got EXCEPT ![c] = watched]
  /\ cursor' = [cursor EXCEPT ![c] = Len(watched)]
  /\ table' = [table EXCEPT ![tableOf[c]].watchers = @ \cup {c}]
  /\ phase' = [phase EXCEPT ![c] = "pumping"]
  /\ UNCHANGED <<vars, hello, place, tableOf, open, entry, made, down>>

\* Server.join of a new player: seated before anything is written.
Sit(c) ==
  LET t == tableOf[c]
      s == FreeSeat
  IN /\ phase[c] = "claimed"
     /\ Known
     /\ Join(Said(c))
     /\ Settled(t, [table[t] EXCEPT !.rejoinable[s] = IssuesTokens, !.seats[s] = c],
                "none", got)
     /\ place' = [place EXCEPT ![c] = s]
     /\ phase' = [phase EXCEPT ![c] = "pumping"]
     /\ UNCHANGED <<hello, tableOf, entry, made, down>>

\* Server.join of a player coming back: the window is stopped, the seat is theirs
\* again, and the record is written to them before anything else.
Rejoin(c) ==
  LET t == tableOf[c]
      s == CHOOSE seat \in SeatsFor(hello[c].token) : TRUE
      missed == \A d \in Conns : place[d] = s => phase[d] \in {"releasing", "gone"}
      back == [table[t] EXCEPT !.rejoinable[s] = TRUE, !.holding[s] = "none",
                               !.seats[s] = c, !.early = IF missed THEN @ ELSE @ \cup {c}]
  IN /\ phase[c] = "claimed"
     /\ Known
     /\ Gate(Said(c)) = "rejoined"
     /\ UNCHANGED vars
     /\ \/ /\ Settled(t, back, "none", [got EXCEPT ![c] = Resume(s)])
           /\ place' = [place EXCEPT ![c] = s]
           /\ phase' = [phase EXCEPT ![c] = "pumping"]
        \/ /\ "lost_resume" \in Timings
           /\ Resume(s) # <<>>
           /\ table' = [table EXCEPT ![t] = back]
           /\ place' = [place EXCEPT ![c] = s]
           /\ phase' = [phase EXCEPT ![c] = "releasing"]
           /\ open' = [open EXCEPT ![c] = FALSE]
           /\ UNCHANGED <<got, cursor>>
     /\ UNCHANGED <<hello, tableOf, entry, made, down>>

-----------------------------------------------------------------------------
(* Playing. *)

Over(c) == IF Finished' THEN [phase EXCEPT ![c] = "parting"] ELSE phase

\* Server.deliver, of an answer the room takes.
Act(c) ==
  /\ phase[c] = "pumping" /\ open[c] /\ place[c] # "none"
  /\ Known
  /\ Answer(place[c])
  /\ Settled(tableOf[c], table[tableOf[c]], "none", got)
  /\ phase' = Over(c)
  /\ UNCHANGED <<hello, place, tableOf, entry, made, down>>

\* Server.deliver, of a message the room refuses: a seat's re-arms the clock.
Chatter(c) ==
  /\ phase[c] = "pumping" /\ open[c] /\ place[c] # "none"
  /\ Known
  /\ table[tableOf[c]].alarm # Awaiting
  /\ UNCHANGED vars
  /\ Settled(tableOf[c], table[tableOf[c]], "none", got)
  /\ UNCHANGED <<phase, hello, place, tableOf, entry, made, down>>

\* Server.deliver to a room that has gone, by a player or by a watcher.
Overdue(c) ==
  /\ phase[c] = "pumping" /\ open[c]
  /\ ~Known
  /\ Unknown(tableOf[c], table[tableOf[c]])
  /\ phase' = [phase EXCEPT ![c] = "parting"]
  /\ UNCHANGED <<hello, place, tableOf, entry, made, down>>

-----------------------------------------------------------------------------
(* The allowance. *)

\* The timer fires under its own generation; its callback now waits for exchange.
Fire(t) ==
  /\ table[t].alarm # "none"
  /\ table[t].alarm \notin table[t].late
  /\ table' = [table EXCEPT ![t].alarm = "none", ![t].late = @ \cup {table[t].alarm}]
  /\ UNCHANGED <<vars, phase, hello, place, tableOf, open, got, cursor, entry, made, down>>

\* Server.timedOut: refused for a seat the room is not asking, a pass otherwise.
AllowanceOut(t, s) ==
  LET tb == [table[t] EXCEPT !.late = @ \ {s}]
  IN /\ s \in table[t].late
     /\ \/ /\ ~Known
           /\ Unknown(t, tb)
        \/ /\ Known
           /\ ~(seated[s].taken /\ asked = s)
           /\ UNCHANGED vars
           /\ table' = [table EXCEPT ![t] = [tb EXCEPT !.alarm = SetAlarm(tb.alarm, s)]]
           /\ UNCHANGED <<open, got, cursor>>
        \/ /\ Known
           /\ TurnTimedOut(s)
           /\ Settled(t, tb, "none", got)
     /\ UNCHANGED <<phase, hello, place, tableOf, entry, made, down>>

-----------------------------------------------------------------------------
(* Leaving. *)

\* A socket dies, or its player closes it.
Lose(c) ==
  /\ phase[c] = "pumping" /\ open[c]
  /\ open' = [open EXCEPT ![c] = FALSE]
  /\ UNCHANGED <<vars, phase, hello, place, tableOf, got, cursor, table, entry, made, down>>

\* The read or the keepalive notices, and the connection's goroutine goes.
Notice(c) ==
  /\ phase[c] = "pumping" /\ ~open[c]
  /\ phase' = [phase EXCEPT ![c] = "parting"]
  /\ UNCHANGED <<vars, hello, place, tableOf, open, got, cursor, table, entry, made, down>>

\* Server.abandon: the room is told that the seat's player went.
GiveBack(t, tb, s) ==
  \/ ~Known /\ Unknown(t, tb)
  \/ /\ Known
     /\ seated[s].taken
     /\ Left(s)
     /\ Settled(t, tb, "none", got)
  \/ /\ Known
     /\ ~seated[s].taken
     /\ UNCHANGED vars
     /\ Settled(t, tb, "none", got)

\* table.free: only a seat that is still this connection's.
Freed(tb, s, c) == IF tb.seats[s] = c THEN [tb EXCEPT !.seats[s] = Absent] ELSE tb

\* Server.parted, deferred behind every connection that was let in: a watcher
\* gives its place back, a player's seat is held or given back to the room.
Part(c) ==
  LET t == tableOf[c]
      s == place[c]
      tb == Freed(table[t], s, c)
  IN /\ phase[c] = "parting"
     /\ phase' = [phase EXCEPT ![c] = "releasing"]
     /\ \/ /\ s = "none"
           /\ table' = [table EXCEPT ![t].watchers = @ \ {c}]
           /\ UNCHANGED <<vars, open, got, cursor>>
        \/ /\ s # "none" /\ tb.rejoinable[s] /\ tb.holding[s] = "none"
           /\ table' = [table EXCEPT ![t] = [tb EXCEPT !.holding[s] = "running"]]
           /\ UNCHANGED <<vars, open, got, cursor>>
        \/ /\ s # "none" /\ ~(tb.rejoinable[s] /\ tb.holding[s] = "none")
           /\ GiveBack(t, tb, s)
     /\ UNCHANGED <<hello, place, tableOf, entry, made, down>>

\* Server.release: the last reference takes the table and its allowance away.
Release(c) ==
  LET t == tableOf[c]
      alone == table[t].holders = 1 /\ entry = t
  IN /\ phase[c] = "releasing"
     /\ phase' = [phase EXCEPT ![c] = "gone"]
     /\ table' = [table EXCEPT ![t].holders = @ - 1,
                               ![t].alarm = IF alone THEN "none" ELSE @]
     /\ entry' = IF alone THEN 0 ELSE entry
     /\ got' = [got EXCEPT ![c] = <<>>]
     /\ cursor' = [cursor EXCEPT ![c] = 0]
     /\ tableOf' = [tableOf EXCEPT ![c] = 0]
     /\ open' = [open EXCEPT ![c] = FALSE]
     /\ UNCHANGED <<vars, hello, place, made, down>>

\* The window runs out; its callback now waits for exchange.
WindowFires(t, s) ==
  /\ table[t].holding[s] = "running"
  /\ s \notin table[t].ringing
  /\ table' = [table EXCEPT ![t].holding[s] = "fired", ![t].ringing = @ \cup {s}]
  /\ UNCHANGED <<vars, phase, hello, place, tableOf, open, got, cursor, entry, made, down>>

\* Mutant: the callback does not look whether the seat is still held.
WindowClosedBlindly(t, s) ==
  /\ s \in table[t].ringing
  /\ GiveBack(t, [table[t] EXCEPT !.ringing = @ \ {s}, !.holding[s] = "none"], s)
  /\ UNCHANGED <<phase, hello, place, tableOf, entry, made, down>>

\* Mutant: the seat is let go and the room is not told.
WindowClosedSilently(t, s) ==
  /\ s \in table[t].ringing
  /\ table' = [table EXCEPT ![t].ringing = @ \ {s}, ![t].holding[s] = "none"]
  /\ UNCHANGED <<vars, open, got, cursor, phase, hello, place, tableOf, entry, made, down>>

\* Server.windowClosed: nothing for a seat that is not held any more.
WindowClosed(t, s) ==
  LET tb == [table[t] EXCEPT !.ringing = @ \ {s}]
  IN /\ s \in table[t].ringing
     /\ \/ /\ tb.holding[s] = "none"
           /\ table' = [table EXCEPT ![t] = tb]
           /\ UNCHANGED <<vars, open, got, cursor>>
        \/ /\ tb.holding[s] # "none"
           /\ GiveBack(t, [tb EXCEPT !.holding[s] = "none"], s)
     /\ UNCHANGED <<phase, hello, place, tableOf, entry, made, down>>

-----------------------------------------------------------------------------
(* Stopping. *)

\* Server.stopping: the windows are stopped, and everybody is told and dropped.
Stopping ==
  /\ "shutdown" \in Timings
  /\ down = "up"
  /\ down' = "told"
  /\ IF entry = 0 THEN UNCHANGED <<table, open>>
     ELSE /\ open' = [c \in Conns |->
               /\ open[c]
               /\ c \notin table[entry].watchers
               /\ \A s \in Seat : table[entry].seats[s] # c]
          /\ table' = [table EXCEPT ![entry].holding = [s \in Seat |-> "none"],
                                    ![entry].watchers = {}]
  /\ UNCHANGED <<vars, phase, hello, place, tableOf, got, cursor, entry, made>>

\* Registry.CloseAll.
ClosedAll ==
  /\ down = "told"
  /\ down' = "closed"
  /\ UNCHANGED <<vars, phase, hello, place, tableOf, open, got, cursor, table, entry, made>>

\* Server.settling: no room and no table is left.
Returned ==
  /\ down = "closed"
  /\ entry = 0
  /\ down' = "returned"
  /\ UNCHANGED <<vars, phase, hello, place, tableOf, open, got, cursor, table, entry, made>>

Firsts ==
  { [watch |-> FALSE, token |-> k] : k \in 0..MaxTokens } \cup {[watch |-> TRUE, token |-> 0]}

TableNext ==
  \/ \E c \in Conns : \E first \in Firsts : Dial(c, first)
  \/ \E c \in Conns :
       \/ Refused(c) \/ Watch(c) \/ Sit(c) \/ Rejoin(c)
       \/ Act(c) \/ Chatter(c) \/ Overdue(c)
       \/ Lose(c) \/ Notice(c) \/ Part(c) \/ Release(c)
  \/ \E t \in Ids : Fire(t)
  \/ \E t \in Ids, s \in Seat : AllowanceOut(t, s) \/ WindowFires(t, s) \/ WindowClosed(t, s)
  \/ Stopping \/ ClosedAll \/ Returned

TableSpec == TableInit /\ [][TableNext]_tableVars

\* Timers fire, callbacks and departures get the lock, a dead socket is noticed,
\* a connection that said hello is answered, and a shutdown that began goes on.
\* No player has to act, to leave or to come back.
FairTableSpec ==
  /\ TableSpec
  /\ \A c \in Conns :
       /\ WF_tableVars(Refused(c) \/ Watch(c) \/ Sit(c) \/ Rejoin(c))
       /\ WF_tableVars(Notice(c))
       /\ WF_tableVars(Part(c))
       /\ WF_tableVars(Release(c))
  /\ \A t \in Ids : WF_tableVars(Fire(t))
  /\ \A t \in Ids, s \in Seat :
       /\ WF_tableVars(AllowanceOut(t, s))
       /\ WF_tableVars(WindowFires(t, s))
       /\ WF_tableVars(WindowClosed(t, s))
  /\ WF_tableVars(ClosedAll) /\ WF_tableVars(Returned)

-----------------------------------------------------------------------------
(* Properties. *)

Sits(c, s) == phase[c] = "pumping" /\ open[c] /\ place[c] = s

\* A seat the room holds for somebody is somebody's: a connection in it that has
\* not been given back, one on its way out that will give it back, or a window
\* that will.  A seat that is none of these stays taken for as long as the match.
\* (Left out: a returning player whose record could not be written.  Server.join
\* returns before the departure is deferred, so the table goes on naming them.)
SeatIsAccountedFor ==
  Known => \A s \in Seat : seated[s].taken =>
    \/ \E c \in Conns : place[c] = s /\ phase[c] \in {"pumping", "parting"}
    \/ \E t \in Ids : table[t].holding[s] = "running" \/ s \in table[t].ringing
    \/ \E t \in Ids, c \in Conns : table[t].seats[s] = c /\ phase[c] \in {"releasing", "gone"}

\* The one clock is on the seat the room is asking, for as long as anybody sits at
\* the table: armed for it, or run out and on its way to saying so.
ClockFollowsTheRoom ==
  down = "up" /\ entry # 0 =>
    /\ table[entry].alarm \in {"none", Awaiting}
    /\ Awaiting # "none" /\ (\E c \in Conns, s \in Seat : Sits(c, s)) =>
         table[entry].alarm = Awaiting \/ Awaiting \in table[entry].late

\* Nobody came back to this seat before the server missed their old socket.
Orderly(s) == \A t \in Ids : \A c \in table[t].early : place[c] # s

\* Whoever sits at the table has been written exactly what the room addressed to
\* their seat, in the order it said it, whether they were there or came back.
\* (Left out: a seat whose player was back too early.  The window their old socket
\* leaves behind may give the seat to somebody else, over whoever sits in it.)
SeatedSeeTheMatch ==
  \A c \in Conns, s \in Seat : Sits(c, s) =>
    got[c] = sent[s] \/ (~Orderly(s) /\ table[tableOf[c]].seats[s] # c)

\* Nothing the room records goes past a watcher it has let in: a watcher still at
\* the table holds the whole record, and the step that ends the match hands out
\* the last of it before it lets them go.
WatchersMissNothing ==
  [][\A t \in Ids : \A w \in table[t].watchers :
       got[w] = watched /\ got'[w] = watched']_tableVars

\* "Telling the room that seat left would end a match somebody is sitting in"
\* (Server.windowClosed): a player is reported gone only if no connection of
\* theirs is being read.  (Left out: the same seats.  Server.left opens a window for
\* a seat whose player is back in it.)
NobodySittingIsReported ==
  [][\A s \in Seat : result.departed = "none" /\ result'.departed = s /\ Orderly(s) =>
       ~\E c \in Conns : Sits(c, s)]_tableVars

\* Two players who sat down get a verdict through the transport's own timers and
\* callbacks, whoever goes silent, is dropped or answers late, while the host serves.
PlayersGetAVerdict == BothTaken ~> (Finished \/ down # "up")

\* Server.Shutdown: once no peer keeps a socket open of its own accord, every table
\* empties and a shutdown that began returns.
DrainedShutdownReturns ==
  <>[](\A c \in Conns : ~(phase[c] = "pumping" /\ open[c])) =>
    (down = "told" ~> down = "returned")

=============================================================================
