-------------------------------- MODULE Room --------------------------------
(***************************************************************************)
(* One room of internal/room: its gate, its two seats, the series of        *)
(* battles it runs and the record it keeps for watchers and returning       *)
(* players.  The room is one goroutine, so each input is one step.          *)
(*                                                                          *)
(* A battle is abstracted to what the room asks of it: after a decision, a  *)
(* number of turns pass unasked and then either the battle is over or one   *)
(* seat is asked.  An input the room refuses changes nothing and is the     *)
(* absence of a step.  A room that drafts holds a Draft of its own.         *)
(***************************************************************************)
EXTENDS Integers, Sequences, FiniteSets

CONSTANTS
  Battles,       \* best of one or best of three
  TurnCap,       \* turns a battle may take before the room stops it
  MaxSkips,      \* bound: turns in a row that pass without asking anybody
  MaxTokens,     \* bound: seats ever handed out
  DeciderHome,   \* whose board the odd battle is on, off the seed's low bit
  Drafts,        \* whether the room drafts
  IssuesTokens,  \* whether a seat can be proved and taken back
  Watchable      \* whether anybody may watch

CONSTANTS Pool, Names, Resolve, NoStage, Nobody, Cells, PicksPerSide, BansPerSide

\* Config.Validate, the opening of a battle asking somebody (the cap is far above the
\* turns that can pass before the first decision), and a format that fields somebody.
ASSUME RoomAssumption ==
  /\ Battles \in {1, 3}
  /\ TurnCap \in Nat \ {0}
  /\ MaxSkips \in Nat
  /\ MaxSkips < TurnCap
  /\ MaxTokens \in Nat
  /\ DeciderHome \in {"host", "guest"}
  /\ Drafts \in BOOLEAN
  /\ IssuesTokens \in BOOLEAN
  /\ Watchable \in BOOLEAN
  /\ PicksPerSide \in Nat \ {0}

VARIABLES
  seated,    \* who holds each seat
  played,    \* the battles that are over
  standing,  \* battles won by each seat
  result,    \* how the match ended
  fight,     \* a battle is open
  index,     \* which battle of the series it is, from one
  home,      \* the seat it is played from
  turns,     \* turns it has taken
  asked,     \* the seat whose prompt is open
  watched,   \* the record of everything a watcher is sent
  draftCursor, \* how much of the draft's record the seats were sent
  minted,    \* tokens handed out so far
  sent       \* history: what each seat was sent, refusals and welcomes aside

VARIABLES spent, taken, bans, picks, awaiting, pending, arranged, abandoned, entries

D == INSTANCE Draft WITH First <- "host"

match == <<seated, played, standing, result, fight, index, home, turns, asked, minted>>
logs == <<watched, sent, draftCursor>>
drafting == <<spent, taken, bans, picks, awaiting, pending, arranged, abandoned, entries>>
vars == <<match, logs, drafting>>

Seat == D!Seat
Other(seat) == D!Other(seat)

-----------------------------------------------------------------------------
(* What the room can be asked. *)

Empty == [taken |-> FALSE, token |-> 0, squad |-> "none"]

Finished == result.verdict # "unfinished"

BothTaken == \A s \in Seat : seated[s].taken

DraftOpen == Drafts /\ BothTaken /\ ~Finished /\ ~D!Done /\ ~D!Cancelled

\* Mutant: the question is read off the ban-and-pick's turn alone.
DraftAskingTurnOnly(seat) == \E step \in {"ban", "pick", "loadout"} : D!Due(seat, step)

\* Room.draftAsking: the draft is asking this seat for a decision.
DraftAsking(seat) ==
  \/ seat \in D!AwaitingArrangement
  \/ \E step \in {"ban", "pick", "loadout"} : D!Due(seat, step)

\* Room.Awaiting: the first seat of the open question, "none" when there is none.
DraftAwaiting ==
  IF DraftAsking("host") THEN "host"
  ELSE IF DraftAsking("guest") THEN "guest" ELSE "none"

Awaiting == IF DraftOpen THEN DraftAwaiting ELSE asked

FreeSeats == { s \in Seat : ~seated[s].taken }

\* Room.freeSeat: the host's seat first.
FreeSeat == IF "host" \in FreeSeats THEN "host" ELSE "guest"

\* Room.seatFor: the seats a token proves; no token proves none.
SeatsFor(token) == { s \in Seat : token # 0 /\ seated[s].taken /\ seated[s].token = token }

\* Config.HomeFor: the paired battles alternate from the host, the odd last one
\* is the seed's.
HomeFor(i) ==
  IF i \in 1..(2 * (Battles \div 2))
  THEN IF i % 2 = 1 THEN "host" ELSE "guest"
  ELSE DeciderHome

SideUnder(h, seat) == IF seat = h THEN "ally" ELSE "enemy"
SideOf(seat) == SideUnder(home, seat)

\* Mutant: the score is not looked at, so a decided series plays on.
SeriesOverPlayedOut(fought, wins) == Len(fought) >= Battles

SeriesOver(fought, wins) ==
  \/ Len(fought) >= Battles
  \/ \E s \in Seat : wins[s] > Battles \div 2

\* Room.leader: the seat ahead, "none" when they are level.
Leader(wins) ==
  IF wins["host"] > wins["guest"] THEN "host"
  ELSE IF wins["guest"] > wins["host"] THEN "guest" ELSE "none"

StartBody(i, side) == [kind |-> "start", battle |-> i, side |-> side]
TurnBody(i) == [kind |-> "turn", battle |-> i, side |-> "none"]
ClosedBody == [kind |-> "closed", battle |-> 0, side |-> "none"]
DraftedBody(n) == [kind |-> "drafted", battle |-> n, side |-> "none"]

Told(body) == [s \in Seat |-> Append(sent[s], body)]

\* Mutant: every seat is handed the recorded side, which is the host's.
ResumeUnsided(seat) == watched

\* Room.Resume: the record for a seat, each Start re-sided by the home there is.
Resume(seat) ==
  [i \in DOMAIN watched |->
     IF watched[i].kind = "start" THEN [watched[i] EXCEPT !.side = SideOf(seat)]
                                  ELSE watched[i]]

-----------------------------------------------------------------------------
(* The battle, as the room drives it. *)

\* Room.settle from t turns taken: what the battle comes to next.  A turn that
\* is skipped counts and is not measured against the cap; one that asks is.
Settlings(t) ==
  { [turns |-> t + k, asked |-> "none", capped |-> FALSE, winner |-> w] :
      k \in 0..MaxSkips, w \in Seat \cup {"none"} }
  \cup
  { [turns |-> t + k + 1, asked |-> s, capped |-> FALSE, winner |-> "none"] :
      k \in { n \in 0..MaxSkips : t + n + 1 <= TurnCap }, s \in Seat }
  \cup
  { [turns |-> t + k + 1, asked |-> "none", capped |-> TRUE, winner |-> "none"] :
      k \in { n \in 0..MaxSkips : t + n + 1 > TurnCap } }

Openings == { o \in Settlings(0) : o.asked # "none" }

\* Mutant: the record is kept from the home seat's half of the board.
BeginRecordedFromHome(i, told, record) ==
  \E o \in Openings :
    /\ fight' = TRUE
    /\ index' = i
    /\ home' = HomeFor(i)
    /\ turns' = o.turns
    /\ asked' = o.asked
    /\ sent' = [s \in Seat |-> Append(told[s], StartBody(i, SideUnder(HomeFor(i), s)))]
    /\ watched' = Append(record, StartBody(i, "ally"))

\* Room.begin: battle i opens, told and recorded on top of what already was.
Begin(i, told, record) ==
  \E o \in Openings :
    /\ fight' = TRUE
    /\ index' = i
    /\ home' = HomeFor(i)
    /\ turns' = o.turns
    /\ asked' = o.asked
    /\ sent' = [s \in Seat |-> Append(told[s], StartBody(i, SideUnder(HomeFor(i), s)))]
    /\ watched' = Append(record, StartBody(i, SideUnder(HomeFor(i), "host")))

\* Room.close: a battle is over, and the series is over or goes on.
Close(o, told, record) ==
  LET fought == Append(played, [battle |-> index, home |-> home,
                                winner |-> o.winner, capped |-> o.capped])
      wins == [s \in Seat |-> standing[s] + IF s = o.winner THEN 1 ELSE 0]
  IN
  /\ played' = fought
  /\ standing' = wins
  /\ \/ /\ SeriesOver(fought, wins)
        /\ result' = [verdict |-> IF Leader(wins) = "none" THEN "drawn" ELSE "won",
                      winner |-> Leader(wins), departed |-> "none"]
        /\ fight' = FALSE
        /\ asked' = "none"
        /\ turns' = o.turns
        /\ sent' = told
        /\ watched' = record
        /\ UNCHANGED <<seated, index, home, draftCursor, drafting>>
     \/ /\ ~SeriesOver(fought, wins)
        /\ Drafts
        /\ D!Renew
        /\ draftCursor' = 0
        /\ seated' = [s \in Seat |-> [seated[s] EXCEPT !.squad = "none"]]
        /\ fight' = FALSE
        /\ asked' = "none"
        /\ turns' = o.turns
        /\ sent' = told
        /\ watched' = record
        /\ UNCHANGED <<result, index, home>>
     \/ /\ ~SeriesOver(fought, wins)
        /\ ~Drafts
        /\ Begin(index + 1, told, record)
        /\ UNCHANGED <<seated, result, draftCursor, drafting>>

\* Room.resolved: a decision was taken, the battle settles, both seats and the
\* record are told, and a battle that is over is closed.
Resolved ==
  LET told == Told(TurnBody(index))
      record == Append(watched, TurnBody(index))
  IN \E o \in Settlings(turns) :
       \/ /\ o.asked # "none"
          /\ turns' = o.turns
          /\ asked' = o.asked
          /\ sent' = told
          /\ watched' = record
          /\ UNCHANGED <<seated, played, standing, result, fight, index, home,
                         draftCursor, drafting>>
       \/ /\ o.asked = "none"
          /\ Close(o, told, record)

-----------------------------------------------------------------------------
(* The inputs. *)

Hellos ==
  [version : BOOLEAN, password : BOOLEAN, watch : BOOLEAN, token : 0..MaxTokens,
   squad : {"none", "fieldable", "unfieldable"}]

\* Room.Join's answer to a hello, in the order the gate asks.
Gate(hello) ==
  IF ~hello.version THEN "version"
  ELSE IF ~hello.password THEN "password"
  ELSE IF hello.watch THEN (IF Watchable THEN "watching" ELSE "watching_closed")
  ELSE IF SeatsFor(hello.token) # {} THEN "rejoined"
  ELSE IF FreeSeats = {} THEN "full"
  ELSE IF Drafts /\ hello.squad # "none" THEN "squad_unwanted"
  ELSE IF ~Drafts /\ hello.squad # "fieldable" THEN "squad_refused"
  ELSE "seated"

\* A hello that is seated; the second opens the match.  A hello that watches or
\* takes its own seat back changes nothing in the room.
Join(hello) ==
  /\ minted < MaxTokens
  /\ Gate(hello) = "seated"
  /\ minted' = minted + 1
  /\ seated' = [seated EXCEPT ![FreeSeat] =
       [taken |-> TRUE,
        token |-> IF IssuesTokens THEN minted + 1 ELSE 0,
        squad |-> IF Drafts THEN "none" ELSE "ready"]]
  /\ IF Cardinality(FreeSeats) = 1 /\ ~Drafts
     THEN Begin(1, sent, watched)
     ELSE UNCHANGED <<fight, index, home, turns, asked, sent, watched>>
  /\ UNCHANGED <<played, standing, result, draftCursor, drafting>>

\* Room.answerFrom and Room.passFrom: an act the engine took, or a pass.
Answer(seat) ==
  /\ seated[seat].taken
  /\ asked = seat
  /\ Resolved
  /\ UNCHANGED minted

\* Room.decideFrom and Room.draftAdvanced: what the decision recorded goes to
\* both, and a draft that is done becomes the battle.
Decide(seat, decision) ==
  /\ seated[seat].taken
  /\ DraftOpen
  /\ decision.step # "timeout"
  /\ decision.seat = seat
  /\ DraftAsking(seat)
  /\ D!Apply(decision)
  /\ draftCursor' = Len(entries')
  /\ LET told == IF Len(entries') > draftCursor
                 THEN Told(DraftedBody(Len(entries') - draftCursor)) ELSE sent
     IN IF D!Done'
        THEN /\ seated' = [s \in Seat |-> [seated[s] EXCEPT !.squad = "ready"]]
             /\ Begin(index + 1, told, watched)
        ELSE /\ sent' = told
             /\ UNCHANGED <<seated, fight, index, home, turns, asked, watched>>
  /\ UNCHANGED <<played, standing, result, minted>>

\* Room.TimedOut in a draft, which ends the match: both are told, nobody left.
DraftTimedOut(seat) ==
  /\ seated[seat].taken
  /\ DraftOpen
  /\ D!TimedOut(seat)
  /\ result' = [verdict |-> "abandoned", winner |-> "none", departed |-> "none"]
  /\ sent' = Told(ClosedBody)
  /\ UNCHANGED <<seated, played, standing, fight, index, home, turns, asked, minted,
                 watched, draftCursor>>

\* Room.TimedOut in a battle, which passes the open turn.
TurnTimedOut(seat) ==
  /\ seated[seat].taken
  /\ ~DraftOpen
  /\ asked = seat
  /\ Resolved
  /\ UNCHANGED minted

TimedOut(seat) == DraftTimedOut(seat) \/ TurnTimedOut(seat)

\* Mutant: leaving during the draft frees the seat like leaving the lobby does.
LeftFreesMidDraft(seat) ==
  /\ seated[seat].taken
  /\ ~Finished
  /\ ~fight
  /\ played = <<>>
  /\ seated' = [seated EXCEPT ![seat] = Empty]
  /\ UNCHANGED <<played, standing, result, fight, index, home, turns, asked, minted,
                 logs, drafting>>

\* Room.Left: a seat nothing has begun for is given up, any other departure ends
\* the match and tells the seat that stayed (and whoever watches) so.
Left(seat) ==
  /\ seated[seat].taken
  /\ ~Finished
  /\ \/ /\ ~DraftOpen /\ ~fight /\ played = <<>>
        /\ seated' = [seated EXCEPT ![seat] = Empty]
        /\ UNCHANGED <<result, fight, asked, sent, watched>>
     \/ /\ DraftOpen \/ fight \/ played # <<>>
        /\ result' = [verdict |-> "abandoned", winner |-> "none", departed |-> seat]
        /\ fight' = FALSE
        /\ asked' = "none"
        /\ sent' = [sent EXCEPT ![Other(seat)] = Append(@, ClosedBody)]
        /\ watched' = Append(watched, ClosedBody)
        /\ UNCHANGED seated
  /\ UNCHANGED <<played, standing, index, home, turns, minted, draftCursor, drafting>>

Init ==
  /\ seated = [s \in Seat |-> Empty]
  /\ played = <<>>
  /\ standing = [s \in Seat |-> 0]
  /\ result = [verdict |-> "unfinished", winner |-> "none", departed |-> "none"]
  /\ fight = FALSE
  /\ index = 0
  /\ home = "none"
  /\ turns = 0
  /\ asked = "none"
  /\ watched = <<>>
  /\ draftCursor = 0
  /\ minted = 0
  /\ sent = [s \in Seat |-> <<>>]
  /\ D!Init

Decisions(seat) ==
  { D!Entry(seat, "ban", c) : c \in Pool \cup {Nobody} }
  \cup { D!Entry(seat, "pick", c) : c \in Pool }
  \cup { D!Entry(seat, "loadout", n) : n \in Names }
  \cup { D!Entry(seat, "arrange", a) : a \in D!Arrangements }

Next ==
  \/ \E hello \in Hellos : Join(hello)
  \/ \E seat \in Seat :
       \/ Answer(seat)
       \/ \E decision \in Decisions(seat) : Decide(seat, decision)
       \/ DraftTimedOut(seat)
       \/ TurnTimedOut(seat)
       \/ Left(seat)

Spec == Init /\ [][Next]_vars

\* The transport runs an allowance for the seat the room is waiting on; nothing
\* else is owed, neither an answer nor a second player.
ClockSpec == Spec /\ WF_vars(\E seat \in Seat : TimedOut(seat))

-----------------------------------------------------------------------------
(* Properties. *)

Body == [kind : {"start", "turn", "closed", "drafted"}, battle : Nat,
         side : {"ally", "enemy", "none"}]

BattleResult == [battle : Nat, home : Seat, winner : Seat \cup {"none"}, capped : BOOLEAN]

\* Every variable of the room holds a value of its own kind.
TypeOK ==
  /\ seated \in [Seat -> [taken : BOOLEAN, token : Nat, squad : {"none", "ready"}]]
  /\ played \in Seq(BattleResult)
  /\ standing \in [Seat -> Nat]
  /\ result \in [verdict : {"unfinished", "won", "drawn", "abandoned"},
                 winner : Seat \cup {"none"}, departed : Seat \cup {"none"}]
  /\ fight \in BOOLEAN
  /\ index \in 0..Battles
  /\ home \in Seat \cup {"none"}
  /\ turns \in Nat
  /\ asked \in Seat \cup {"none"}
  /\ watched \in Seq(Body)
  /\ draftCursor \in Nat
  /\ minted \in 0..MaxTokens
  /\ sent \in [Seat -> Seq(Body)]

\* A room with both seats taken is waiting on somebody until it is finished, and
\* a room that is finished or short of a player waits on nobody: there is no
\* state in which both players sit and nobody's clock runs.
NeverStuck == (Awaiting # "none") <=> (BothTaken /\ ~Finished)

\* One question at a time: a prompt is open only inside a battle between two
\* fielded squads, and never while the draft is asking.
OneQuestion ==
  asked # "none" =>
    /\ fight /\ ~DraftOpen /\ ~Finished
    /\ \A s \in Seat : seated[s].taken /\ seated[s].squad = "ready"

\* The verdict is the score's: who won is ahead, by a majority or at the end; a
\* draw is level at the end; and only a match nobody finished is abandoned.
VerdictIsTheScore ==
  /\ \A s \in Seat :
       standing[s] = Cardinality({ i \in DOMAIN played : played[i].winner = s })
  /\ result.verdict = "won" =>
       /\ standing[result.winner] > standing[Other(result.winner)]
       /\ Len(played) = Battles \/ standing[result.winner] > Battles \div 2
  /\ result.verdict = "drawn" =>
       standing["host"] = standing["guest"] /\ Len(played) = Battles
  /\ result.verdict \in {"unfinished", "abandoned"} =>
       Len(played) < Battles /\ \A s \in Seat : standing[s] <= Battles \div 2

IsBoardBody(body) == body.kind \in {"start", "turn"}

\* The starts and turns of a record, each with its place among them.
BoardPlaces(record, i) == { j \in 1..i : IsBoardBody(record[j]) }
OnTheBoard(record) ==
  { <<Cardinality(BoardPlaces(record, i)), record[i]>> : i \in BoardPlaces(record, Len(record)) }

\* A watcher's record is what the host's seat was sent of the battles, body for
\* body and in order: whoever reads the record sees the same match.
RecordIsTheMatch == OnTheBoard(watched) = OnTheBoard(sent["host"])

\* From the first question on nobody else sits down and nobody gets up: the two
\* seats keep their holders, whatever is left, dropped or redrafted.
SeatsKeepTheirHolders ==
  [][BothTaken => \A s \in Seat :
       seated'[s].taken = seated[s].taken /\ seated'[s].token = seated[s].token]_vars

\* A finished room stays finished, and a series that is decided opens no battle.
FinishedIsFinished ==
  [][/\ Finished => UNCHANGED <<played, standing, result, fight, index, asked, watched>>
     /\ index' # index =>
          /\ index' = index + 1
          /\ ~SeriesOver(played', standing')]_vars

\* The match the players were promised, read off the room.
Phase == IF Finished THEN "over" ELSE IF BothTaken THEN "playing" ELSE "gathering"

M == INSTANCE Match WITH Player <- Seat, phase <- Phase, wins <- standing,
                         fought <- Len(played), verdict <- result.verdict

\* The room implements Match: every step of it opens the match, finishes one
\* battle of it, abandons it, or changes nothing of it.
MatchSpec == M!Spec

\* With the clock running, two players who sat down get a verdict: no draft,
\* battle or series goes on for ever, whoever goes silent.
EveryMatchEnds == BothTaken ~> Finished

=============================================================================
