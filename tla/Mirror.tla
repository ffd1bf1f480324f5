------------------------------- MODULE Mirror -------------------------------
(***************************************************************************)
(* The client of internal/socket beside the room it plays in: Client.Play's  *)
(* loop and the mirror it steps, against Room's messages in flight.         *)
(*                                                                          *)
(* The mirror is told decisions and computes the rest.  Its engine is the   *)
(* room's, so a decision in flight carries what it comes to, and what the   *)
(* mirror makes of that - its own tally of turns and battles, its own       *)
(* verdict, its own draft - is modelled here.  One client is followed; the  *)
(* other seat's player does whatever the room lets them do.                 *)
(***************************************************************************)
EXTENDS Room

CONSTANTS
  Returns,   \* bound: times the client's connection drops and is dialled again
  Window     \* bound: news in flight to a client that is slow to read

ASSUME MirrorAssumption == Returns \in Nat /\ Window \in Nat

VARIABLES
  link,      \* "away", "joined", "lost" (the socket dropped) or "left" (Play returned)
  me,        \* the seat Welcome named, "none" before it
  down,      \* bodies on their way to the client
  up,        \* its answers on their way to the room
  choosing,  \* what its chooser is busy with: "nothing", "draft" or "turn"
  board,     \* the mirror's battle: its prompt, side, number and turns
  fought,    \* the battles the mirror has settled
  closure,   \* a wire.Closed has arrived
  failed     \* why Play returned an error, "no" when it has not

\* The mirror's own draft, stepped by the decisions it is sent.
VARIABLES mSpent, mTaken, mBans, mPicks, mAwaiting, mPending, mArranged, mAbandoned, mEntries

MD == INSTANCE Draft WITH First <- "host", spent <- mSpent, taken <- mTaken, bans <- mBans,
        picks <- mPicks, awaiting <- mAwaiting, pending <- mPending, arranged <- mArranged,
        abandoned <- mAbandoned, entries <- mEntries

\* History: what each body of the record came to (kept while the client may still need
\* it), how often the client came back and
\* during which battle, and how much was recorded when a prompt of its was last passed.
VARIABLES course, back, forced

mirrorDraft == <<mSpent, mTaken, mBans, mPicks, mAwaiting, mPending, mArranged, mAbandoned,
                 mEntries>>
client == <<link, me, down, up, choosing, board, fought, closure, failed>>
history == <<course, back, forced>>
mirrorVars == <<vars, client, mirrorDraft, history>>

-----------------------------------------------------------------------------
(* The bodies in flight. *)

Blank == [kind |-> "none", battle |-> 0, side |-> "none", walked |-> 0, asks |-> "none",
          over |-> FALSE, winner |-> "none", entry |-> <<>>, more |-> FALSE]

Half(seat, h) == IF seat = "none" THEN "none" ELSE SideUnder(h, seat)

Opened(side) == [Blank EXCEPT !.kind = "start", !.battle = index', !.side = side,
                              !.walked = turns', !.asks = Half(asked', home')]

\* The settlings of this step's battle that agree with what the room wrote down.
Ended ==
  { o \in Settlings(turns) :
      /\ o.asked = "none"
      /\ o.capped = played'[Len(played')].capped
      /\ o.winner = played'[Len(played')].winner
      /\ index' = index => o.turns = turns' }

\* What the decision this step took comes to on the board: the turns that opened
\* behind it, the half that is asked then (nobody reads it past the cap), and how the
\* battle ended.
CameTo ==
  IF played' = played
  THEN {[Blank EXCEPT !.kind = "turn", !.battle = index, !.walked = turns' - turns,
                      !.asks = Half(asked', home)]}
  ELSE { [Blank EXCEPT !.kind = "turn", !.battle = index, !.walked = o.turns - turns,
                       !.over = ~o.capped, !.winner = Half(o.winner, home)] : o \in Ended }

\* Mutant: of a batch only the last decision is written out.
DecidedLast(n) == <<[Blank EXCEPT !.kind = "drafted", !.entry = entries'[Len(entries')]]>>

\* The draft's batch, an entry at a time: the mirror is locked for the whole of it.
Decided(n) ==
  [i \in 1..n |-> [Blank EXCEPT !.kind = "drafted", !.more = i < n,
                                !.entry = entries'[Len(entries') - n + i]]]

\* A body the room wrote, with what it comes to.
Filled(body, came) ==
  CASE body.kind = "start" -> <<Opened(body.side)>>
    [] body.kind = "turn" -> <<came>>
    [] body.kind = "drafted" -> Decided(body.battle)
    [] OTHER -> <<[Blank EXCEPT !.kind = "closed"]>>

\* What this step of the room wrote to a seat: nothing, a decision, what opened behind
\* it, or both.
Written(seat, came) ==
  LET news == SubSeq(sent'[seat], Len(sent[seat]) + 1, Len(sent'[seat]))
  IN IF news = <<>> THEN <<>>
     ELSE IF Len(news) = 1 THEN Filled(news[1], came)
     ELSE Filled(news[1], came) \o Filled(news[2], came)

\* Room.Resume for the client: the record as it is, each Start re-sided.
Resumed ==
  [i \in DOMAIN course |->
     IF course[i].kind = "start" THEN [course[i] EXCEPT !.side = SideOf(me)] ELSE course[i]]

\* A step of the room goes into the record and on its way to the client.
Sends ==
  \E came \in CameTo :
    /\ course' = IF back.times = Returns THEN <<>>
                 ELSE LET news == SubSeq(watched', Len(watched) + 1, Len(watched'))
                      IN course \o [i \in DOMAIN news |-> Head(Filled(news[i], came))]
    /\ down' = IF link' = "joined" THEN down \o Written(me', came) ELSE down
    /\ Cardinality({ i \in DOMAIN down : down[i].kind # "refused" }) < Window

-----------------------------------------------------------------------------
(* The mirror. *)

NoBoard == [open |-> FALSE, prompt |-> "none", side |-> "none", index |-> 0, turns |-> 0,
            capped |-> FALSE, read |-> 0]

\* A battle the client won from its half, and one it lost.
Mine(one) == one.winner # "none" /\ one.winner = one.side
Theirs(one) == one.winner # "none" /\ one.winner # one.side

Count(list, Test(_)) == Cardinality({ i \in DOMAIN list : Test(list[i]) })

\* Mirror.over's arithmetic: every battle fought, or a side past taking back.
OverBy(list) ==
  \/ Len(list) >= Battles
  \/ Count(list, Mine) > Battles \div 2
  \/ Count(list, Theirs) > Battles \div 2

MirrorOver == closure \/ OverBy(fought)

\* Mirror.asking: the open prompt is a unit's on the client's own half.
Asking == board.open /\ board.prompt # "none" /\ ~board.capped /\ board.prompt = board.side

\* Mirror.draftAsking: by the mirror's own draft, if it has one.
DraftAsksMe ==
  /\ Drafts
  /\ \/ me \in MD!AwaitingArrangement
     \/ \E step \in {"ban", "pick", "loadout"} : MD!Due(me, step)

\* Client.answer: the draft is asked about first.
Question(draftAsks, turnAsks) ==
  IF draftAsks THEN "draft" ELSE IF turnAsks THEN "turn" ELSE "nothing"

\* What Play does behind a body it took: it is done, or it answers if it is asked.
Stepped ==
  IF MirrorOver'
  THEN /\ link' = "left"
       /\ choosing' = "nothing"
  ELSE /\ choosing' = Question(DraftAsksMe', Asking')
       /\ UNCHANGED link

Fails(why) ==
  /\ failed' = why
  /\ link' = "left"
  /\ choosing' = "nothing"
  /\ UNCHANGED <<board, fought, closure, mirrorDraft>>

\* Mirror.open: a new battle in the place of whatever was there.
Start(body) ==
  /\ body.kind = "start"
  /\ board' = [open |-> TRUE, prompt |-> body.asks, side |-> body.side, index |-> body.battle,
               turns |-> body.walked, capped |-> body.walked > TurnCap,
               read |-> board.read + 1]
  /\ UNCHANGED <<fought, closure, mirrorDraft, failed>>
  /\ Stepped

\* Mirror.limit: a replay takes the decision and walks the turns behind it, TurnCap
\* steps in all; a longer run of skipped turns is cut, and the digests differ.
Cut(body) == 1 + body.walked > TurnCap

\* Mutant: a battle nobody won is fought again with the squads it had.
SettledUnlessDrawn(ahead, list, one) ==
  /\ fought' = Append(list, one)
  /\ board' = [ahead EXCEPT !.prompt = "none"]
  /\ IF Drafts /\ one.winner # "none" /\ ~OverBy(fought') THEN MD!Renew
     ELSE UNCHANGED mirrorDraft

\* Mirror.settled: the battle goes on the list, and a series that goes on drafts again.
Settle(ahead, list, one) ==
  /\ fought' = Append(list, one)
  /\ board' = [ahead EXCEPT !.prompt = "none"]
  /\ IF Drafts /\ ~OverBy(fought') THEN MD!Renew ELSE UNCHANGED mirrorDraft

\* Mutant: the cap the welcome named is not looked at.
CapOfNoOne(turnsTaken) == FALSE

\* Mirror.count: past the cap the mirror stops where the room does.
CapOf(turnsTaken) == turnsTaken > TurnCap

\* Mirror.apply: the decision replayed, its events compared.
Turn(body) ==
  LET total == board.turns + body.walked
      ahead == [board EXCEPT !.turns = total, !.prompt = body.asks, !.read = board.read + 1,
                             !.capped = board.capped \/ CapOf(total)]
  IN /\ body.kind = "turn"
     /\ IF ~board.open THEN Fails("no battle open")
        ELSE IF Cut(body) THEN Fails("diverged")
        ELSE /\ UNCHANGED <<closure, failed>>
             /\ IF body.over \/ ahead.capped
                THEN Settle(ahead, fought, [battle |-> board.index, side |-> board.side,
                                            winner |-> body.winner])
                ELSE board' = ahead /\ UNCHANGED <<fought, mirrorDraft>>
             /\ Stepped

\* Mirror.drafted: each entry through the draft's own decisions.
Drafted(body) ==
  /\ body.kind = "drafted"
  /\ IF ~MD!Acceptable(body.entry) THEN Fails("entry refused")
     ELSE /\ MD!Apply(body.entry)
          /\ UNCHANGED <<board, fought, closure, failed>>
          /\ IF body.more THEN choosing' = "nothing" /\ UNCHANGED link ELSE Stepped

\* Mirror.closed.
Closed(body) ==
  /\ body.kind = "closed"
  /\ closure' = TRUE
  /\ board' = [board EXCEPT !.open = FALSE, !.prompt = "none"]
  /\ UNCHANGED <<fought, failed, mirrorDraft>>
  /\ Stepped

\* Mirror.refused: written down, and the client is where it was.
Refusal(body) ==
  /\ body.kind = "refused"
  /\ UNCHANGED <<board, fought, closure, failed, mirrorDraft>>
  /\ Stepped

-----------------------------------------------------------------------------
(* Client.Play. *)

\* An act says neither whose turn it is nor which; `for` is a history field, how
\* much of the record the client had read when it chose.
Act == [act |-> TRUE, for |-> board.read, what |-> <<>>]
Decision(d) == [act |-> FALSE, for |-> 0, what |-> d]

\* One body is read and given to the mirror; the next is not read while the
\* chooser is busy.
Receive ==
  /\ link = "joined" /\ choosing = "nothing" /\ down # <<>>
  /\ UNCHANGED <<vars, me, up, history>>
  /\ LET body == Head(down) IN
       Start(body) \/ Turn(body) \/ Drafted(body) \/ Closed(body) \/ Refusal(body)
  /\ down' = Tail(down)

\* Mutant: the answer is sent a second time.
ChooseTwice ==
  /\ link = "joined" /\ choosing = "turn"
  /\ up' = up \o <<Act, Act>>
  /\ choosing' = "nothing"
  /\ UNCHANGED <<vars, link, me, down, board, fought, closure, failed, mirrorDraft, history>>

\* The chooser comes back, and what it chose is sent and applied to nothing here.
Choose ==
  /\ link = "joined"
  /\ \/ choosing = "turn" /\ up' = Append(up, Act)
     \/ /\ choosing = "draft"
        /\ \E d \in Decisions(me) : MD!Acceptable(d) /\ up' = Append(up, Decision(d))
  /\ choosing' = "nothing"
  /\ UNCHANGED <<vars, link, me, down, board, fought, closure, failed, mirrorDraft, history>>

\* Client.Dial: the welcome is a mirror's first body, and Play asks it before it
\* reads anything, since a draft opens with no message of its own.
NewMirror ==
  /\ link' = "joined"
  /\ board' = NoBoard
  /\ fought' = <<>>
  /\ closure' = FALSE
  /\ MD!Renew
  /\ choosing' = Question(DraftAsksMe', FALSE)
  /\ UNCHANGED failed

Greeting == [version |-> TRUE, password |-> TRUE, watch |-> FALSE, token |-> 0,
             squad |-> IF Drafts THEN "none" ELSE "fieldable"]

Enter ==
  /\ link = "away"
  /\ Join(Greeting)
  /\ me' = FreeSeat
  /\ NewMirror
  /\ Sends
  /\ UNCHANGED <<up, back, forced>>

\* The socket dies.  The room may still read what was sent before it did.
Drop ==
  /\ link = "joined" /\ back.times < Returns
  /\ link' = "lost"
  /\ down' = <<>>
  /\ \E n \in 0..Len(up) : up' = SubSeq(up, 1, n)
  /\ choosing' = "nothing"
  /\ UNCHANGED <<vars, me, board, fought, closure, failed, mirrorDraft, history>>

\* The client dials with its token and is handed the record, behind a fresh mirror.
Return ==
  /\ link = "lost" /\ IssuesTokens /\ seated[me].taken /\ ~Finished
  /\ UNCHANGED <<vars, me, course, forced>>
  /\ NewMirror
  /\ down' = Resumed
  /\ up' = <<>>
  /\ back' = [times |-> back.times + 1, during |-> index]

-----------------------------------------------------------------------------
(* The room's side, and the other player. *)

Refused == [Blank EXCEPT !.kind = "refused"]

Answered(body) == down' = IF link = "joined" THEN Append(down, body) ELSE down

Stays == UNCHANGED <<link, me, choosing, board, fought, closure, failed, mirrorDraft>>

\* Room.Deliver of the client's oldest answer.  An act is the engine's to refuse if
\* it was chosen for another prompt; a room that has gone hears nothing.
Deliver ==
  /\ up # <<>>
  /\ up' = Tail(up)
  /\ Stays
  /\ LET said == Head(up) IN
     \/ Finished /\ UNCHANGED <<vars, down, course>>
     \/ said.act /\ Answer(me) /\ Sends
     \/ /\ ~Finished /\ said.act /\ (asked # me \/ said.for # Len(watched))
        /\ Answered(Refused) /\ UNCHANGED <<vars, course>>
     \/ ~said.act /\ Decide(me, said.what) /\ Sends
     \/ /\ ~Finished /\ ~said.act /\ ~(DraftOpen /\ D!Acceptable(said.what))
        /\ Answered(Refused) /\ UNCHANGED <<vars, course>>
  /\ UNCHANGED <<back, forced>>

\* The room passes an open turn, or gives up a draft, for a seat that took too long.
Clock(seat) ==
  /\ TimedOut(seat)
  /\ Stays
  /\ Sends
  /\ forced' = (forced \/ seat = me)
  /\ UNCHANGED <<up, back>>

\* The other player sits down, answers, decides, and leaves.
Opponent ==
  /\ \/ Join(Greeting) /\ (\A s \in Seat : seated[s].taken => s = me)
     \/ \E s \in Seat \ {me} :
          Answer(s) \/ Left(s) \/ \E d \in Decisions(s) : Decide(s, d)
  /\ Stays
  /\ Sends
  /\ UNCHANGED <<up, back, forced>>

\* The window the client's seat was held for runs out: it has no seat to come back to.
Missed ==
  /\ link \in {"lost", "left"}
  /\ Left(me)
  /\ link' = "left"
  /\ Sends
  /\ UNCHANGED <<up, back, forced, me, choosing, board, fought, closure, failed, mirrorDraft>>

MirrorInit ==
  /\ Init
  /\ link = "away" /\ me = "none" /\ down = <<>> /\ up = <<>> /\ choosing = "nothing"
  /\ board = NoBoard /\ fought = <<>> /\ closure = FALSE /\ failed = "no"
  /\ MD!Init
  /\ course = <<>> /\ back = [times |-> 0, during |-> 0] /\ forced = FALSE

MirrorNext ==
  \/ Enter \/ Receive \/ Choose \/ Drop \/ Return \/ Deliver \/ Opponent \/ Missed
  \/ \E seat \in Seat : Clock(seat)

MirrorSpec == MirrorInit /\ [][MirrorNext]_mirrorVars

\* The transport's clock and its delivery, the client's read loop, and a chooser
\* that comes back.  Nobody has to sit down, return or play.
FairMirrorSpec ==
  /\ MirrorSpec
  /\ WF_mirrorVars(\E seat \in Seat : Clock(seat))
  /\ WF_mirrorVars(Receive) /\ WF_mirrorVars(Choose)

-----------------------------------------------------------------------------
(* Properties. *)

\* The client did not come back from outside what a record gives back: a draft, or
\* a battle behind one fought from the other half (see README, section 5).
Sound == back.times = 0 \/ (~Drafts /\ back.during <= 1)

\* It plays, and has read everything written to it.
Current == link = "joined" /\ down = <<>> /\ Sound

\* Nothing on the wire says whose turn it is, how a battle ended or who leads: a
\* client that has read what it was written has worked out exactly what the room
\* knows - who is asked, from which half, which battles were won by whom, and
\* that the match goes on.
MirrorInStep ==
  Current =>
    /\ Asking <=> asked = me
    /\ asked = me => choosing = "turn" \/ \E i \in DOMAIN up : up[i].act
    /\ ~Finished
    /\ Len(fought) = Len(played)
    /\ \A i \in DOMAIN fought :
         /\ Mine(fought[i]) <=> played[i].winner = me
         /\ Theirs(fought[i]) <=> played[i].winner = Other(me)
    /\ fight => board.index = index /\ board.side = SideOf(me)

\* The draft it computes is the room's, decision for decision, and it asks whom
\* the room asks; only an arrangement the room keeps back is missing.
DraftInStep ==
  Current /\ Drafts =>
    /\ mEntries = entries
    /\ DraftOpen => (DraftAsksMe <=> DraftAsking(me) \/ D!Arranging)
    /\ ~DraftOpen /\ BothTaken => ~DraftAsksMe

\* "At most one of the two is ever open" (Client.answer): a client that is asked a
\* draft decision is not being asked for a turn, so asking about the draft first
\* keeps no turn waiting.
OneQuestionAtATime == ~(DraftAsksMe /\ Asking)

\* An act names no turn.  As long as the clock has passed none of its prompts and it
\* has not come back, the client's act is taken for the prompt it was chosen for.
ActsAnswerTheirPrompt ==
  [][(up # <<>> /\ Head(up).act /\ up' = Tail(up) /\ watched' # watched /\ ~forced'
      /\ back.times = 0) => Head(up).for = Len(watched)]_mirrorVars

\* A seated client whose chooser comes back sees its match end by its own
\* arithmetic, whatever the other player does: it is never left waiting for a
\* message the room does not send.
ClientSeesTheEnd ==
  (BothTaken /\ link = "joined" /\ Sound) ~> (link # "joined" \/ ~Sound)

=============================================================================
