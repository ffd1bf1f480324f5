------------------------------- MODULE Client -------------------------------
(***************************************************************************)
(* The terminal client, cmd/hexarena-tui: bubbletea's update loop, the      *)
(* session that stands between it and a match, the goroutine a dial runs on *)
(* and the goroutine socket.Client.Play runs on.                            *)
(*                                                                          *)
(* The loop takes one message at a time off an unbuffered channel, so a     *)
(* Send is a rendezvous with an idle loop.  Play steps the mirror, tells    *)
(* the loop, and blocks in a chooser for a keystroke; the loop re-reads the *)
(* mirror under its lock.  The room is whatever sends the bodies: a draft,  *)
(* battles of turns, refusals, an ending, a socket that dies.               *)
(***************************************************************************)
EXTENDS Naturals, Sequences, FiniteSets

CONSTANTS
  Drafted,   \* whether the room drafts each battle
  Tokens,    \* whether the room hands out seat tokens
  Allowance, \* whether the welcome names an allowance
  Battles,   \* battles in the series
  Turns,     \* bound: turns of a battle
  Picks,     \* decisions a draft records before its arrangements
  Dials,     \* bound: rooms dialled
  Redials,   \* bound: times a match's socket is dialled again
  Patient,   \* the reader waits for one match to be gone before dialling another
  Offered    \* the entries of the menu the reader uses

ASSUME ClientAssumption ==
  /\ Drafted \in BOOLEAN /\ Tokens \in BOOLEAN /\ Allowance \in BOOLEAN
  /\ Patient \in BOOLEAN /\ Picks \in Nat \ {0} /\ Battles \in Nat \ {0}
  /\ Turns \in Nat \ {0} /\ Dials \in Nat /\ Redials \in Nat

Match == 1..Dials   \* a dial, the Play goroutine it starts, and the session it opened

VARIABLES
  ui,         \* the loop: "idle", "told" to redraw, or "reading" the mirror under its lock
  screen, raisedFrom, raisedOver, picker,
  battle,     \* the battle screen: draw.PlayScreen
  drafting,   \* the last reading the draft and arrange screens were given
  dialling    \* the join screen is waiting for a dial

VARIABLES
  session,    \* the session's client, whether it was left, its current opening
  cancelled, answers, decisions,   \* each opening's context and its two slots
  dial,       \* each dial's goroutine
  play,       \* each Play goroutine: where it is, and the openings it captured
  mirror      \* what each client's mirror has worked out

\* History: whether the last answer pressed found its slot full and was dropped.
VARIABLE dropped

model == <<ui, screen, raisedFrom, raisedOver, picker, battle, drafting, dialling>>
shared == <<session, cancelled, answers, decisions>>
vars == <<model, shared, dial, play, mirror, dropped>>

-----------------------------------------------------------------------------
(* The mirror, as the client sees it stepped. *)

\* A mirror behind its welcome: a room that drafts is drafting at once.
Welcomed(life, due) ==
  [life |-> life, battle |-> 0, open |-> FALSE, turn |-> 0, prompt |-> 0,
   draft |-> IF Drafted THEN "open" ELSE "none", due |-> Drafted /\ due, recorded |-> 0,
   again |-> FALSE, over |-> FALSE]

\* A turn is opened, the client's own or the opponent's.
TurnOf(m, number) ==
  { [m EXCEPT !.turn = number, !.prompt = p, !.again = FALSE] : p \in {0, number} }

Started(m) ==
  IF m.draft \in {"none", "done"} /\ m.turn = 0 /\ m.battle < Battles
  THEN TurnOf([m EXCEPT !.battle = @ + 1, !.open = TRUE], 1) ELSE {}

\* A decision opens the next turn or settles the battle, which ends the series or
\* opens the next draft of it.
Played(m) ==
  IF m.turn = 0 THEN {}
  ELSE (IF m.turn < Turns THEN TurnOf(m, m.turn + 1) ELSE {})
       \cup LET settled == [m EXCEPT !.turn = 0, !.prompt = 0, !.again = FALSE]
            IN {[settled EXCEPT !.over = TRUE]}
               \cup IF m.battle = Battles THEN {}
                    ELSE { [settled EXCEPT !.draft = IF Drafted THEN "open" ELSE "none",
                                           !.due = Drafted /\ due] : due \in BOOLEAN }

\* The draft goes a decision on; both arrangements arrive together.
DraftedOn(m) ==
  CASE m.draft = "open" /\ (m.recorded + 1) % Picks # 0 ->
         { [m EXCEPT !.recorded = @ + 1, !.due = due] : due \in BOOLEAN }
    [] m.draft = "open" /\ (m.recorded + 1) % Picks = 0 ->
         {[m EXCEPT !.recorded = @ + 1, !.due = TRUE, !.draft = "arrange"]}
    [] m.draft = "arrange" -> {[m EXCEPT !.due = FALSE, !.draft = "done"]}
    [] OTHER -> {}

\* What a body of the room makes of a mirror; a refusal leaves it where it was.
Bodies(m) ==
  Started(m) \cup Played(m) \cup DraftedOn(m)
    \cup {[m EXCEPT !.over = TRUE, !.open = FALSE, !.turn = 0, !.prompt = 0, !.due = FALSE]}
    \cup {[m EXCEPT !.again = m.prompt # 0]}

-----------------------------------------------------------------------------
(* The session. *)

Nothing == [battle |-> 0, turn |-> 0]
NoDecision == [recorded |-> 0, step |-> "none"]

Live == session.client # 0 /\ ~session.left

\* pressed.about compares the unit and its turn, and not the battle.
About(held, m) == held.turn # 0 /\ held.turn = m.prompt
DraftAbout(held, m) == held.recorded = m.recorded /\ held.step = m.draft

\* A Play goroutine that has not begun.
Idle == [at |-> "none", opening |-> 1, asks |-> 1, shut |-> FALSE]

\* What nothing reaches any longer: the mirror of a match that is gone and the slots of its
\* opening.
Released(held, blank) == [g \in Match |-> IF play[g].at = "gone" THEN blank ELSE held[g]]

\* session.open: everything armed again for a new match.  The context of the last one
\* is not cancelled.
Open ==
  /\ session' = [client |-> 0, left |-> FALSE, opening |-> session.opening + 1]
  /\ dial' = [dial EXCEPT ![session.opening + 1] = "dialling"]
  /\ mirror' = Released(mirror, Welcomed(0, FALSE))
  /\ play' = Released(play, [Idle EXCEPT !.at = "gone"])
  /\ answers' = Released(answers, Nothing) /\ decisions' = Released(decisions, NoDecision)
  /\ UNCHANGED cancelled

\* Mutant: the match is left and its context is not cancelled.
LeaveQuietly ==
  IF session.left \/ session.opening = 0 THEN UNCHANGED <<session, cancelled, play>>
  ELSE session' = [session EXCEPT !.left = TRUE] /\ UNCHANGED <<cancelled, play>>

\* session.leave: once a match; the context is cancelled and the socket closed.
Leave ==
  IF session.left \/ session.opening = 0 THEN UNCHANGED <<session, cancelled, play>>
  ELSE /\ session' = [session EXCEPT !.left = TRUE]
       /\ cancelled' = [cancelled EXCEPT ![session.opening] = TRUE]
       /\ play' = [g \in Match |-> IF g = session.client THEN [play[g] EXCEPT !.shut = TRUE]
                                   ELSE play[g]]

\* session.answer and session.decide: a full slot drops the keystroke.
Answer(pressed) ==
  answers' = [answers EXCEPT ![session.opening] = IF @ = Nothing THEN pressed ELSE @]

Decide(pressed) ==
  decisions' = [decisions EXCEPT ![session.opening] = IF @ = NoDecision THEN pressed ELSE @]

-----------------------------------------------------------------------------
(* The screens. *)

NoFight == <<>>
Local == <<0, 0, 0>>   \* a hot-seat battle of this client's own
NewPlayScreen ==
  [live |-> FALSE, fight |-> NoFight, pending |-> 0, answered |-> 0, aiming |-> FALSE]
NewDraftScreen == [drafting |-> FALSE, yours |-> FALSE, recorded |-> 0, step |-> "none"]

\* Which screen raises which.
Raises == {<<"cast", "preview">>, <<"cast", "blurb">>, <<"skills", "blurb">>,
           <<"elements", "chart">>, <<"traits", "statuses">>, <<"squads", "battle">>,
           <<"pairing", "battle">>, <<"battle", "blurb">>}

MatchScreens == {"waiting", "draft", "arrange", "result"}
Screens == {"menu", "join"} \cup MatchScreens \cup { r[1] : r \in Raises } \cup { r[2] : r \in Raises }

\* Whose turn it is, for the chooser and for the memo.
FightOf(g) == IF mirror[g].open THEN <<g, mirror[g].life, mirror[g].battle>> ELSE NoFight

\* PlayScreen.Attach: another battle starts the screen afresh, another prompt drops
\* what was answered and aimed.
Attach(screenful, g) ==
  LET prompt == mirror[g].prompt
      kept == IF screenful.fight = FightOf(g) THEN [screenful EXCEPT !.live = TRUE]
              ELSE [NewPlayScreen EXCEPT !.live = TRUE, !.fight = FightOf(g)]
  IN CASE prompt = 0 -> [kept EXCEPT !.pending = 0, !.aiming = FALSE]
       [] prompt # 0 /\ prompt \in {kept.answered, kept.pending} -> [kept EXCEPT !.pending = prompt]
       [] OTHER -> [kept EXCEPT !.pending = prompt, !.answered = 0, !.aiming = FALSE]

\* PlayScreen.Open: nothing local is opened over a live battle.
OpenLocal(screenful) ==
  IF screenful.live THEN screenful
  ELSE [NewPlayScreen EXCEPT !.fight = Local, !.pending = 1]

\* model.leaveMatch.
LeaveMatch ==
  /\ Leave
  /\ battle' = NewPlayScreen /\ drafting' = NewDraftScreen /\ picker' = FALSE
  /\ screen' = "menu" /\ raisedFrom' = "menu" /\ raisedOver' = "menu"
  /\ UNCHANGED <<ui, dialling, answers, decisions, dial, mirror, dropped>>

\* A keystroke that stays inside the model.
Keystroke == ui = "idle"
Elsewhere == UNCHANGED <<ui, shared, dial, play, mirror, dropped>>

\* model.raisedBy.
RaisedBy(from) == raisedFrom' = from /\ raisedOver' = raisedFrom

\* Menu: a match that is live takes the reader back to itself.
ToTheMatch ==
  IF battle.live /\ battle.fight # NoFight THEN "battle"
  ELSE IF drafting.step = "arrange" THEN "arrange"
  ELSE IF drafting.drafting THEN "draft" ELSE "waiting"

EnterFromTheMenu(target) ==
  /\ Keystroke /\ ~picker /\ screen = "menu" /\ target \in Offered
  /\ IF Live /\ target \in {"pairing", "join"}
     THEN screen' = ToTheMatch /\ UNCHANGED dialling
     ELSE screen' = target /\ dialling' = (dialling /\ target # "join")
  /\ UNCHANGED <<raisedFrom, raisedOver, picker, battle, drafting>>
  /\ Elsewhere

\* model.raise, and the pairing screen's enter.
Raise(target) ==
  /\ Keystroke /\ ~picker /\ <<screen, target>> \in Raises
  /\ screen = "battle" => battle.pending # 0 /\ ~(battle.live /\ battle.answered # 0)
  /\ RaisedBy(screen)
  /\ screen' = target
  /\ battle' = IF target = "battle" THEN OpenLocal(battle) ELSE battle
  /\ UNCHANGED <<picker, drafting, dialling>>
  /\ Elsewhere

\* esc on a screen of a match leaves it; on any other it goes back.
LeavesTheMatch == screen \in MatchScreens \/ (screen = "battle" /\ battle.live)

Back ==
  /\ Keystroke /\ ~picker /\ screen # "menu"
  /\ IF screen = "battle" /\ battle.aiming
     THEN /\ battle' = [battle EXCEPT !.aiming = FALSE]
          /\ UNCHANGED <<screen, raisedFrom, raisedOver, picker, drafting, dialling>>
          /\ Elsewhere
     ELSE IF LeavesTheMatch THEN LeaveMatch
     ELSE /\ screen' = raisedFrom
          /\ raisedFrom' = raisedOver /\ raisedOver' = "menu"
          /\ UNCHANGED <<picker, battle, drafting, dialling>>
          /\ Elsewhere

\* Whether a match or a dial of this client's is still going.
Busy == \E g \in Match : dial[g] \in {"dialling", "joined", "failed"} \/ play[g].at \notin {"none", "gone"}

\* joinScreen.submit and model.dialling.
Submit ==
  /\ Keystroke /\ screen = "join" /\ ~dialling
  /\ session.opening < Dials /\ (Patient => ~Busy)
  /\ Open
  /\ dialling' = TRUE
  /\ UNCHANGED <<ui, screen, raisedFrom, raisedOver, picker, battle, drafting, dropped>>

\* The open turn, as a keystroke names it.
Pressed == [battle |-> battle.fight[3], turn |-> battle.pending]

\* A live battle's keys: the first enter aims, the second answers; p passes at once.
PressForATurn(passing) ==
  /\ Keystroke /\ screen = "battle" /\ battle.live /\ battle.pending # 0 /\ battle.answered = 0
  /\ IF ~passing /\ ~battle.aiming
     THEN battle' = [battle EXCEPT !.aiming = TRUE] /\ UNCHANGED <<answers, dropped>>
     ELSE /\ battle' = [battle EXCEPT !.answered = battle.pending, !.aiming = FALSE]
          /\ Answer(Pressed)
          /\ dropped' = (answers[session.opening] # Nothing)
  /\ UNCHANGED <<ui, screen, raisedFrom, raisedOver, picker, drafting, dialling, session,
                 cancelled, decisions, dial, play, mirror>>

\* The draft and the arrange screens' own enter.
PressForTheDraft ==
  /\ Keystroke /\ ~picker /\ screen \in {"draft", "arrange"} /\ drafting.yours
  /\ drafting.step = IF screen = "draft" THEN "open" ELSE "arrange"
  /\ Decide([recorded |-> drafting.recorded, step |-> drafting.step])
  /\ UNCHANGED <<model, session, cancelled, answers, dial, play, mirror, dropped>>

\* A loadout's list over the draft screen, which takes every key until it is answered.
TogglePicker ==
  /\ Keystroke
  /\ picker \/ (screen = "draft" /\ drafting.yours /\ drafting.step = "open")
  /\ picker' = ~picker
  /\ UNCHANGED <<screen, raisedFrom, raisedOver, battle, drafting, dialling>>
  /\ Elsewhere

-----------------------------------------------------------------------------
(* The loop's messages. *)

\* The dial is answered, and the message waits for the loop.
DialAnswered(g) ==
  /\ dial[g] = "dialling"
  /\ \/ ~cancelled[g] /\ dial' = [dial EXCEPT ![g] = "joined"]
     \/ dial' = [dial EXCEPT ![g] = "failed"]
  /\ UNCHANGED <<model, shared, play, mirror, dropped>>

\* model.joined and session.begin.  A drafting room's first decision is due already.
Joined(g) ==
  /\ ui = "idle" /\ dial[g] = "joined"
  /\ session' = [session EXCEPT !.client = g]
  /\ play' = [play EXCEPT ![g].at = "ask", ![g].opening = session.opening]
  /\ dial' = [dial EXCEPT ![g] = "done"]
  /\ \E due \in BOOLEAN : mirror' = [mirror EXCEPT ![g] = Welcomed(0, due)]
  /\ dialling' = FALSE
  /\ screen' = "waiting"
  /\ ui' = IF Drafted THEN "told" ELSE "idle"
  /\ UNCHANGED <<raisedFrom, raisedOver, picker, battle, drafting, cancelled, answers, decisions,
                 dropped>>

DialFailed(g) ==
  /\ ui = "idle" /\ dial[g] = "failed"
  /\ dial' = [dial EXCEPT ![g] = "done"]
  /\ Leave
  /\ dialling' = FALSE
  /\ UNCHANGED <<ui, screen, raisedFrom, raisedOver, picker, battle, drafting, answers, decisions,
                 mirror, dropped>>

\* The clock's tick, while a match is live.
Tick ==
  /\ ui = "idle" /\ Live
  /\ ui' = "told"
  /\ UNCHANGED <<screen, raisedFrom, raisedOver, picker, battle, drafting, dialling, shared, dial,
                 play, mirror, dropped>>

\* session.read: the mirror's read lock, if there is a mirror.
TakeTheLock ==
  /\ ui = "told"
  /\ ui' = IF session.client = 0 THEN "idle" ELSE "reading"
  /\ UNCHANGED <<screen, raisedFrom, raisedOver, picker, battle, drafting, dialling, shared, dial,
                 play, mirror, dropped>>

\* The draft's reading, and where it moves a reader.
DraftScreen(g) ==
  [drafting |-> TRUE, yours |-> mirror[g].due, recorded |-> mirror[g].recorded,
   step |-> mirror[g].draft]

AfterTheDraft(g) ==
  IF ~Drafted THEN screen
  ELSE IF mirror[g].draft = "arrange" /\ screen \in {"waiting", "draft"} THEN "arrange"
  ELSE IF screen = "waiting" THEN "draft" ELSE screen

\* model.stepped: the draft is attached before the battle, and the battle wins the
\* screen.
Stepped ==
  LET g == session.client
      fights == FightOf(g) # NoFight /\ AfterTheDraft(g) \in {"waiting", "draft", "arrange"}
  IN /\ drafting' = IF Drafted THEN DraftScreen(g) ELSE drafting
     /\ battle' = IF FightOf(g) = NoFight THEN battle ELSE Attach(battle, g)
     /\ screen' = IF fights THEN "battle" ELSE AfterTheDraft(g)
     /\ picker' = (picker /\ ~fights /\ ~(screen' = "arrange" /\ screen # "arrange"))

\* Mutant: the seat is asked for inside the callback, under the mirror's lock again,
\* which waits behind a writer that waits for the first.
RedrawAskingAgain ==
  /\ ui = "reading" /\ play[session.client].at # "taking"
  /\ Stepped
  /\ ui' = "idle"
  /\ UNCHANGED <<raisedFrom, raisedOver, dialling, shared, dial, play, mirror, dropped>>

Redraw ==
  /\ ui = "reading"
  /\ Stepped
  /\ ui' = "idle"
  /\ UNCHANGED <<raisedFrom, raisedOver, dialling, shared, dial, play, mirror, dropped>>

\* matchEndedMsg and model.ended: the result, wherever the reader was.
Ended(g) ==
  /\ ui = "idle" /\ play[g].at = "ended"
  /\ play' = [play EXCEPT ![g].at = "gone"]
  /\ screen' = "result"
  /\ UNCHANGED <<ui, raisedFrom, raisedOver, picker, battle, drafting, dialling, shared, dial,
                 mirror, dropped>>

-----------------------------------------------------------------------------
(* The goroutine Play runs on. *)

Goes(g, from, to) == play[g].at = from /\ play' = [play EXCEPT ![g].at = to]
Silently == UNCHANGED <<model, shared, dial, mirror, dropped>>

Stopped(g) == cancelled[play[g].opening] \/ play[g].shut

\* A Send: Play goes on when the loop has taken the message.
Tells(g, from, to) ==
  /\ ui = "idle" /\ ui' = "told"
  /\ Goes(g, from, to)
  /\ UNCHANGED <<screen, raisedFrom, raisedOver, picker, battle, drafting, dialling, shared, dial,
                 mirror, dropped>>

\* Client.answer: a draft decision first, then a turn.
Ask(g) ==
  /\ Silently
  /\ \/ mirror[g].due /\ Goes(g, "ask", "draft")
     \/ ~mirror[g].due /\ mirror[g].prompt # 0 /\ Goes(g, "ask", "turn")
     \/ ~mirror[g].due /\ mirror[g].prompt = 0 /\ Goes(g, "ask", "reading")

\* A body is read; Receive waits for the mirror's lock.
Read(g) == ~Stopped(g) /\ Goes(g, "reading", "taking") /\ Silently

Receive(g) ==
  /\ ~(ui = "reading" /\ session.client = g)
  /\ Goes(g, "taking", "telling")
  /\ \E m \in Bodies(mirror[g]) : mirror' = [mirror EXCEPT ![g] = m]
  /\ UNCHANGED <<model, shared, dial, dropped>>

Tell(g) == Tells(g, "telling", IF mirror[g].over THEN "returned" ELSE "ask")

\* The socket is closed, dies, or its context is cancelled.
Unread(g) == Goes(g, "reading", "returned") /\ Silently

\* Mutant: whatever is in the slot is thrown away before the chooser asks.
ReadBareSlot(g) ==
  /\ play[g].at = "turn"
  /\ answers' = [answers EXCEPT ![session.opening] = Nothing]
  /\ play' = [play EXCEPT ![g].at = "calling", ![g].asks = session.opening]
  /\ UNCHANGED <<model, session, cancelled, decisions, dial, mirror, dropped>>

\* Mutant: whatever is in the slot is taken for the turn that is asked.
ReadAnySlot(g) ==
  /\ play[g].at = "turn"
  /\ answers' = [answers EXCEPT ![session.opening] = Nothing]
  /\ play' = [play EXCEPT ![g].asks = session.opening,
                ![g].at = IF answers[session.opening] # Nothing THEN "reading" ELSE "calling"]
  /\ UNCHANGED <<model, session, cancelled, decisions, dial, mirror, dropped>>

\* session.choose, its top half: what the slot holds is taken if it is about this
\* prompt and dropped if it is not.
ReadSlot(g) ==
  /\ play[g].at = "turn"
  /\ answers' = [answers EXCEPT ![session.opening] = Nothing]
  /\ play' = [play EXCEPT ![g].asks = session.opening,
                ![g].at = IF About(answers[session.opening], mirror[g]) THEN "reading" ELSE "calling"]
  /\ UNCHANGED <<model, session, cancelled, decisions, dial, mirror, dropped>>

\* Its three arms: a keystroke, the context, the allowance and its grace.
Choose(g) ==
  /\ play[g].at = "choosing"
  /\ \/ /\ answers[play[g].asks] # Nothing
        /\ answers' = [answers EXCEPT ![play[g].asks] = Nothing]
        /\ play' = [play EXCEPT ![g].at = "reading"]
     \/ /\ cancelled[play[g].asks] \/ Allowance
        /\ play' = [play EXCEPT ![g].at = "reading"]
        /\ UNCHANGED answers
  /\ UNCHANGED <<model, session, cancelled, decisions, dial, mirror, dropped>>

\* session.chooseDraft: the same, but a decision for another is dropped, and giving up
\* ends Play.
ReadDecisions(g) ==
  /\ play[g].at = "draft"
  /\ decisions' = [decisions EXCEPT ![session.opening] = NoDecision]
  /\ play' = [play EXCEPT ![g].asks = session.opening,
                ![g].at = IF DraftAbout(decisions[session.opening], mirror[g]) THEN "reading"
                          ELSE "calling for the draft"]
  /\ UNCHANGED <<model, session, cancelled, answers, dial, mirror, dropped>>

ChooseDraft(g) ==
  /\ play[g].at = "drafting"
  /\ \/ /\ decisions[play[g].asks] # NoDecision
        /\ decisions' = [decisions EXCEPT ![play[g].asks] = NoDecision]
        /\ play' = [play EXCEPT ![g].at =
                      IF DraftAbout(decisions[play[g].asks], mirror[g]) THEN "reading" ELSE @]
     \/ /\ cancelled[play[g].asks] \/ Allowance
        /\ play' = [play EXCEPT ![g].at = "returned"]
        /\ UNCHANGED decisions
  /\ UNCHANGED <<model, session, cancelled, answers, dial, mirror, dropped>>

Call(g) == Tells(g, "calling", "choosing") \/ Tells(g, "calling for the draft", "drafting")

\* session.reconnect's early returns, and the redial when there is a seat to go back to.
Reconnect(g) ==
  /\ Silently
  /\ \/ Goes(g, "returned", "lost") /\ Tokens /\ ~cancelled[play[g].opening] /\ ~mirror[g].over
     \/ Goes(g, "returned", "ending") /\ (~Tokens \/ cancelled[play[g].opening] \/ mirror[g].over)

\* The screen is told that it started and that it stopped.
ReconnectTold(g) ==
  \/ Tells(g, "lost", "redialling")
  \/ Tells(g, "regained", "swapping")
  \/ Tells(g, "denied", "ending")

Redial(g) ==
  /\ Silently
  /\ \/ /\ ~cancelled[play[g].opening] /\ mirror[g].life < Redials
        /\ Goes(g, "redialling", "regained")
     \/ Goes(g, "redialling", "denied")

\* session.playing goes round: the new client, behind a mirror of its own.
Swap(g) ==
  /\ play[g].at = "swapping"
  /\ play' = [play EXCEPT ![g].at = "ask", ![g].shut = FALSE]
  /\ session' = [session EXCEPT !.client = g]
  /\ \E due \in BOOLEAN : mirror' = [mirror EXCEPT ![g] = Welcomed(@.life + 1, due)]
  /\ UNCHANGED <<model, cancelled, answers, decisions, dial, dropped>>

\* The outcome is written, and the loop told behind it.
Ending(g) == Goes(g, "ending", "ended") /\ Silently

-----------------------------------------------------------------------------

Init ==
  /\ ui = "idle" /\ screen = "menu" /\ raisedFrom = "menu" /\ raisedOver = "menu" /\ picker = FALSE
  /\ battle = NewPlayScreen /\ drafting = NewDraftScreen /\ dialling = FALSE
  /\ session = [client |-> 0, left |-> FALSE, opening |-> 0]
  /\ cancelled = [g \in Match |-> FALSE]
  /\ answers = [g \in Match |-> Nothing] /\ decisions = [g \in Match |-> NoDecision]
  /\ dial = [g \in Match |-> "none"]
  /\ play = [g \in Match |-> Idle] /\ mirror = [g \in Match |-> Welcomed(0, FALSE)]
  /\ dropped = FALSE

Reader ==
  \/ \E target \in Offered : EnterFromTheMenu(target)
  \/ \E target \in Screens : Raise(target)
  \/ Back \/ Submit \/ PressForTheDraft \/ TogglePicker
  \/ \E passing \in BOOLEAN : PressForATurn(passing)

Loop ==
  \/ Tick \/ TakeTheLock \/ Redraw
  \/ \E g \in Match : Joined(g) \/ DialFailed(g) \/ Ended(g)

Sends(g) == Tell(g) \/ Call(g) \/ ReconnectTold(g)

Chooses(g) == Choose(g) \/ ChooseDraft(g)

Runs(g) ==
  \/ Ask(g) \/ ReadSlot(g) \/ ReadDecisions(g) \/ Reconnect(g) \/ Redial(g) \/ Swap(g)
  \/ Ending(g)

Next ==
  \/ Reader \/ Loop
  \/ \E g \in Match :
       DialAnswered(g) \/ Sends(g) \/ Runs(g) \/ Chooses(g) \/ Read(g) \/ Receive(g) \/ Unread(g)

Spec == Init /\ [][Next]_vars

\* The loop runs, a goroutine runs; a Send waits its turn in the channel's queue and a
\* writer comes before the readers behind it, so both are taken in the end; a socket
\* that is closed is noticed.  Nobody has to press a key and the room owes nothing.
Fairness ==
  /\ WF_vars(TakeTheLock) /\ WF_vars(Redraw)
  /\ \A g \in Match :
       /\ WF_vars(Runs(g)) /\ WF_vars(Chooses(g)) /\ WF_vars(Stopped(g) /\ Unread(g))
       /\ SF_vars(Sends(g)) /\ SF_vars(Receive(g)) /\ SF_vars(Ended(g))

FairSpec == Spec /\ Fairness

-----------------------------------------------------------------------------
(* Properties. *)

\* The client is choosing for the turn it shows, and nothing is on its way to the screen.
Chosen(g) == play[g].at = "choosing" /\ session.client = g /\ ~cancelled[play[g].asks] /\ ui = "idle"

\* A keystroke is spent on the turn it was pressed for and on no other: a stale answer
\* in the slot, a turn that went by, a socket that came back to the whole record.
AnswersAreForTheirPrompt ==
  [][\A g \in Match :
       (play[g].at \in {"turn", "choosing"} /\ play'[g].at = "reading"
        /\ answers[play'[g].asks] # Nothing /\ answers' # answers)
         => answers[play'[g].asks] = [battle |-> mirror[g].battle, turn |-> mirror[g].prompt]]_vars

\* A keystroke the screen has recorded as the answer is not lost: the chooser that waits
\* for it has it.  (A turn asked again behind a refusal, and an answer that found the slot
\* full of a stale one, are the two that the code does lose.)
KeystrokeIsHeard ==
  \A g \in Match :
    (Chosen(g) /\ ~mirror[g].again /\ ~dropped /\ battle.fight = FightOf(g)
     /\ battle.answered = mirror[g].prompt)
      => answers[play[g].asks] # Nothing

\* The player who is asked has the question in front of them, or one key behind it, and no
\* answer to an earlier one stands in its way.
\* (The draft behind a reconnection is left out: the record has none of its steps, so its
\* fresh mirror is a draft behind the screen.)
AskedIsShown ==
  \A g \in Match :
    /\ Chosen(g) => /\ battle.pending = mirror[g].prompt /\ battle.fight = FightOf(g)
                    /\ battle.answered \in {0, mirror[g].prompt}
                    /\ screen = "battle" \/ (screen = "blurb" /\ raisedFrom = "battle")
    /\ (play[g].at = "drafting" /\ ~cancelled[play[g].asks] /\ ui = "idle" /\ mirror[g].life = 0) =>
         /\ drafting.yours /\ drafting.recorded = mirror[g].recorded
         /\ screen = IF mirror[g].draft = "arrange" THEN "arrange" ELSE "draft"

\* The loop comes back from every message: the mirror's lock, a writer waiting for it
\* and a Send waiting for the loop never wait on one another.
UpdateReturns == (ui # "idle") ~> (ui = "idle")

\* A match that was left goes away, wherever its goroutine was: in a chooser, in a Send,
\* between two sockets.
LeavingEndsThePlay ==
  \A g \in Match : (session.client = g /\ session.left) ~> (play[g].at = "gone")

=============================================================================
