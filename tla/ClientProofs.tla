---------------------------- MODULE ClientProofs ----------------------------
(***************************************************************************)
(* What a player of the terminal client presses, for any length of a match, *)
(* any number of dials one after another and of reconnections: a keystroke  *)
(* is spent on the turn it was pressed for, and the one the screen has      *)
(* recorded is there for the chooser that waits.  The invariants are that   *)
(* one match is going and it is the one the session knows, that an idle     *)
(* loop shows what the chooser asks, and that the screen is never ahead of  *)
(* the mirror.                                                              *)
(***************************************************************************)
EXTENDS Client, TLAPS

Places ==
  {"none", "gone", "ask", "turn", "draft", "reading", "taking", "telling", "returned", "calling",
   "choosing", "calling for the draft", "drafting", "lost", "redialling", "regained", "swapping",
   "denied", "ending", "ended"}

AMirror ==
  [life : Nat, battle : Nat, open : BOOLEAN, turn : Nat, prompt : Nat,
   draft : {"none", "open", "arrange", "done"}, due : BOOLEAN, recorded : Nat,
   again : BOOLEAN, over : BOOLEAN]

APlay == [at : Places, opening : Nat, asks : Nat, shut : BOOLEAN]

\* What a keystroke names: no turn, or one of a battle of the series.
Keys == {Nothing} \cup [battle : 1..Battles, turn : Nat \ {0}]

AScreen ==
  [live : BOOLEAN, fight : {NoFight} \cup Nat \X Nat \X Nat, pending : Nat, answered : Nat,
   aiming : BOOLEAN]

Typed ==
  /\ ui \in {"idle", "told", "reading"}
  /\ battle \in AScreen
  /\ session \in [client : Nat, left : BOOLEAN, opening : Nat]
  /\ answers \in [Match -> Keys]
  /\ DOMAIN dial = Match
  /\ play \in [Match -> APlay] /\ mirror \in [Match -> AMirror]
  /\ dropped \in BOOLEAN

\* A match is going; a dial is.
Active(g) == play[g].at \notin {"none", "gone"}
Dialled(g) == dial[g] \in {"dialling", "joined", "failed"}

\* One match is going at a time, and it is the one the session knows.
OneMatch ==
  /\ session.opening \in 0..Dials
  /\ session.client \in {0, session.opening}
  /\ ui = "reading" => session.client # 0
  /\ \A g \in Match : Active(g) => /\ g = session.opening /\ session.client = g
                                   /\ play[g].at \in {"calling", "choosing"} => play[g].asks = g
  /\ \A g \in Match : Dialled(g) => /\ g = session.opening /\ session.client = 0
                                    /\ play[g].at = "none"
  /\ \A g \in Match : g > session.opening => dial[g] = "none" /\ play[g].at = "none"

\* A turn that is open is one of an open battle, behind its draft.
Sensible(m) ==
  /\ m.battle <= Battles
  /\ m.prompt \in {0, m.turn}
  /\ m.open => m.battle # 0
  /\ m.turn # 0 => m.open /\ m.draft \in {"none", "done"}

\* A live screen is on a battle of the series, and whoever asks for a turn has one open.
Playing ==
  /\ \A g \in Match : Sensible(mirror[g])
  /\ battle.live => battle.fight \in Match \X Nat \X (1..Battles)
  /\ \A g \in Match : play[g].at \in {"turn", "calling", "choosing"} => mirror[g].prompt # 0

\* While the loop is idle a live screen shows the turn that is open, but for the body
\* that is on its way to it.
Showing ==
  \A g \in Match :
    (Active(g) /\ mirror[g].prompt # 0 /\ play[g].at # "telling" /\ ui = "idle" /\ battle.live)
      => battle.fight = FightOf(g) /\ battle.pending = mirror[g].prompt

\* What a chooser that waits has in its slot is the answer to what it asks.
Waiting ==
  \A g \in Match :
    play[g].at \in {"calling", "choosing"}
      => answers[g] \in {Nothing, [battle |-> mirror[g].battle, turn |-> mirror[g].prompt]}

\* The screen is not ahead of the mirror: not of another dial's, another life's, another
\* battle's, another turn's.
Behind ==
  LET g == session.opening
      fight == battle.fight
  IN fight # NoFight
       => /\ fight[1] <= g
          /\ (g # 0 /\ fight[1] = g)
               => /\ session.client = g /\ fight[2] <= mirror[g].life
                  /\ fight[2] = mirror[g].life => fight[3] <= mirror[g].battle
          /\ (g # 0 /\ fight = <<g, mirror[g].life, mirror[g].battle>> /\ mirror[g].turn # 0)
               => battle.pending <= mirror[g].turn /\ battle.answered <= mirror[g].turn

\* The answer the screen has recorded to the turn that is open is in the slot.
Heard ==
  \A g \in Match :
    (/\ play[g].at \in {"telling", "ask", "turn", "calling", "choosing"}
     /\ mirror[g].prompt # 0 /\ ~mirror[g].again /\ ~dropped
     /\ battle.fight = FightOf(g) /\ battle.answered = mirror[g].prompt)
      => answers[g].turn = mirror[g].prompt


IInv == Typed /\ OneMatch /\ Playing /\ Showing /\ Waiting /\ Behind /\ Heard

-----------------------------------------------------------------------------
(* What the steps of the program do to what the invariants speak of. *)

\* The battle's own keys, and the screens around it.
Browses ==
  /\ ui = "idle"
  /\ UNCHANGED <<ui, session, answers, dial, play, mirror, dropped>>
  /\ battle' \in {battle, [battle EXCEPT !.aiming = FALSE], [battle EXCEPT !.aiming = TRUE],
                  OpenLocal(battle)}

\* A turn is answered.
Answers ==
  /\ ui = "idle" /\ battle.live /\ battle.pending # 0 /\ battle.answered = 0
  /\ battle' = [battle EXCEPT !.answered = battle.pending, !.aiming = FALSE]
  /\ Answer(Pressed)
  /\ dropped' = (answers[session.opening] # Nothing)
  /\ UNCHANGED <<ui, session, dial, play, mirror>>

\* A match is left: no goroutine moves by it.
Leaves ==
  /\ UNCHANGED <<ui, answers, mirror, dropped>>
  /\ session' \in {session, [session EXCEPT !.left = TRUE]}
  /\ play' \in [Match -> APlay] /\ \A g \in Match : /\ play'[g].at = play[g].at
                                                    /\ play'[g].asks = play[g].asks
  /\ \/ dial' = dial
     \/ \E g \in Match : dial[g] = "failed" /\ dial' = [dial EXCEPT ![g] = "done"]
  /\ battle' \in {battle, NewPlayScreen}

\* The loop takes a message, and the lock.
Wakes ==
  /\ ui' # "idle" \/ (ui = "told" /\ session.client = 0)
  /\ ui' = "reading" => session.client # 0
  /\ ui' \in {"idle", "told", "reading"}
  /\ UNCHANGED <<battle, session, answers, dial, play, mirror, dropped>>

Answered ==
  /\ \E g \in Match : dial[g] = "dialling" /\ dial' \in {[dial EXCEPT ![g] = "joined"], [dial EXCEPT ![g] = "failed"]}
  /\ UNCHANGED <<ui, battle, session, answers, play, mirror, dropped>>

\* A goroutine goes on, and not into a chooser for a turn.
Others(g) == \A h \in Match \ {g} : play'[h] = play[h]

Strolls(g) ==
  /\ UNCHANGED <<ui, battle, session, answers, dial, mirror, dropped>>
  /\ Active(g) /\ play[g].at # "telling" /\ Others(g) /\ play' \in [Match -> APlay]
  /\ \/ play'[g].at \notin {"none", "ask", "turn", "calling", "choosing", "telling"}
     \/ play[g].at = "ask" /\ play'[g].at = "turn" /\ mirror[g].prompt # 0

\* A goroutine's message is taken.
Reports(g) ==
  /\ UNCHANGED <<battle, session, answers, dial, mirror, dropped>>
  /\ ui' = "told"
  /\ Active(g) /\ Others(g) /\ play' \in [Match -> APlay] /\ play'[g].asks = play[g].asks
  /\ play'[g].at \notin {"none", "gone", "turn", "calling", "telling"}
  /\ play'[g].at = "ask" => play[g].at = "telling"
  /\ play'[g].at = "choosing" => play[g].at = "calling"

\* A step is one of these.
Steps ==
  \/ Browses \/ Answers \/ Submit \/ Leaves \/ Wakes \/ Redraw \/ Answered
  \/ \E g \in Match :
       Joined(g) \/ Strolls(g) \/ Reports(g) \/ Receive(g) \/ ReadSlot(g) \/ Choose(g) \/ Swap(g)
  \/ UNCHANGED <<ui, battle, session, answers, dial, play, mirror, dropped>>

\* The reader's keys.
LEMMA ReaderSteps ==
  ASSUME Typed, OneMatch, Reader PROVE Steps
<1>1. CASE \E target \in Offered : EnterFromTheMenu(target)
  BY <1>1 DEF EnterFromTheMenu, Elsewhere, Keystroke, Steps, Browses, shared
<1>2. CASE \E target \in Screens : Raise(target)
  BY <1>2 DEF Raise, Elsewhere, Keystroke, Steps, Browses, shared
<1>3. CASE Back
  <2>1. CASE LeaveMatch
    <3>1. Leaves
      <4>1. CASE UNCHANGED <<session, cancelled, play>>
        BY <2>1, <4>1 DEF LeaveMatch, Leaves, Typed
      <4>2. CASE /\ session' = [session EXCEPT !.left = TRUE]
                 /\ play' = [g \in Match |-> IF g = session.client THEN [play[g] EXCEPT !.shut = TRUE]
                                             ELSE play[g]]
        <5>1. \A g \in Match : /\ play'[g] \in APlay /\ play'[g].at = play[g].at
                               /\ play'[g].asks = play[g].asks
          BY <4>2 DEF Typed, APlay
        <5>2. play' \in [Match -> APlay]
          BY <4>2, <5>1
        <5> QED BY <2>1, <4>2, <5>1, <5>2 DEF LeaveMatch, Leaves
      <4> QED BY <2>1, <4>1, <4>2 DEF LeaveMatch, Leave
    <3> QED BY <3>1 DEF Steps
  <2>2. CASE ~LeaveMatch
    BY <1>3, <2>2 DEF Back, Elsewhere, Keystroke, Steps, Browses, shared
  <2> QED BY <2>1, <2>2
<1>4. CASE Submit
  BY <1>4 DEF Steps
<1>5. CASE PressForTheDraft
  BY <1>5 DEF PressForTheDraft, model, Keystroke, Steps, Browses
<1>6. CASE TogglePicker
  BY <1>6 DEF TogglePicker, Elsewhere, Keystroke, Steps, Browses, shared
<1>7. CASE \E passing \in BOOLEAN : PressForATurn(passing)
  BY <1>7 DEF PressForATurn, Keystroke, Steps, Browses, Answers
<1> QED
  BY <1>1, <1>2, <1>3, <1>4, <1>5, <1>6, <1>7 DEF Reader

\* What a place in a goroutine's life is changed to.
LEMMA Going ==
  ASSUME Typed, NEW g \in Match, NEW from, NEW to \in Places, Goes(g, from, to)
  PROVE /\ play[g].at = from /\ play'[g].at = to /\ play'[g].asks = play[g].asks
        /\ play' \in [Match -> APlay] /\ Others(g)
BY DEF Typed, APlay, Goes, Others

LEMMA Placed ==
  ASSUME Typed, NEW g \in Match, NEW asks \in Nat, NEW to \in Places,
         play' = [play EXCEPT ![g].asks = asks, ![g].at = to]
  PROVE /\ play'[g].at = to /\ play'[g].asks = asks
        /\ play' \in [Match -> APlay] /\ Others(g)
BY DEF Typed, APlay, Others

\* The loop's messages.
LEMMA LoopSteps ==
  ASSUME Typed, OneMatch, Loop PROVE Steps
<1>1. CASE Tick
  BY <1>1 DEF Tick, shared, Wakes, Steps
<1>2. CASE TakeTheLock
  BY <1>2 DEF TakeTheLock, shared, Wakes, Steps
<1>3. CASE Redraw
  BY <1>3 DEF Steps
<1>4. ASSUME NEW g \in Match, Joined(g) PROVE Steps
  BY <1>4 DEF Steps
<1>5. ASSUME NEW g \in Match, DialFailed(g) PROVE Steps
  <2>1. play' = play
    <3>1. \A h \in Match : h # session.client
      BY <1>5 DEF DialFailed, OneMatch, Dialled, Match
    <3>2. play = [h \in Match |-> play[h]]
      BY DEF Typed
    <3> QED BY <1>5, <3>1, <3>2 DEF DialFailed, Leave
  <2>2. session' \in {session, [session EXCEPT !.left = TRUE]}
    BY <1>5 DEF DialFailed, Leave
  <2>3. Leaves
    BY <1>5, <2>1, <2>2 DEF DialFailed, Leaves, Typed
  <2> QED BY <2>3 DEF Steps
<1>6. ASSUME NEW g \in Match, Ended(g) PROVE Steps
  <2>1. Goes(g, "ended", "gone")
    BY <1>6 DEF Ended, Goes
  <2>2. Strolls(g)
    BY <1>6, <2>1, Going DEF Ended, shared, Strolls, Places, Active
  <2> QED BY <2>2 DEF Steps
<1> QED
  BY <1>1, <1>2, <1>3, <1>4, <1>5, <1>6 DEF Loop

\* What a goroutine of Play does.
LEMMA PlaySteps ==
  ASSUME Typed, OneMatch, NEW g \in Match,
         DialAnswered(g) \/ Sends(g) \/ Runs(g) \/ Chooses(g) \/ Read(g) \/ Receive(g) \/ Unread(g)
  PROVE Steps
<1> DEFINE Gone(from, to) == Goes(g, from, to) /\ Silently
           Told(from, to) == Tells(g, from, to)
<1>1. ASSUME NEW from \in Places, NEW to \in Places, Gone(from, to),
             from \notin {"none", "gone", "telling"},
             \/ to \notin {"none", "ask", "turn", "calling", "choosing", "telling"}
             \/ from = "ask" /\ to = "turn" /\ mirror[g].prompt # 0
      PROVE Steps
  <2>1. Strolls(g)
    BY <1>1, Going DEF Silently, model, shared, Strolls, Active
  <2> QED BY <2>1 DEF Steps
<1>2. ASSUME NEW from \in Places, NEW to \in Places, Told(from, to),
             from \notin {"none", "gone"}, to \notin {"none", "gone", "turn", "calling", "telling"},
             to = "ask" => from = "telling", to = "choosing" => from = "calling"
      PROVE Steps
  <2>1. Goes(g, from, to)
    BY <1>2 DEF Tells
  <2>2. Reports(g)
    BY <1>2, <2>1, Going DEF Tells, shared, Reports, Active
  <2> QED BY <2>2 DEF Steps
<1>3. CASE DialAnswered(g)
  BY <1>3 DEF DialAnswered, model, shared, Answered, Steps
<1>4. CASE Tell(g)
  <2>1. CASE mirror[g].over
    BY <1>2, <1>4, <2>1 DEF Tell, Places
  <2>2. CASE ~mirror[g].over
    BY <1>2, <1>4, <2>2 DEF Tell, Places
  <2> QED BY <2>1, <2>2
<1>5. CASE Call(g)
  <2>1. CASE Tells(g, "calling", "choosing")
    BY <1>2, <2>1 DEF Places
  <2>2. CASE Tells(g, "calling for the draft", "drafting")
    BY <1>2, <2>2 DEF Places
  <2> QED BY <1>5, <2>1, <2>2 DEF Call
<1>6. CASE ReconnectTold(g)
  <2>1. CASE Tells(g, "lost", "redialling")
    BY <1>2, <2>1 DEF Places
  <2>2. CASE Tells(g, "regained", "swapping")
    BY <1>2, <2>2 DEF Places
  <2>3. CASE Tells(g, "denied", "ending")
    BY <1>2, <2>3 DEF Places
  <2> QED BY <1>6, <2>1, <2>2, <2>3 DEF ReconnectTold
<1>7. CASE Ask(g)
  <2>1. CASE Goes(g, "ask", "draft")
    BY <1>1, <1>7, <2>1 DEF Ask, Places
  <2>2. CASE mirror[g].prompt # 0 /\ Goes(g, "ask", "turn")
    BY <1>1, <1>7, <2>2 DEF Ask, Places
  <2>3. CASE Goes(g, "ask", "reading")
    BY <1>1, <1>7, <2>3 DEF Ask, Places
  <2> QED BY <1>7, <2>1, <2>2, <2>3 DEF Ask
<1>8. CASE Read(g) \/ Unread(g)
  BY <1>1, <1>8 DEF Read, Unread, Places
<1>9. CASE Reconnect(g) \/ Redial(g) \/ Ending(g)
  <2>1. CASE Goes(g, "returned", "lost") /\ Silently
    BY <1>1, <2>1 DEF Places
  <2>2. CASE Goes(g, "returned", "ending") /\ Silently
    BY <1>1, <2>2 DEF Places
  <2>3. CASE Goes(g, "redialling", "regained") /\ Silently
    BY <1>1, <2>3 DEF Places
  <2>4. CASE Goes(g, "redialling", "denied") /\ Silently
    BY <1>1, <2>4 DEF Places
  <2>5. CASE Goes(g, "ending", "ended") /\ Silently
    BY <1>1, <2>5 DEF Places
  <2> QED BY <1>9, <2>1, <2>2, <2>3, <2>4, <2>5 DEF Reconnect, Redial, Ending
<1>10. CASE ReadDecisions(g)
  <2>1. PICK to \in {"reading", "calling for the draft"} :
          play' = [play EXCEPT ![g].asks = session.opening, ![g].at = to]
    BY <1>10 DEF ReadDecisions
  <2>2. to \in Places /\ session.opening \in Nat
    BY DEF Places, Typed
  <2>3. play'[g].at = to /\ play' \in [Match -> APlay] /\ Others(g)
    BY <2>1, <2>2, Placed
  <2>4. Strolls(g)
    BY <1>10, <2>3 DEF ReadDecisions, model, Strolls, Active
  <2> QED BY <2>4 DEF Steps
<1>11. CASE ChooseDraft(g)
  <2>1. PICK to \in {"reading", "drafting", "returned"} : Goes(g, "drafting", to)
    <3>1. CASE decisions[play[g].asks] # NoDecision /\ DraftAbout(decisions[play[g].asks], mirror[g])
      BY <1>11, <3>1 DEF ChooseDraft, Goes
    <3>2. CASE decisions[play[g].asks] # NoDecision /\ ~DraftAbout(decisions[play[g].asks], mirror[g])
      <4>1. play[g].at = "drafting" /\ play' \in {[play EXCEPT ![g].at = @], [play EXCEPT ![g].at = "returned"]}
        BY <1>11, <3>2 DEF ChooseDraft
      <4>2. [play EXCEPT ![g].at = @] = [play EXCEPT ![g].at = "drafting"]
        BY <4>1
      <4> QED BY <4>1, <4>2 DEF Goes
    <3>3. CASE decisions[play[g].asks] = NoDecision
      BY <1>11, <3>3 DEF ChooseDraft, Goes
    <3> QED BY <3>1, <3>2, <3>3
  <2>2. to \in Places /\ "drafting" \in Places
    BY DEF Places
  <2>3. /\ play[g].at = "drafting" /\ play'[g].at = to
        /\ play' \in [Match -> APlay] /\ Others(g)
    BY <2>1, <2>2, Going
  <2>4. UNCHANGED <<ui, battle, session, answers, dial, mirror, dropped>>
    BY <1>11 DEF ChooseDraft, model
  <2>5. Strolls(g)
    BY <2>1, <2>3, <2>4 DEF Strolls, Active
  <2> QED BY <2>5 DEF Steps
<1>12. CASE ReadSlot(g) \/ Swap(g) \/ Choose(g) \/ Receive(g)
  BY <1>12 DEF Steps
<1> QED
  BY <1>3, <1>4, <1>5, <1>6, <1>7, <1>8, <1>9, <1>10, <1>11, <1>12 DEF Sends, Runs, Chooses

LEMMA AStep == Typed /\ OneMatch /\ [Next]_vars => Steps
<1>1. CASE UNCHANGED vars
  BY <1>1 DEF vars, model, shared, Steps
<1> QED
  BY <1>1, ReaderSteps, LoopSteps, PlaySteps DEF Next

-----------------------------------------------------------------------------
(* The mirror, a body further on. *)

\* What a body makes of the turn that is open.
Onward(m, n) ==
  /\ n.life = m.life /\ m.battle <= n.battle
  /\ \/ n.turn = 0
     \/ n.battle = m.battle + 1
     \/ n.battle = m.battle /\ m.turn # 0 /\ n.turn = m.turn + 1
     \/ n.battle = m.battle /\ n.turn = m.turn /\ (n.prompt = 0 \/ n.again)

LEMMA Kinds ==
  ASSUME NEW m \in AMirror
  PROVE /\ m.life \in Nat /\ m.battle \in Nat /\ m.turn \in Nat /\ m.prompt \in Nat
        /\ m.open \in BOOLEAN /\ m.again \in BOOLEAN /\ m.due \in BOOLEAN /\ m.recorded \in Nat
BY DEF AMirror

LEMMA Turned ==
  ASSUME NEW m \in AMirror, NEW number \in Nat, NEW n \in TurnOf(m, number)
  PROVE /\ n \in AMirror /\ n.turn = number /\ n.prompt \in {0, number}
        /\ n.life = m.life /\ n.battle = m.battle /\ n.open = m.open /\ n.draft = m.draft
<1>1. PICK p \in {0, number} : n = [m EXCEPT !.turn = number, !.prompt = p, !.again = FALSE]
  BY DEF TurnOf
<1>2. p \in Nat
  OBVIOUS
<1>3. n \in AMirror
  BY <1>1, <1>2 DEF AMirror
<1>4. /\ n.turn = number /\ n.prompt = p
      /\ n.life = m.life /\ n.battle = m.battle /\ n.open = m.open /\ n.draft = m.draft
  BY <1>1 DEF AMirror
<1> QED
  BY <1>3, <1>4

LEMMA BodyOnward ==
  ASSUME NEW m \in AMirror, Sensible(m), NEW n \in Bodies(m)
  PROVE n \in AMirror /\ Sensible(n) /\ Onward(m, n)
<1> USE ClientAssumption, Kinds
<1>1. CASE n \in Started(m)
  <2> DEFINE begun == [m EXCEPT !.battle = @ + 1, !.open = TRUE]
  <2>1. m.draft \in {"none", "done"} /\ m.battle < Battles /\ n \in TurnOf(begun, 1)
    BY <1>1 DEF Started
  <2>2. begun \in AMirror
    <3>1. m.battle + 1 \in Nat
      OBVIOUS
    <3> QED BY <3>1 DEF AMirror
  <2>3. begun.battle = m.battle + 1 /\ begun.open /\ begun.life = m.life /\ begun.draft = m.draft
    BY DEF AMirror
  <2> HIDE DEF begun
  <2>4. n \in AMirror /\ n.turn = 1 /\ n.prompt \in {0, 1} /\ n.life = m.life
        /\ n.battle = m.battle + 1 /\ n.open /\ n.draft = m.draft
    BY <2>1, <2>2, <2>3, Turned
  <2> QED BY <2>1, <2>4 DEF Sensible, Onward
<1>2. CASE n \in Played(m)
  <2> DEFINE settled == [m EXCEPT !.turn = 0, !.prompt = 0, !.again = FALSE]
  <2>0. settled \in AMirror
    BY DEF AMirror
  <2>1. /\ settled.turn = 0 /\ settled.prompt = 0 /\ settled.life = m.life
        /\ settled.battle = m.battle /\ settled.open = m.open
    BY DEF AMirror
  <2>2. \/ m.turn # 0 /\ n \in TurnOf(m, m.turn + 1)
        \/ n = [settled EXCEPT !.over = TRUE]
        \/ \E due \in BOOLEAN : n = [settled EXCEPT !.draft = IF Drafted THEN "open" ELSE "none",
                                                    !.due = Drafted /\ due]
    BY <1>2 DEF Played
  <2>3. CASE m.turn # 0 /\ n \in TurnOf(m, m.turn + 1)
    <3>1. m.turn + 1 \in Nat
      OBVIOUS
    <3>2. n \in AMirror /\ n.turn = m.turn + 1 /\ n.prompt \in {0, m.turn + 1} /\ n.life = m.life
          /\ n.battle = m.battle /\ n.open = m.open /\ n.draft = m.draft
      BY <2>3, <3>1, Turned
    <3> QED BY <2>3, <3>2 DEF Sensible, Onward
  <2> HIDE DEF settled
  <2>4. CASE n = [settled EXCEPT !.over = TRUE]
    <3>1. n \in AMirror
      BY <2>0, <2>4 DEF AMirror
    <3>2. n.turn = 0 /\ n.prompt = 0 /\ n.life = m.life /\ n.battle = m.battle /\ n.open = m.open
      BY <2>0, <2>1, <2>4 DEF AMirror
    <3> QED BY <3>1, <3>2 DEF Sensible, Onward
  <2>5. ASSUME NEW due \in BOOLEAN,
               n = [settled EXCEPT !.draft = IF Drafted THEN "open" ELSE "none", !.due = Drafted /\ due]
        PROVE n \in AMirror /\ Sensible(n) /\ Onward(m, n)
    <3>0. PICK step \in {"open", "none"}, owed \in BOOLEAN :
            n = [settled EXCEPT !.draft = step, !.due = owed]
      BY <2>5
    <3>1. n \in AMirror
      BY <2>0, <3>0 DEF AMirror
    <3>2. n.turn = 0 /\ n.prompt = 0 /\ n.life = m.life /\ n.battle = m.battle /\ n.open = m.open
      BY <2>0, <2>1, <3>0 DEF AMirror
    <3> QED BY <3>1, <3>2 DEF Sensible, Onward
  <2> QED BY <2>2, <2>3, <2>4, <2>5
<1>3. CASE n \in DraftedOn(m)
  <2>1. PICK step \in {"open", "arrange", "done"}, owed \in BOOLEAN, more \in Nat :
          m.draft \in {"open", "arrange"} /\ n = [m EXCEPT !.recorded = more, !.due = owed, !.draft = step]
    <3>1. CASE m.draft = "open" /\ (m.recorded + 1) % Picks # 0
      <4>0. DraftedOn(m) = { [m EXCEPT !.recorded = @ + 1, !.due = due] : due \in BOOLEAN }
        BY <3>1 DEF DraftedOn
      <4>1. PICK owed \in BOOLEAN : n = [m EXCEPT !.recorded = @ + 1, !.due = owed]
        BY <1>3, <4>0
      <4>2. n = [m EXCEPT !.recorded = m.recorded + 1, !.due = owed, !.draft = "open"]
        BY <3>1, <4>1 DEF AMirror
      <4>3. m.recorded + 1 \in Nat
        OBVIOUS
      <4> QED BY <3>1, <4>2, <4>3
    <3>2. CASE m.draft = "open" /\ (m.recorded + 1) % Picks = 0
      <4>1. n = [m EXCEPT !.recorded = m.recorded + 1, !.due = TRUE, !.draft = "arrange"]
        BY <1>3, <3>2 DEF DraftedOn
      <4>2. m.recorded + 1 \in Nat
        OBVIOUS
      <4> QED BY <3>2, <4>1, <4>2
    <3>3. CASE m.draft = "arrange"
      <4>1. n = [m EXCEPT !.due = FALSE, !.draft = "done"]
        BY <1>3, <3>3 DEF DraftedOn
      <4>2. n = [m EXCEPT !.recorded = m.recorded, !.due = FALSE, !.draft = "done"]
        BY <4>1 DEF AMirror
      <4> QED BY <3>3, <4>2
    <3>4. CASE m.draft \notin {"open", "arrange"}
      BY <1>3, <3>4 DEF DraftedOn
    <3> QED BY <3>1, <3>2, <3>3, <3>4
  <2>2. m.turn = 0 /\ m.prompt = 0
    BY <2>1 DEF Sensible
  <2>3. n \in AMirror
    BY <2>1 DEF AMirror
  <2>4. n.turn = m.turn /\ n.prompt = m.prompt /\ n.life = m.life /\ n.battle = m.battle
        /\ n.open = m.open
    BY <2>1 DEF AMirror
  <2> QED BY <2>2, <2>3, <2>4 DEF Sensible, Onward
<1>4. CASE n = [m EXCEPT !.over = TRUE, !.open = FALSE, !.turn = 0, !.prompt = 0, !.due = FALSE]
  <2>1. n \in AMirror
    BY <1>4 DEF AMirror
  <2>2. n.turn = 0 /\ n.prompt = 0 /\ n.life = m.life /\ n.battle = m.battle /\ n.open = FALSE
    BY <1>4 DEF AMirror
  <2> QED BY <2>1, <2>2 DEF Sensible, Onward
<1>5. CASE n = [m EXCEPT !.again = m.prompt # 0]
  <2>0. PICK said \in BOOLEAN : said = (m.prompt # 0) /\ n = [m EXCEPT !.again = said]
    BY <1>5
  <2>1. n \in AMirror
    BY <2>0 DEF AMirror
  <2>2. /\ n.again = said /\ n.life = m.life /\ n.battle = m.battle /\ n.open = m.open
        /\ n.turn = m.turn /\ n.prompt = m.prompt /\ n.draft = m.draft
    BY <2>0 DEF AMirror
  <2> QED BY <2>0, <2>1, <2>2 DEF Sensible, Onward
<1> QED
  BY <1>1, <1>2, <1>3, <1>4, <1>5 DEF Bodies

\* A mirror behind its welcome.
LEMMA Fresh ==
  ASSUME NEW life \in Nat, NEW due \in BOOLEAN
  PROVE /\ Welcomed(life, due) \in AMirror /\ Sensible(Welcomed(life, due))
        /\ Welcomed(life, due).prompt = 0 /\ Welcomed(life, due).turn = 0
        /\ Welcomed(life, due).life = life
<1>1. PICK step \in {"open", "none"}, owed \in BOOLEAN :
        /\ step = (IF Drafted THEN "open" ELSE "none") /\ owed = (Drafted /\ due)
        /\ Welcomed(life, due) =
             [life |-> life, battle |-> 0, open |-> FALSE, turn |-> 0, prompt |-> 0, draft |-> step,
              due |-> owed, recorded |-> 0, again |-> FALSE, over |-> FALSE]
  BY DEF Welcomed
<1> QED
  BY <1>1, ClientAssumption DEF AMirror, Sensible

-----------------------------------------------------------------------------
(* The screen, a reading further on. *)

LEMMA Fights ==
  ASSUME NEW g \in Match, mirror[g] \in AMirror
  PROVE /\ mirror[g].open => /\ FightOf(g) = <<g, mirror[g].life, mirror[g].battle>>
                             /\ FightOf(g) \in Nat \X Nat \X Nat /\ FightOf(g) # NoFight
        /\ ~mirror[g].open => FightOf(g) = NoFight
BY DEF FightOf, NoFight, AMirror, Match

LEMMA Attached ==
  ASSUME battle \in AScreen, NEW g \in Match, mirror[g] \in AMirror, mirror[g].open
  PROVE LET next == Attach(battle, g)
        IN /\ next \in AScreen /\ next.live /\ next.fight = FightOf(g)
           /\ next.pending = mirror[g].prompt
           /\ \/ next.answered = 0
              \/ next.answered = battle.answered /\ battle.fight = FightOf(g)
<1> DEFINE prompt == mirror[g].prompt
           kept == IF battle.fight = FightOf(g) THEN [battle EXCEPT !.live = TRUE]
                   ELSE [NewPlayScreen EXCEPT !.live = TRUE, !.fight = FightOf(g)]
<1>1. /\ kept \in AScreen /\ kept.live /\ kept.fight = FightOf(g)
      /\ kept.answered = 0 \/ (kept.answered = battle.answered /\ battle.fight = FightOf(g))
  BY Fights DEF AScreen, NewPlayScreen
<1>2. prompt \in Nat
  BY DEF AMirror
<1>3. \/ Attach(battle, g) = [kept EXCEPT !.pending = 0, !.aiming = FALSE] /\ prompt = 0
      \/ Attach(battle, g) = [kept EXCEPT !.pending = prompt]
      \/ Attach(battle, g) = [kept EXCEPT !.pending = prompt, !.answered = 0, !.aiming = FALSE]
  BY DEF Attach
<1> DEFINE next == Attach(battle, g)
<1> HIDE DEF kept, prompt
<1> HIDE DEF next
<1>4. ASSUME next = [kept EXCEPT !.pending = 0, !.aiming = FALSE], prompt = 0
      PROVE  /\ next \in AScreen /\ next.live /\ next.fight = FightOf(g) /\ next.pending = prompt
             /\ next.answered \in {0, kept.answered}
  BY <1>1, <1>2, <1>4 DEF AScreen
<1>5. ASSUME next = [kept EXCEPT !.pending = prompt]
      PROVE  /\ next \in AScreen /\ next.live /\ next.fight = FightOf(g) /\ next.pending = prompt
             /\ next.answered \in {0, kept.answered}
  BY <1>1, <1>2, <1>5 DEF AScreen
<1>6. ASSUME next = [kept EXCEPT !.pending = prompt, !.answered = 0, !.aiming = FALSE]
      PROVE  /\ next \in AScreen /\ next.live /\ next.fight = FightOf(g) /\ next.pending = prompt
             /\ next.answered \in {0, kept.answered}
  BY <1>1, <1>2, <1>6 DEF AScreen
<1>7. /\ next \in AScreen /\ next.live /\ next.fight = FightOf(g) /\ next.pending = prompt
      /\ next.answered \in {0, kept.answered}
  BY <1>3, <1>4, <1>5, <1>6 DEF next
<1> QED
  BY <1>1, <1>7 DEF prompt, next

\* A redraw shows the session's own mirror, or nothing new.
LEMMA Redrawn ==
  ASSUME Typed, OneMatch, Redraw
  PROVE LET g == session.client
        IN /\ g \in Match /\ battle' \in AScreen
           /\ ui' = "idle" /\ UNCHANGED <<session, answers, dial, play, mirror, dropped>>
           /\ mirror[g].open => /\ battle'.live /\ battle'.fight = FightOf(g)
                                /\ battle'.pending = mirror[g].prompt
                                /\ \/ battle'.answered = 0
                                   \/ battle'.answered = battle.answered /\ battle.fight = FightOf(g)
           /\ ~mirror[g].open => battle' = battle
<1> DEFINE g == session.client
<1>1. g \in Match /\ mirror[g] \in AMirror
  BY ClientAssumption DEF OneMatch, Redraw, Match, Typed
<1>2. CASE mirror[g].open
  <2>1. battle' = Attach(battle, g)
    BY <1>1, <1>2, Fights DEF Redraw, Stepped
  <2> QED BY <1>1, <1>2, <2>1, Attached DEF Redraw, shared, Typed
<1>3. CASE ~mirror[g].open
  <2>1. battle' = battle
    BY <1>1, <1>3, Fights DEF Redraw, Stepped
  <2> QED BY <1>1, <1>3, <2>1 DEF Redraw, shared, Typed
<1> QED
  BY <1>2, <1>3

-----------------------------------------------------------------------------
(* The other steps, one by one. *)

\* What is browsed leaves a live battle alone, and opens one of this client's own elsewhere.
LEMMA Looks ==
  ASSUME Typed, Browses
  PROVE /\ battle'.live => /\ battle.live /\ battle'.fight = battle.fight
                           /\ battle'.pending = battle.pending
        /\ \/ /\ battle'.fight = battle.fight /\ battle'.pending = battle.pending
              /\ battle'.answered = battle.answered
           \/ battle'.fight = Local
<1>1. CASE battle' = battle
  BY <1>1
<1>2. CASE battle' = [battle EXCEPT !.aiming = FALSE]
  BY <1>2 DEF Typed, AScreen
<1>3. CASE battle' = [battle EXCEPT !.aiming = TRUE]
  BY <1>3 DEF Typed, AScreen
<1>4. CASE battle' = OpenLocal(battle)
  <2>1. CASE battle.live
    BY <1>4, <2>1 DEF OpenLocal
  <2>2. CASE ~battle.live
    BY <1>4, <2>2 DEF OpenLocal, NewPlayScreen
  <2> QED BY <2>1, <2>2
<1> QED
  BY <1>1, <1>2, <1>3, <1>4 DEF Browses

\* A reader who waits for one match to be gone dials with nothing else going.
LEMMA Submits ==
  ASSUME Typed, OneMatch, Playing, Patient, Submit
  PROVE /\ ui = "idle" /\ UNCHANGED <<ui, battle, dropped>>
        /\ session' \in [client : {0}, left : BOOLEAN, opening : Match]
        /\ session'.opening = session.opening + 1
        /\ DOMAIN dial' = Match /\ dial'[session.opening + 1] = "dialling"
        /\ \A g \in Match : g # session.opening + 1 => dial'[g] = dial[g]
        /\ \A g \in Match : ~Active(g) /\ ~Dialled(g) /\ play'[g].at = play[g].at
        /\ play' \in [Match -> APlay] /\ mirror' \in [Match -> AMirror]
        /\ \A g \in Match : Sensible(mirror'[g])
        /\ answers' \in [Match -> Keys]
<1>1. /\ ui = "idle" /\ UNCHANGED <<ui, battle, dropped>> /\ session.opening < Dials /\ ~Busy /\ Open
  BY DEF Submit, Keystroke
<1>2. session.opening + 1 \in Match /\ session.opening \in Nat
  BY <1>1, ClientAssumption DEF Typed, Match
<1>3. session' = [client |-> 0, left |-> FALSE, opening |-> session.opening + 1]
  BY <1>1 DEF Open
<1>4. /\ DOMAIN dial' = Match /\ dial'[session.opening + 1] = "dialling"
      /\ \A g \in Match : g # session.opening + 1 => dial'[g] = dial[g]
  BY <1>1, <1>2 DEF Open, Typed
<1>5. \A g \in Match : ~Active(g) /\ ~Dialled(g)
  BY <1>1 DEF Busy, Active, Dialled
<1>6. play' = [g \in Match |-> IF play[g].at = "gone" THEN [Idle EXCEPT !.at = "gone"] ELSE play[g]]
  BY <1>1 DEF Open, Released
<1>7. /\ [Idle EXCEPT !.at = "gone"] \in APlay
      /\ [Idle EXCEPT !.at = "gone"].at = "gone"
  BY DEF Idle, APlay, Places
<1>8. \A g \in Match : play'[g] \in APlay /\ play'[g].at = play[g].at
  BY <1>6, <1>7 DEF Typed
<1>9. play' \in [Match -> APlay]
  BY <1>6, <1>7 DEF Typed
<1>10. mirror' = [g \in Match |-> IF play[g].at = "gone" THEN Welcomed(0, FALSE) ELSE mirror[g]]
  BY <1>1 DEF Open, Released
<1>11. Welcomed(0, FALSE) \in AMirror /\ Sensible(Welcomed(0, FALSE))
  BY Fresh
<1>12. mirror' \in [Match -> AMirror] /\ \A g \in Match : Sensible(mirror'[g])
  BY <1>10, <1>11 DEF Typed, Playing
<1>13. answers' = [g \in Match |-> IF play[g].at = "gone" THEN Nothing ELSE answers[g]]
  BY <1>1 DEF Open, Released
<1>14. answers' \in [Match -> Keys]
  BY <1>13 DEF Typed, Keys
<1> QED
  BY <1>1, <1>2, <1>3, <1>4, <1>5, <1>8, <1>9, <1>12, <1>14

LEMMA Joins ==
  ASSUME Typed, OneMatch, NEW g \in Match, Joined(g)
  PROVE /\ ui = "idle" /\ ui' \in {"idle", "told"} /\ UNCHANGED <<battle, answers, dropped>>
        /\ g = session.opening /\ session.client = 0
        /\ \A h \in Match : ~Active(h)
        /\ session' \in [client : {g}, left : BOOLEAN, opening : {g}]
        /\ DOMAIN dial' = Match /\ dial'[g] = "done" /\ \A h \in Match \ {g} : dial'[h] = dial[h]
        /\ play' \in [Match -> APlay] /\ play'[g].at = "ask" /\ Others(g)
        /\ mirror' \in [Match -> AMirror] /\ \A h \in Match \ {g} : mirror'[h] = mirror[h]
        /\ Sensible(mirror'[g]) /\ mirror'[g].prompt = 0 /\ mirror'[g].turn = 0
<1>1. g = session.opening /\ session.client = 0 /\ play[g].at = "none"
  BY DEF Joined, OneMatch, Dialled
<1>2. \A h \in Match : ~Active(h)
  BY <1>1, ClientAssumption DEF OneMatch, Active, Match
<1>3. ui = "idle" /\ ui' \in {"idle", "told"} /\ UNCHANGED <<battle, answers, dropped>>
  BY DEF Joined
<1>4. session' \in [client : {g}, left : BOOLEAN, opening : {g}]
  BY <1>1 DEF Joined, Typed
<1>5. DOMAIN dial' = Match /\ dial'[g] = "done" /\ \A h \in Match \ {g} : dial'[h] = dial[h]
  BY DEF Joined, Typed
<1>6. play' \in [Match -> APlay] /\ play'[g].at = "ask" /\ Others(g)
  <2>1. session.opening \in Nat /\ "ask" \in Places
    BY DEF Typed, Places
  <2>2. play' = [play EXCEPT ![g].at = "ask", ![g].opening = session.opening]
    BY DEF Joined
  <2> QED BY <2>1, <2>2 DEF Typed, APlay, Others
<1>7. PICK due \in BOOLEAN : mirror' = [mirror EXCEPT ![g] = Welcomed(0, due)]
  BY DEF Joined
<1>8. /\ Welcomed(0, due) \in AMirror /\ Sensible(Welcomed(0, due))
      /\ Welcomed(0, due).prompt = 0 /\ Welcomed(0, due).turn = 0
  BY Fresh
<1>9. /\ mirror' \in [Match -> AMirror] /\ \A h \in Match \ {g} : mirror'[h] = mirror[h]
      /\ mirror'[g] = Welcomed(0, due)
  BY <1>7, <1>8 DEF Typed
<1> QED
  BY <1>1, <1>2, <1>3, <1>4, <1>5, <1>6, <1>8, <1>9

LEMMA Receives ==
  ASSUME Typed, Playing, NEW g \in Match, Receive(g)
  PROVE /\ UNCHANGED <<ui, battle, session, answers, dial, dropped>>
        /\ Active(g) /\ play' \in [Match -> APlay] /\ play'[g].at = "telling" /\ Others(g)
        /\ play'[g].asks = play[g].asks
        /\ mirror' \in [Match -> AMirror] /\ \A h \in Match \ {g} : mirror'[h] = mirror[h]
        /\ Sensible(mirror'[g]) /\ Onward(mirror[g], mirror'[g])
<1>1. PICK m \in Bodies(mirror[g]) : mirror' = [mirror EXCEPT ![g] = m]
  BY DEF Receive
<1>2. m \in AMirror /\ Sensible(m) /\ Onward(mirror[g], m)
  BY BodyOnward DEF Typed, Playing
<1>3. /\ mirror' \in [Match -> AMirror] /\ \A h \in Match \ {g} : mirror'[h] = mirror[h]
      /\ mirror'[g] = m
  BY <1>1, <1>2 DEF Typed
<1>4. "telling" \in Places /\ Goes(g, "taking", "telling")
  BY DEF Places, Receive
<1>5. play[g].at = "taking" /\ play' \in [Match -> APlay] /\ play'[g].at = "telling" /\ Others(g)
      /\ play'[g].asks = play[g].asks
  BY <1>4, Going
<1>6. UNCHANGED <<ui, battle, session, answers, dial, dropped>>
  BY DEF Receive, model, shared
<1> QED
  BY <1>2, <1>3, <1>5, <1>6 DEF Active

LEMMA Swaps ==
  ASSUME Typed, OneMatch, NEW g \in Match, Swap(g)
  PROVE /\ UNCHANGED <<ui, battle, session, answers, dial, dropped>>
        /\ Active(g) /\ play' \in [Match -> APlay] /\ play'[g].at = "ask" /\ Others(g)
        /\ mirror' \in [Match -> AMirror] /\ \A h \in Match \ {g} : mirror'[h] = mirror[h]
        /\ Sensible(mirror'[g]) /\ mirror'[g].life = mirror[g].life + 1
        /\ mirror'[g].prompt = 0 /\ mirror'[g].turn = 0
<1>1. Active(g) /\ session.client = g
  BY DEF Swap, Active, OneMatch
<1>2. UNCHANGED <<ui, battle, session, answers, dial, dropped>>
  <2>1. session' = session
    BY <1>1 DEF Swap, Typed
  <2> QED BY <2>1 DEF Swap, model
<1>3. play' \in [Match -> APlay] /\ play'[g].at = "ask" /\ Others(g)
  <2>1. "ask" \in Places /\ play' = [play EXCEPT ![g].at = "ask", ![g].shut = FALSE]
    BY DEF Swap, Places
  <2> QED BY <2>1 DEF Typed, APlay, Others
<1>4. mirror[g].life \in Nat /\ mirror[g].life + 1 \in Nat
  BY Kinds DEF Typed
<1>5. PICK due \in BOOLEAN : mirror' = [mirror EXCEPT ![g] = Welcomed(mirror[g].life + 1, due)]
  BY DEF Swap
<1> DEFINE fresh == Welcomed(mirror[g].life + 1, due)
<1>6. /\ fresh \in AMirror /\ Sensible(fresh)
      /\ fresh.prompt = 0 /\ fresh.turn = 0 /\ fresh.life = mirror[g].life + 1
  BY <1>4, Fresh
<1>7. /\ mirror' \in [Match -> AMirror] /\ \A h \in Match \ {g} : mirror'[h] = mirror[h]
      /\ mirror'[g] = fresh
  BY <1>5, <1>6 DEF Typed
<1> QED
  BY <1>1, <1>2, <1>3, <1>6, <1>7

\* A chooser reads the slot of the session's opening, which is its own.
LEMMA ReadsSlot ==
  ASSUME Typed, OneMatch, NEW g \in Match, ReadSlot(g)
  PROVE /\ UNCHANGED <<ui, battle, session, dial, mirror, dropped>>
        /\ play[g].at = "turn" /\ play' \in [Match -> APlay] /\ play'[g].asks = g /\ Others(g)
        /\ \/ About(answers[g], mirror[g]) /\ play'[g].at = "reading"
           \/ ~About(answers[g], mirror[g]) /\ play'[g].at = "calling"
        /\ answers' = [answers EXCEPT ![g] = Nothing]
<1>1. g = session.opening /\ play[g].at = "turn"
  BY DEF ReadSlot, OneMatch, Active
<1>2. PICK to \in {"reading", "calling"} :
        /\ play' = [play EXCEPT ![g].asks = g, ![g].at = to]
        /\ \/ About(answers[g], mirror[g]) /\ to = "reading"
           \/ ~About(answers[g], mirror[g]) /\ to = "calling"
  <2>1. CASE About(answers[g], mirror[g])
    BY <1>1, <2>1 DEF ReadSlot
  <2>2. CASE ~About(answers[g], mirror[g])
    BY <1>1, <2>2 DEF ReadSlot
  <2> QED BY <2>1, <2>2
<1>3. "reading" \in Places /\ "calling" \in Places /\ g \in Nat
  BY ClientAssumption DEF Places, Match
<1>4. play' \in [Match -> APlay] /\ play'[g].asks = g /\ play'[g].at = to /\ Others(g)
  BY <1>2, <1>3, Placed
<1> QED
  BY <1>1, <1>2, <1>4 DEF ReadSlot, model

LEMMA Hears ==
  ASSUME Typed, OneMatch, NEW g \in Match, Choose(g)
  PROVE /\ UNCHANGED <<ui, battle, session, dial, mirror, dropped>>
        /\ play[g].at = "choosing" /\ play[g].asks = g
        /\ play' \in [Match -> APlay] /\ play'[g].at = "reading" /\ play'[g].asks = g /\ Others(g)
        /\ answers' \in {answers, [answers EXCEPT ![g] = Nothing]}
<1>1. play[g].at = "choosing" /\ play[g].asks = g
  BY DEF Choose, OneMatch, Active
<1>2. Goes(g, "choosing", "reading") /\ "reading" \in Places
  BY DEF Choose, Goes, Places
<1>3. /\ play' \in [Match -> APlay] /\ play'[g].at = "reading" /\ Others(g)
      /\ play'[g].asks = play[g].asks
  BY <1>2, Going
<1> QED
  BY <1>1, <1>3 DEF Choose, model

-----------------------------------------------------------------------------
(* The invariant. *)

LEMMA InitInv == Init => IInv
<1> SUFFICES ASSUME Init PROVE IInv
  OBVIOUS
<1> USE ClientAssumption
<1>1. Welcomed(0, FALSE) \in AMirror /\ Sensible(Welcomed(0, FALSE)) /\ Welcomed(0, FALSE).prompt = 0
  BY Fresh
<1>2. mirror \in [Match -> AMirror] /\ \A g \in Match : Sensible(mirror[g]) /\ mirror[g].prompt = 0
  BY <1>1 DEF Init
<1>3. Idle \in APlay /\ Idle.at = "none"
  BY DEF Idle, APlay, Places
<1>4. play \in [Match -> APlay] /\ \A g \in Match : play[g].at = "none"
  BY <1>3 DEF Init
<1>5. battle \in AScreen /\ ~battle.live /\ battle.fight = NoFight
  BY DEF Init, NewPlayScreen, AScreen
<1>6. Typed
  BY <1>2, <1>4, <1>5 DEF Init, Typed, Keys
<1>7. OneMatch
  BY <1>4 DEF Init, OneMatch, Active, Dialled, Match
<1>8. Playing /\ Showing /\ Waiting /\ Heard
  BY <1>2, <1>4, <1>5 DEF Playing, Showing, Active, Waiting, Heard
<1>9. Behind
  BY <1>5 DEF Behind
<1> QED
  BY <1>6, <1>7, <1>8, <1>9 DEF IInv

LEMMA TypedNext ==
  ASSUME Typed, OneMatch, Playing, Patient, Steps PROVE Typed'
<1>1. CASE Browses
  <2>1. battle' \in AScreen
    <3>1. \A aims \in BOOLEAN : [battle EXCEPT !.aiming = aims] \in AScreen
      BY DEF Typed, AScreen
    <3>2. OpenLocal(battle) \in AScreen
      <4>1. [NewPlayScreen EXCEPT !.fight = Local, !.pending = 1] \in AScreen
        BY DEF NewPlayScreen, Local, AScreen
      <4> QED BY <4>1 DEF OpenLocal, Typed
    <3> QED BY <1>1, <3>1, <3>2 DEF Browses, Typed
  <2> QED BY <1>1, <2>1 DEF Browses, Typed
<1>2. CASE Answers
  <2>1. battle' \in AScreen
    BY <1>2 DEF Answers, Typed, AScreen
  <2>2. Pressed \in Keys
    <3>1. battle.fight[3] \in 1..Battles /\ battle.pending \in Nat \ {0}
      BY <1>2 DEF Answers, Playing, Typed, AScreen
    <3> QED BY <3>1 DEF Pressed, Keys
  <2>3. answers' \in [Match -> Keys]
    BY <1>2, <2>2 DEF Answers, Answer, Typed
  <2> QED BY <1>2, <2>1, <2>3 DEF Answers, Typed
<1>3. CASE Submit
  <2>1. session' \in [client : Nat, left : BOOLEAN, opening : Nat]
    BY <1>3, Submits, ClientAssumption DEF Match
  <2> QED BY <1>3, <2>1, Submits DEF Typed
<1>4. CASE Leaves
  <2>0. NewPlayScreen \in AScreen
    BY DEF NewPlayScreen, AScreen
  <2>1. battle' \in AScreen
    BY <1>4, <2>0 DEF Leaves, Typed
  <2>2. session' \in [client : Nat, left : BOOLEAN, opening : Nat]
    BY <1>4 DEF Leaves, Typed
  <2>3. DOMAIN dial' = Match
    BY <1>4 DEF Leaves, Typed
  <2> QED BY <1>4, <2>1, <2>2, <2>3 DEF Leaves, Typed
<1>5. CASE Wakes
  BY <1>5 DEF Wakes, Typed
<1>6. CASE Redraw
  BY <1>6, Redrawn DEF Typed
<1>7. CASE Answered
  BY <1>7 DEF Answered, Typed
<1>8. ASSUME NEW g \in Match, Joined(g) PROVE Typed'
  <2>1. session' \in [client : Nat, left : BOOLEAN, opening : Nat]
    BY <1>8, Joins, ClientAssumption DEF Match
  <2> QED BY <1>8, <2>1, Joins DEF Typed
<1>9. ASSUME NEW g \in Match, Strolls(g) PROVE Typed'
  BY <1>9 DEF Strolls, Typed
<1>10. ASSUME NEW g \in Match, Reports(g) PROVE Typed'
  BY <1>10 DEF Reports, Typed
<1>11. ASSUME NEW g \in Match, Receive(g) PROVE Typed'
  BY <1>11, Receives DEF Typed
<1>12. ASSUME NEW g \in Match, ReadSlot(g) PROVE Typed'
  BY <1>12, ReadsSlot DEF Typed, Keys
<1>13. ASSUME NEW g \in Match, Choose(g) PROVE Typed'
  BY <1>13, Hears DEF Typed, Keys
<1>14. ASSUME NEW g \in Match, Swap(g) PROVE Typed'
  BY <1>14, Swaps DEF Typed
<1>15. CASE UNCHANGED <<ui, battle, session, answers, dial, play, mirror, dropped>>
  BY <1>15 DEF Typed
<1> QED
  BY <1>1, <1>2, <1>3, <1>4, <1>5, <1>6, <1>7, <1>8, <1>9, <1>10, <1>11, <1>12, <1>13, <1>14,
     <1>15 DEF Steps

\* A goroutine that goes on is still the only one.
LEMMA OnlyOne ==
  ASSUME Typed, OneMatch, NEW g \in Match, Active(g), Others(g), UNCHANGED <<session, dial>>,
         play'[g].at \in {"calling", "choosing"} => play'[g].asks = g,
         ui' # "reading" \/ ui' = ui
  PROVE OneMatch'
<1> USE ClientAssumption
<1>1. g = session.opening /\ session.client = g /\ session' = session
  BY DEF OneMatch
<1>2. \A h \in Match : h # g => play'[h] = play[h] /\ ~Active(h)
  BY <1>1 DEF Others, OneMatch
<1>3. \A h \in Match : ~Dialled(h)
  BY <1>1 DEF OneMatch, Match
<1>4. \A h \in Match : ~Dialled(h)' /\ dial'[h] = dial[h]
  BY <1>3 DEF Dialled
<1>5. ASSUME NEW h \in Match, Active(h)' PROVE h = g
  BY <1>2, <1>5 DEF Active
<1>6. ASSUME NEW h \in Match, h > session.opening PROVE dial'[h] = "none" /\ play'[h].at = "none"
  BY <1>1, <1>2, <1>4, <1>6 DEF OneMatch, Match
<1>7. ASSUME NEW h \in Match, play'[h].at \in {"calling", "choosing"} PROVE play'[h].asks = h
  <2>1. h = g
    BY <1>5, <1>7 DEF Active
  <2> QED BY <1>7, <2>1
<1> QED
  BY <1>1, <1>4, <1>5, <1>6, <1>7 DEF OneMatch

LEMMA OneMatchNext ==
  ASSUME Typed, OneMatch, Playing, Patient, Steps PROVE OneMatch'
<1> USE ClientAssumption
<1>1. CASE Browses
  BY <1>1 DEF Browses, OneMatch, Active, Dialled
<1>2. CASE Answers
  BY <1>2 DEF Answers, OneMatch, Active, Dialled
<1>3. CASE Submit
  <2>1. session'.client = 0 /\ session'.opening \in Match /\ session'.opening = session.opening + 1
    BY <1>3, Submits
  <2>2. ui' = "idle"
    BY <1>3, Submits
  <2>3. \A g \in Match : ~Active(g)'
    BY <1>3, Submits DEF Active
  <2>4. \A g \in Match : play'[g].at \notin {"calling", "choosing"}
    BY <2>3 DEF Active
  <2>5. ASSUME NEW g \in Match, Dialled(g)' PROVE g = session'.opening /\ play'[g].at = "none"
    <3>1. g = session.opening + 1
      BY <1>3, <2>5, Submits DEF Dialled
    <3>2. play[g].at = "none"
      BY <3>1 DEF OneMatch, Typed, Match
    <3> QED BY <1>3, <2>1, <3>1, <3>2, Submits
  <2>6. ASSUME NEW g \in Match, g > session'.opening PROVE dial'[g] = "none" /\ play'[g].at = "none"
    <3>1. g > session.opening /\ g # session.opening + 1
      BY <2>1, <2>6 DEF Typed, Match
    <3> QED BY <1>3, <3>1, Submits DEF OneMatch
  <2> QED BY <2>1, <2>2, <2>3, <2>4, <2>5, <2>6 DEF OneMatch, Match
<1>4. CASE Leaves
  <2>1. session'.client = session.client /\ session'.opening = session.opening
    BY <1>4 DEF Leaves, Typed
  <2>2. \A g \in Match : dial'[g] = dial[g] \/ (dial[g] = "failed" /\ dial'[g] = "done")
    BY <1>4 DEF Leaves, Typed
  <2>3. ui' = ui /\ \A g \in Match : play'[g].at = play[g].at /\ play'[g].asks = play[g].asks
    BY <1>4 DEF Leaves
  <2>4. \A g \in Match : g > session.opening => dial'[g] = "none"
    BY <2>2 DEF OneMatch
  <2>5. \A g \in Match : Dialled(g)' => Dialled(g)
    BY <2>2 DEF Dialled
  <2>6. \A g \in Match : Active(g)' => Active(g)
    BY <2>3 DEF Active
  <2> QED BY <2>1, <2>3, <2>4, <2>5, <2>6 DEF OneMatch
<1>5. CASE Wakes
  BY <1>5 DEF Wakes, OneMatch, Active, Dialled
<1>6. CASE Redraw
  BY <1>6, Redrawn DEF OneMatch, Active, Dialled
<1>7. CASE Answered
  BY <1>7 DEF Answered, OneMatch, Active, Dialled, Typed
<1>8. ASSUME NEW g \in Match, Joined(g) PROVE OneMatch'
  <2>1. session'.client = g /\ session'.opening = g /\ session.opening = g
    BY <1>8, Joins
  <2>2. \A h \in Match \ {g} : ~Active(h)' /\ play'[h] = play[h]
    BY <1>8, Joins DEF Active, Others
  <2>3. \A h \in Match : ~Dialled(h)'
    <3>1. \A h \in Match : Dialled(h) => h = g
      BY <1>8, Joins DEF OneMatch
    <3> QED BY <1>8, <3>1, Joins DEF Dialled
  <2>4. play'[g].at = "ask" /\ ui' # "reading"
    BY <1>8, Joins
  <2>5. \A h \in Match : h > g => dial'[h] = "none" /\ play'[h].at = "none"
    BY <1>8, <2>1, <2>2, Joins DEF OneMatch, Match
  <2>6. g \in 0..Dials
    BY DEF Match
  <2> QED BY <2>1, <2>2, <2>3, <2>4, <2>5, <2>6 DEF OneMatch, Active
<1>9. ASSUME NEW g \in Match, Strolls(g) PROVE OneMatch'
  BY <1>9, OnlyOne DEF Strolls
<1>10. ASSUME NEW g \in Match, Reports(g) PROVE OneMatch'
  <2>1. play'[g].at \in {"calling", "choosing"} => play'[g].asks = g
    BY <1>10 DEF Reports, OneMatch
  <2> QED BY <1>10, <2>1, OnlyOne DEF Reports
<1>11. ASSUME NEW g \in Match, Receive(g) PROVE OneMatch'
  BY <1>11, Receives, OnlyOne
<1>12. ASSUME NEW g \in Match, ReadSlot(g) PROVE OneMatch'
  <2>1. Active(g)
    BY <1>12, ReadsSlot DEF Active
  <2> QED BY <1>12, <2>1, ReadsSlot, OnlyOne
<1>13. ASSUME NEW g \in Match, Choose(g) PROVE OneMatch'
  <2>1. Active(g)
    BY <1>13, Hears DEF Active
  <2> QED BY <1>13, <2>1, Hears, OnlyOne
<1>14. ASSUME NEW g \in Match, Swap(g) PROVE OneMatch'
  BY <1>14, Swaps, OnlyOne
<1>15. CASE UNCHANGED <<ui, battle, session, answers, dial, play, mirror, dropped>>
  BY <1>15 DEF OneMatch, Active, Dialled
<1> QED
  BY <1>1, <1>2, <1>3, <1>4, <1>5, <1>6, <1>7, <1>8, <1>9, <1>10, <1>11, <1>12, <1>13, <1>14,
     <1>15 DEF Steps

\* A turn that is open is the turn of an open battle of the series.
LEMMA OpenTurn ==
  ASSUME Typed, Playing, NEW g \in Match, mirror[g].prompt # 0
  PROVE /\ mirror[g].open /\ mirror[g].turn = mirror[g].prompt
        /\ mirror[g].battle \in 1..Battles
        /\ FightOf(g) = <<g, mirror[g].life, mirror[g].battle>>
<1>1. mirror[g] \in AMirror /\ Sensible(mirror[g])
  BY DEF Typed, Playing
<1>2. mirror[g].open /\ mirror[g].turn = mirror[g].prompt /\ mirror[g].battle \in 1..Battles
  BY <1>1, Kinds, ClientAssumption DEF Sensible
<1> QED
  BY <1>1, <1>2, Fights

LEMMA PlayingNext ==
  ASSUME Typed, OneMatch, Playing, Patient, Steps PROVE Playing'
<1> USE ClientAssumption
<1>0. ASSUME mirror' = mirror, play' = play, battle'.live => battle.live /\ battle'.fight = battle.fight
      PROVE Playing'
  BY <1>0 DEF Playing
<1>1. CASE Browses
  <2>1. battle'.live => battle.live /\ battle'.fight = battle.fight
    BY <1>1, Looks
  <2> QED BY <1>0, <1>1, <2>1 DEF Browses
<1>2. CASE Answers
  <2>1. battle'.fight = battle.fight /\ battle'.live = battle.live
    BY <1>2 DEF Answers, Typed, AScreen
  <2> QED BY <1>0, <1>2, <2>1 DEF Answers
<1>3. CASE Submit
  BY <1>3, Submits DEF Playing, Active
<1>4. CASE Leaves
  <2>1. battle'.live => battle.live /\ battle'.fight = battle.fight
    BY <1>4 DEF Leaves, NewPlayScreen
  <2> QED BY <1>4, <2>1 DEF Leaves, Playing
<1>5. CASE Wakes
  BY <1>0, <1>5 DEF Wakes
<1>6. CASE Redraw
  <2>1. CASE mirror[session.client].open
    <3> DEFINE g == session.client
    <3>1. g \in Match /\ battle'.fight = FightOf(g) /\ mirror' = mirror /\ play' = play
      BY <1>6, <2>1, Redrawn
    <3>2. mirror[g] \in AMirror /\ Sensible(mirror[g])
      BY <3>1 DEF Typed, Playing
    <3>3. mirror[g].battle \in 1..Battles /\ mirror[g].life \in Nat
      BY <2>1, <3>2, Kinds DEF Sensible
    <3>4. battle'.fight \in Match \X Nat \X (1..Battles)
      BY <2>1, <3>1, <3>2, <3>3, Fights
    <3> QED BY <3>1, <3>4 DEF Playing
  <2>2. CASE ~mirror[session.client].open
    BY <1>0, <1>6, <2>2, Redrawn
  <2> QED BY <2>1, <2>2
<1>7. CASE Answered
  BY <1>0, <1>7 DEF Answered
<1>8. ASSUME NEW g \in Match, Joined(g) PROVE Playing'
  <2>1. \A h \in Match : play'[h].at \notin {"turn", "calling", "choosing"}
    BY <1>8, Joins DEF Others, Active
  <2> QED BY <1>8, <2>1, Joins DEF Playing
<1>9. ASSUME NEW g \in Match, Strolls(g) PROVE Playing'
  BY <1>9 DEF Strolls, Others, Playing
<1>10. ASSUME NEW g \in Match, Reports(g) PROVE Playing'
  BY <1>10 DEF Reports, Others, Playing
<1>11. ASSUME NEW g \in Match, Receive(g) PROVE Playing'
  BY <1>11, Receives DEF Others, Playing
<1>12. ASSUME NEW g \in Match, ReadSlot(g) PROVE Playing'
  BY <1>12, ReadsSlot DEF Others, Playing
<1>13. ASSUME NEW g \in Match, Choose(g) PROVE Playing'
  BY <1>13, Hears DEF Others, Playing
<1>14. ASSUME NEW g \in Match, Swap(g) PROVE Playing'
  BY <1>14, Swaps DEF Others, Playing
<1>15. CASE UNCHANGED <<ui, battle, session, answers, dial, play, mirror, dropped>>
  BY <1>0, <1>15
<1> QED
  BY <1>1, <1>2, <1>3, <1>4, <1>5, <1>6, <1>7, <1>8, <1>9, <1>10, <1>11, <1>12, <1>13, <1>14,
     <1>15 DEF Steps

LEMMA ShowingNext ==
  ASSUME Typed, OneMatch, Playing, Showing, Patient, Steps PROVE Showing'
<1> USE ClientAssumption
<1>1. CASE Browses
  <2>1. battle'.live => /\ battle.live /\ battle'.fight = battle.fight
                        /\ battle'.pending = battle.pending
    BY <1>1, Looks
  <2> QED BY <1>1, <2>1 DEF Browses, Showing, Active, FightOf
<1>2. CASE Answers
  <2>1. battle'.fight = battle.fight /\ battle'.live = battle.live /\ battle'.pending = battle.pending
    BY <1>2 DEF Answers, Typed, AScreen
  <2> QED BY <1>2, <2>1 DEF Answers, Showing, Active, FightOf
<1>3. CASE Submit
  BY <1>3, Submits DEF Showing, Active
<1>4. CASE Leaves
  <2>1. battle'.live => battle' = battle
    BY <1>4 DEF Leaves, NewPlayScreen
  <2> QED BY <1>4, <2>1 DEF Leaves, Showing, Active, FightOf
<1>5. CASE Wakes
  <2>1. ASSUME NEW g \in Match, Active(g), ui' = "idle" PROVE FALSE
    BY <1>5, <2>1 DEF Wakes, OneMatch, Match
  <2> QED BY <1>5, <2>1 DEF Wakes, Showing, Active
<1>6. CASE Redraw
  <2> SUFFICES ASSUME NEW g \in Match, Active(g), mirror[g].prompt # 0
               PROVE (battle.fight = FightOf(g) /\ battle.pending = mirror[g].prompt)'
    BY <1>6, Redrawn DEF Showing, Active
  <2>1. g = session.client /\ mirror[g].open
    BY OpenTurn DEF OneMatch
  <2> QED BY <1>6, <2>1, Redrawn DEF FightOf
<1>7. CASE Answered
  BY <1>7 DEF Answered, Showing, Active, FightOf
<1>8. ASSUME NEW g \in Match, Joined(g) PROVE Showing'
  <2>1. \A h \in Match : Active(h)' => h = g
    BY <1>8, Joins DEF Others, Active
  <2> QED BY <1>8, <2>1, Joins DEF Showing
<1>9. ASSUME NEW g \in Match, Strolls(g) PROVE Showing'
  BY <1>9 DEF Strolls, Others, Showing, Active, FightOf
<1>10. ASSUME NEW g \in Match, Reports(g) PROVE Showing'
  BY <1>10 DEF Reports, Showing
<1>11. ASSUME NEW g \in Match, Receive(g) PROVE Showing'
  <2>1. \A h \in Match : Active(h)' => h = g
    BY <1>11, Receives DEF Others, Active, OneMatch
  <2> QED BY <1>11, <2>1, Receives DEF Showing
<1>12. ASSUME NEW g \in Match, ReadSlot(g) PROVE Showing'
  BY <1>12, ReadsSlot DEF Others, Showing, Active, FightOf
<1>13. ASSUME NEW g \in Match, Choose(g) PROVE Showing'
  BY <1>13, Hears DEF Others, Showing, Active, FightOf
<1>14. ASSUME NEW g \in Match, Swap(g) PROVE Showing'
  <2>1. \A h \in Match : Active(h)' => h = g
    BY <1>14, Swaps DEF Others, Active, OneMatch
  <2> QED BY <1>14, <2>1, Swaps DEF Showing
<1>15. CASE UNCHANGED <<ui, battle, session, answers, dial, play, mirror, dropped>>
  BY <1>15 DEF Showing, Active, FightOf
<1> QED
  BY <1>1, <1>2, <1>3, <1>4, <1>5, <1>6, <1>7, <1>8, <1>9, <1>10, <1>11, <1>12, <1>13, <1>14,
     <1>15 DEF Steps

\* What is pressed while a chooser waits is about what it asks.
LEMMA PressedFor ==
  ASSUME Typed, OneMatch, Playing, Showing, Answers, NEW g \in Match, Active(g),
         mirror[g].prompt # 0, play[g].at # "telling"
  PROVE /\ Pressed = [battle |-> mirror[g].battle, turn |-> mirror[g].prompt]
        /\ battle.pending = mirror[g].prompt /\ g = session.opening
<1>1. battle.fight = FightOf(g) /\ battle.pending = mirror[g].prompt
  BY DEF Answers, Showing
<1>2. battle.fight[3] = mirror[g].battle
  BY <1>1, OpenTurn
<1> QED
  BY <1>1, <1>2 DEF Pressed, OneMatch

LEMMA WaitingNext ==
  ASSUME Typed, OneMatch, Playing, Showing, Waiting, Patient, Steps PROVE Waiting'
<1>1. CASE Browses
  BY <1>1 DEF Browses, Waiting
<1>2. CASE Answers
  <2> SUFFICES ASSUME NEW g \in Match, play[g].at \in {"calling", "choosing"}
               PROVE answers'[g] \in {Nothing, [battle |-> mirror[g].battle, turn |-> mirror[g].prompt]}
    BY <1>2 DEF Answers, Waiting
  <2>1. Active(g) /\ mirror[g].prompt # 0 /\ play[g].at # "telling"
    BY DEF Active, Playing
  <2>2. /\ Pressed = [battle |-> mirror[g].battle, turn |-> mirror[g].prompt]
        /\ g = session.opening
    BY <1>2, <2>1, PressedFor
  <2>3. answers'[g] \in {answers[g], Pressed}
    BY <1>2, <2>2 DEF Answers, Answer, Typed
  <2> QED BY <2>2, <2>3 DEF Waiting
<1>3. CASE Submit
  BY <1>3, Submits DEF Waiting, Active
<1>4. CASE Leaves
  BY <1>4 DEF Leaves, Waiting
<1>5. CASE Wakes
  BY <1>5 DEF Wakes, Waiting
<1>6. CASE Redraw
  BY <1>6, Redrawn DEF Waiting
<1>7. CASE Answered
  BY <1>7 DEF Answered, Waiting
<1>8. ASSUME NEW g \in Match, Joined(g) PROVE Waiting'
  <2>1. \A h \in Match : play'[h].at \notin {"calling", "choosing"}
    BY <1>8, Joins DEF Others, Active
  <2> QED BY <2>1 DEF Waiting
<1>9. ASSUME NEW g \in Match, Strolls(g) PROVE Waiting'
  BY <1>9 DEF Strolls, Others, Waiting
<1>10. ASSUME NEW g \in Match, Reports(g) PROVE Waiting'
  BY <1>10 DEF Reports, Others, Waiting
<1>11. ASSUME NEW g \in Match, Receive(g) PROVE Waiting'
  BY <1>11, Receives DEF Others, Waiting
<1>12. ASSUME NEW g \in Match, ReadSlot(g) PROVE Waiting'
  <2>1. answers'[g] = Nothing /\ \A h \in Match \ {g} : answers'[h] = answers[h]
    BY <1>12, ReadsSlot DEF Typed
  <2> QED BY <1>12, <2>1, ReadsSlot DEF Others, Waiting
<1>13. ASSUME NEW g \in Match, Choose(g) PROVE Waiting'
  <2>1. \A h \in Match \ {g} : answers'[h] = answers[h]
    BY <1>13, Hears DEF Typed
  <2> QED BY <1>13, <2>1, Hears DEF Others, Waiting
<1>14. ASSUME NEW g \in Match, Swap(g) PROVE Waiting'
  BY <1>14, Swaps DEF Others, Waiting
<1>15. CASE UNCHANGED <<ui, battle, session, answers, dial, play, mirror, dropped>>
  BY <1>15 DEF Waiting
<1> QED
  BY <1>1, <1>2, <1>3, <1>4, <1>5, <1>6, <1>7, <1>8, <1>9, <1>10, <1>11, <1>12, <1>13, <1>14,
     <1>15 DEF Steps

\* The screen stays where it is while the mirror does.
LEMMA BehindStays ==
  ASSUME Behind, battle' = battle, mirror' = mirror, session' = session PROVE Behind'
BY DEF Behind

LEMMA BehindNext ==
  ASSUME Typed, OneMatch, Playing, Behind, Patient, Steps PROVE Behind'
<1> USE ClientAssumption
<1> DEFINE g == session.opening
           fight == battle.fight
<1>a. session.opening \in 0..Dials /\ session.client \in {0, session.opening}
  BY DEF OneMatch
<1>b. /\ battle.fight # NoFight => /\ fight \in Nat \X Nat \X Nat
                                   /\ fight[1] \in Nat /\ fight[2] \in Nat /\ fight[3] \in Nat
      /\ battle.pending \in Nat /\ battle.answered \in Nat
  BY DEF Typed, AScreen
<1>c. \A h \in Match : /\ mirror[h] \in AMirror /\ mirror[h].life \in Nat /\ mirror[h].battle \in Nat
                       /\ mirror[h].turn \in Nat /\ mirror[h].prompt \in {0, mirror[h].turn}
  BY Kinds DEF Typed, Playing, Sensible
<1>d. g # 0 => g \in Match
  BY <1>a DEF Match
<1>1. CASE Browses
  <2>1. /\ mirror' = mirror /\ session' = session
        /\ \/ /\ battle'.fight = battle.fight /\ battle'.pending = battle.pending
              /\ battle'.answered = battle.answered
           \/ battle'.fight = <<0, 0, 0>>
    BY <1>1, Looks DEF Browses, Local
  <2>2. CASE battle'.fight = <<0, 0, 0>>
    BY <1>a, <2>1, <2>2 DEF Behind
  <2>3. CASE battle'.fight = battle.fight /\ battle'.pending = battle.pending
             /\ battle'.answered = battle.answered
    BY <2>1, <2>3 DEF Behind
  <2> QED BY <2>1, <2>2, <2>3
<1>2. CASE Answers
  <2>1. battle'.fight = battle.fight /\ battle'.pending = battle.pending
        /\ battle'.answered = battle.pending /\ mirror' = mirror /\ session' = session
    BY <1>2 DEF Answers, Typed, AScreen
  <2> QED BY <2>1 DEF Behind
<1>3. CASE Submit
  <2>1. battle' = battle /\ session'.opening = session.opening + 1
    BY <1>3, Submits
  <2> QED BY <1>a, <1>b, <2>1 DEF Behind
<1>4. CASE Leaves
  <2>1. CASE battle' = battle
    <3>1. session'.opening = session.opening /\ session'.client = session.client /\ mirror' = mirror
      BY <1>4 DEF Leaves, Typed
    <3> QED BY <2>1, <3>1 DEF Behind
  <2>2. CASE battle' = NewPlayScreen
    BY <2>2 DEF NewPlayScreen, Behind
  <2> QED BY <1>4, <2>1, <2>2 DEF Leaves
<1>5. CASE Wakes
  BY <1>5, BehindStays DEF Wakes
<1>6. CASE Redraw
  <2>1. /\ session.client \in Match /\ session.client = g
        /\ mirror' = mirror /\ session' = session
    BY <1>6, <1>a, Redrawn DEF Match
  <2>2. CASE mirror[g].open
    <3>1. /\ battle'.fight = <<g, mirror[g].life, mirror[g].battle>>
          /\ battle'.pending = mirror[g].prompt
          /\ \/ battle'.answered = 0
             \/ battle'.answered = battle.answered /\ fight = <<g, mirror[g].life, mirror[g].battle>>
      BY <1>6, <1>c, <2>1, <2>2, Redrawn, Fights
    <3>2. g \in Match /\ g # 0 /\ g \in Nat
      BY <2>1 DEF Match
    <3>4. /\ mirror[g].life \in Nat /\ mirror[g].battle \in Nat /\ mirror[g].turn \in Nat
          /\ mirror[g].prompt \in {0, mirror[g].turn}
      BY <1>c, <3>2
    <3>5. mirror[g].turn # 0 => battle'.pending <= mirror[g].turn
      BY <3>1, <3>4
    <3>6. mirror[g].turn # 0 => battle'.answered <= mirror[g].turn
      <4>1. CASE battle'.answered = 0
        BY <3>4, <4>1
      <4>2. CASE battle'.answered = battle.answered /\ fight = <<g, mirror[g].life, mirror[g].battle>>
        BY <3>2, <4>2 DEF Behind, NoFight
      <4> QED BY <3>1, <4>1, <4>2
    <3> QED BY <2>1, <3>1, <3>2, <3>4, <3>5, <3>6 DEF Behind
  <2>3. CASE ~mirror[g].open
    BY <1>6, <2>1, <2>3, Redrawn, BehindStays
  <2> QED BY <2>2, <2>3
<1>7. CASE Answered
  BY <1>7, BehindStays DEF Answered
<1>8. ASSUME NEW h \in Match, Joined(h) PROVE Behind'
  <2>1. /\ h = g /\ session.client = 0 /\ h # 0
        /\ battle' = battle /\ session'.opening = g
    BY <1>8, Joins DEF Match
  <2>2. fight # NoFight => fight[1] <= g /\ fight[1] # g
    BY <2>1 DEF Behind
  <2>3. battle'.fight # NoFight /\ session'.opening # 0
          => battle'.fight # <<session'.opening, mirror'[g].life, mirror'[g].battle>>
    BY <2>1, <2>2
  <2> QED BY <2>1, <2>2, <2>3 DEF Behind
<1>9. ASSUME NEW h \in Match, Strolls(h) PROVE Behind'
  BY <1>9, BehindStays DEF Strolls
<1>10. ASSUME NEW h \in Match, Reports(h) PROVE Behind'
  BY <1>10, BehindStays DEF Reports
<1>11. ASSUME NEW h \in Match, Receive(h) PROVE Behind'
  <2>1. h = g /\ session.client = g /\ battle' = battle /\ session' = session /\ g \in Match
    BY <1>11, Receives DEF OneMatch
  <2> DEFINE m == mirror[g]
             n == mirror'[g]
  <2>2. n \in AMirror /\ Onward(m, n)
    BY <1>11, <2>1, Receives
  <2>3. /\ m.life \in Nat /\ m.battle \in Nat /\ m.turn \in Nat
        /\ n.life \in Nat /\ n.battle \in Nat /\ n.turn \in Nat
    BY <1>c, <2>1, <2>2, Kinds
  <2> HIDE DEF m, n
  <2> SUFFICES ASSUME fight # NoFight
               PROVE /\ fight[1] <= g
                     /\ (g # 0 /\ fight[1] = g)
                          => /\ session.client = g /\ fight[2] <= n.life
                             /\ fight[2] = n.life => fight[3] <= n.battle
                     /\ (g # 0 /\ fight = <<g, n.life, n.battle>> /\ n.turn # 0)
                          => battle.pending <= n.turn /\ battle.answered <= n.turn
    BY <2>1 DEF Behind, n
  <2>4. /\ fight[1] <= g
        /\ (g # 0 /\ fight[1] = g)
             => /\ session.client = g /\ fight[2] <= m.life
                /\ fight[2] = m.life => fight[3] <= m.battle
        /\ (g # 0 /\ fight = <<g, m.life, m.battle>> /\ m.turn # 0)
             => battle.pending <= m.turn /\ battle.answered <= m.turn
    BY DEF Behind, m
  <2>5. n.life = m.life /\ m.battle <= n.battle
    BY <2>2 DEF Onward
  <2>6. (g # 0 /\ fight[1] = g)
          => /\ session.client = g /\ fight[2] <= n.life
             /\ fight[2] = n.life => fight[3] <= n.battle
    BY <1>b, <2>3, <2>4, <2>5
  <2>7. ASSUME g # 0, fight = <<g, n.life, n.battle>>, n.turn # 0
        PROVE  battle.pending <= n.turn /\ battle.answered <= n.turn
    <3>1. n.battle <= m.battle
      BY <2>4, <2>5, <2>7
    <3>2. n.battle = m.battle
      BY <2>3, <2>5, <3>1
    <3>3. m.turn # 0 /\ (n.turn = m.turn + 1 \/ n.turn = m.turn)
      BY <2>2, <2>3, <2>7, <3>2 DEF Onward
    <3>4. battle.pending <= m.turn /\ battle.answered <= m.turn
      BY <2>4, <2>5, <2>7, <3>2, <3>3
    <3> QED BY <1>b, <2>3, <3>3, <3>4
  <2> QED BY <2>4, <2>6, <2>7
<1>12. ASSUME NEW h \in Match, ReadSlot(h) PROVE Behind'
  BY <1>12, ReadsSlot, BehindStays
<1>13. ASSUME NEW h \in Match, Choose(h) PROVE Behind'
  BY <1>13, Hears, BehindStays
<1>14. ASSUME NEW h \in Match, Swap(h) PROVE Behind'
  <2>1. h = g /\ session.client = g /\ battle' = battle /\ session' = session
        /\ mirror'[g].life = mirror[g].life + 1 /\ mirror'[g].turn = 0 /\ mirror[g].life \in Nat
    BY <1>14, <1>c, Swaps DEF OneMatch
  <2>2. (fight # NoFight /\ g # 0 /\ fight[1] = g)
          => fight[2] <= mirror'[g].life /\ fight[2] # mirror'[g].life
    BY <1>b, <2>1 DEF Behind
  <2> QED BY <2>1, <2>2 DEF Behind
<1>15. CASE UNCHANGED <<ui, battle, session, answers, dial, play, mirror, dropped>>
  BY <1>15, BehindStays
<1> QED
  BY <1>1, <1>2, <1>3, <1>4, <1>5, <1>6, <1>7, <1>8, <1>9, <1>10, <1>11, <1>12, <1>13, <1>14,
     <1>15 DEF Steps

\* One match's answer, as the invariant speaks of it.
AtHand(g) ==
  (/\ play[g].at \in {"telling", "ask", "turn", "calling", "choosing"}
   /\ mirror[g].prompt # 0 /\ ~mirror[g].again /\ ~dropped
   /\ battle.fight = FightOf(g) /\ battle.answered = mirror[g].prompt)
    => answers[g].turn = mirror[g].prompt

\* The one match that is going is the one there is to look at.
LEMMA HeardOfTheOne ==
  ASSUME Typed, OneMatch, NEW g \in Match, Active(g), Others(g), AtHand(g)' PROVE Heard'
<1>1. \A h \in Match : h # g => play'[h].at = play[h].at /\ ~Active(h)
  BY DEF Others, OneMatch
<1>2. \A h \in Match : AtHand(h)'
  BY <1>1 DEF AtHand, Active
<1> QED
  BY <1>2 DEF AtHand, Heard

LEMMA HeardNext ==
  ASSUME Typed, OneMatch, Playing, Behind, Heard, Patient, Steps PROVE Heard'
<1> USE ClientAssumption
<1>0. ASSUME battle'.fight = battle.fight, battle'.answered = battle.answered,
             UNCHANGED <<answers, play, mirror, dropped>>
      PROVE Heard'
  BY <1>0 DEF Heard, FightOf
<1>a. ASSUME NEW g \in Match, mirror[g].prompt # 0
      PROVE FightOf(g) # Local /\ FightOf(g) # NoFight
  <2>1. FightOf(g) = <<g, mirror[g].life, mirror[g].battle>> /\ g # 0
    BY <1>a, OpenTurn DEF Match
  <2> QED BY <2>1 DEF Local, NoFight
<1>b. \A g \in Match : mirror[g] \in AMirror /\ Sensible(mirror[g])
  BY DEF Typed, Playing
<1>1. CASE Browses
  <2>1. CASE battle'.fight = battle.fight /\ battle'.answered = battle.answered
    BY <1>0, <1>1, <2>1 DEF Browses
  <2>2. CASE battle'.fight = Local
    BY <1>1, <1>a, <2>2 DEF Browses, Heard, FightOf
  <2> QED BY <1>1, <2>1, <2>2, Looks
<1>2. CASE Answers
  <2> SUFFICES ASSUME NEW g \in Match, Active(g), ~dropped', battle'.answered = mirror[g].prompt
               PROVE answers'[g].turn = mirror[g].prompt
    BY <1>2 DEF Answers, Heard, Active
  <2>1. g = session.opening
    BY DEF OneMatch
  <2>2. answers[g] = Nothing
    BY <1>2, <2>1 DEF Answers
  <2>3. answers'[g] = Pressed
    BY <1>2, <2>1, <2>2 DEF Answers, Answer, Typed
  <2>4. battle'.answered = battle.pending
    BY <1>2 DEF Answers, Typed, AScreen
  <2> QED BY <2>3, <2>4 DEF Pressed
<1>3. CASE Submit
  BY <1>3, Submits DEF Heard, Active
<1>4. CASE Leaves
  <2>1. CASE battle' = battle
    BY <1>4, <2>1 DEF Leaves, Heard, FightOf
  <2>2. CASE battle' = NewPlayScreen
    <3>1. battle'.fight = NoFight
      BY <2>2 DEF NewPlayScreen
    <3> QED BY <1>4, <1>a, <3>1 DEF Leaves, Heard, FightOf
  <2> QED BY <1>4, <2>1, <2>2 DEF Leaves
<1>5. CASE Wakes
  BY <1>0, <1>5 DEF Wakes
<1>6. CASE Redraw
  <2> SUFFICES ASSUME NEW g \in Match, Active(g), mirror[g].prompt # 0, ~mirror[g].again, ~dropped,
                      play[g].at \in {"telling", "ask", "turn", "calling", "choosing"},
                      battle'.answered = mirror[g].prompt
               PROVE answers[g].turn = mirror[g].prompt
    BY <1>6, Redrawn DEF Heard, Active, FightOf
  <2>1. g = session.client /\ mirror[g].open
    BY OpenTurn DEF OneMatch
  <2>2. battle'.answered = battle.answered /\ battle.fight = FightOf(g)
    BY <1>6, <2>1, Redrawn
  <2> QED BY <2>2 DEF Heard
<1>7. CASE Answered
  BY <1>0, <1>7 DEF Answered
<1>8. ASSUME NEW g \in Match, Joined(g) PROVE Heard'
  <2>1. \A h \in Match : play'[h].at \in {"telling", "ask", "turn", "calling", "choosing"} => h = g
    BY <1>8, Joins DEF Others, Active
  <2> QED BY <1>8, <2>1, Joins DEF Heard
<1>9. ASSUME NEW g \in Match, Strolls(g) PROVE Heard'
  <2>1. AtHand(g)'
    BY <1>9 DEF Strolls, AtHand, Heard, FightOf
  <2> QED BY <1>9, <2>1, HeardOfTheOne DEF Strolls
<1>10. ASSUME NEW g \in Match, Reports(g) PROVE Heard'
  <2>1. AtHand(g)'
    BY <1>10 DEF Reports, AtHand, Heard, FightOf
  <2> QED BY <1>10, <2>1, HeardOfTheOne DEF Reports
<1>11. ASSUME NEW g \in Match, Receive(g) PROVE Heard'
  <2> DEFINE m == mirror[g]
             n == mirror'[g]
  <2>0. g = session.opening /\ g # 0 /\ battle' = battle /\ g \in Nat
    BY <1>11, Receives DEF OneMatch, Match
  <2>1. /\ m \in AMirror /\ n \in AMirror /\ Onward(m, n) /\ Sensible(n)
    BY <1>11, <1>b, Receives DEF Typed
  <2>2. /\ m.life \in Nat /\ m.battle \in Nat /\ m.turn \in Nat
        /\ n.life \in Nat /\ n.battle \in Nat /\ n.turn \in Nat /\ n.prompt \in {0, n.turn}
    BY <2>1, Kinds DEF Sensible
  <2>3. ASSUME n.prompt # 0, ~n.again, battle.answered = n.prompt,
               battle.fight = <<g, n.life, n.battle>>
        PROVE FALSE
    <3>1. n.turn = n.prompt /\ n.turn # 0 /\ n.life = m.life /\ m.battle <= n.battle
      BY <2>1, <2>2, <2>3 DEF Onward
    <3>2. battle.fight # NoFight /\ battle.fight[1] = g /\ battle.fight[2] = m.life
          /\ battle.fight[3] = n.battle
      BY <2>3, <3>1 DEF NoFight
    <3>3. n.battle <= m.battle
      BY <2>0, <3>2 DEF Behind
    <3>4. n.battle = m.battle
      BY <2>2, <3>1, <3>3
    <3>5. m.turn # 0 /\ n.turn = m.turn + 1
      BY <2>1, <2>2, <2>3, <3>1, <3>4 DEF Onward
    <3>6. battle.fight = <<session.opening, mirror[session.opening].life, mirror[session.opening].battle>>
          /\ mirror[session.opening].turn # 0
      BY <2>0, <2>3, <3>1, <3>4, <3>5
    <3>7. battle.answered <= m.turn
      BY <2>0, <3>2, <3>6 DEF Behind
    <3> QED BY <2>2, <2>3, <3>1, <3>5, <3>7
  <2>5. n.prompt # 0 => n.open
    BY <2>1, <2>2 DEF Sensible
  <2>6. AtHand(g)'
    BY <2>0, <2>3, <2>5 DEF AtHand, FightOf
  <2> QED BY <1>11, <2>6, HeardOfTheOne, Receives
<1>12. ASSUME NEW g \in Match, ReadSlot(g) PROVE Heard'
  <2>0. UNCHANGED <<battle, mirror, dropped>> /\ play[g].at = "turn"
    BY <1>12, ReadsSlot
  <2>3. AtHand(g)'
    <3>1. CASE play'[g].at = "reading"
      BY <3>1 DEF AtHand
    <3>2. CASE ~About(answers[g], mirror[g]) /\ play'[g].at = "calling"
      BY <2>0, <3>2 DEF AtHand, Heard, FightOf, About
    <3> QED BY <1>12, <3>1, <3>2, ReadsSlot
  <2> QED BY <1>12, <2>3, HeardOfTheOne, ReadsSlot DEF Active
<1>13. ASSUME NEW g \in Match, Choose(g) PROVE Heard'
  <2>1. AtHand(g)'
    BY <1>13, Hears DEF AtHand
  <2> QED BY <1>13, <2>1, HeardOfTheOne, Hears DEF Active
<1>14. ASSUME NEW g \in Match, Swap(g) PROVE Heard'
  <2>1. AtHand(g)'
    BY <1>14, Swaps DEF AtHand
  <2> QED BY <1>14, <2>1, HeardOfTheOne, Swaps
<1>15. CASE UNCHANGED <<ui, battle, session, answers, dial, play, mirror, dropped>>
  BY <1>0, <1>15
<1> QED
  BY <1>1, <1>2, <1>3, <1>4, <1>5, <1>6, <1>7, <1>8, <1>9, <1>10, <1>11, <1>12, <1>13, <1>14,
     <1>15 DEF Steps

LEMMA InvNext == ASSUME Patient PROVE IInv /\ [Next]_vars => IInv'
BY AStep, TypedNext, OneMatchNext, PlayingNext, ShowingNext, WaitingNext, BehindNext, HeardNext
   DEF IInv

-----------------------------------------------------------------------------
(* The theorems. *)

\* Of a client that waits for one match to be gone before dialling another: one match is
\* going at a time, an idle loop shows the turn that its chooser asks, and the screen is
\* never ahead of the mirror.
THEOREM OneMatchIsGoing == ASSUME Patient PROVE Spec => []IInv
<1>1. Init => IInv
  BY InitInv
<1>2. IInv /\ [Next]_vars => IInv'
  BY InvNext
<1> QED
  BY <1>1, <1>2, PTL DEF Spec

\* No keystroke the screen has recorded is lost, whatever the draft, the reconnections
\* and the number of battles: the chooser that waits for it has it in its slot.
THEOREM KeystrokesAreHeard == ASSUME Patient PROVE Spec => []KeystrokeIsHeard
<1>1. IInv => KeystrokeIsHeard
  <2> SUFFICES ASSUME IInv, NEW g \in Match, Chosen(g), ~mirror[g].again, ~dropped,
                      battle.fight = FightOf(g), battle.answered = mirror[g].prompt
               PROVE answers[play[g].asks] # Nothing
    BY DEF KeystrokeIsHeard
  <2>1. play[g].at = "choosing" /\ play[g].asks = g
    BY DEF IInv, OneMatch, Active, Chosen
  <2>2. mirror[g].prompt # 0
    BY <2>1 DEF IInv, Playing
  <2>3. answers[g].turn = mirror[g].prompt
    BY <2>1, <2>2 DEF IInv, Heard
  <2> QED BY <2>1, <2>2, <2>3 DEF Nothing
<1> QED
  BY <1>1, OneMatchIsGoing, PTL

\* A keystroke is spent on the turn it was pressed for, in a series of one battle, whatever
\* the length of it and the number of reconnections.
THEOREM AnswersAreTheirs ==
  ASSUME Patient, Battles = 1 PROVE Spec => AnswersAreForTheirPrompt
<1> DEFINE Theirs(g) ==
      (play[g].at \in {"turn", "choosing"} /\ play'[g].at = "reading"
       /\ answers[play'[g].asks] # Nothing /\ answers' # answers)
        => answers[play'[g].asks] = [battle |-> mirror[g].battle, turn |-> mirror[g].prompt]
<1>1. ASSUME IInv, [Next]_vars, NEW g \in Match PROVE Theirs(g)
  <2> SUFFICES ASSUME play[g].at \in {"turn", "choosing"}, play'[g].at = "reading",
                      answers[play'[g].asks] # Nothing, answers' # answers
               PROVE answers[play'[g].asks] = [battle |-> mirror[g].battle, turn |-> mirror[g].prompt]
    OBVIOUS
  <2> USE <1>1 DEF IInv
  <2>0. play'[g] # play[g] /\ Active(g)
    BY DEF Active
  <2>1. Steps
    BY AStep
  <2>2. CASE Submit
    BY <2>0, <2>2, Submits
  <2>3. CASE Redraw
    BY <2>0, <2>3, Redrawn
  <2>4. ASSUME NEW h \in Match, Joined(h) PROVE FALSE
    BY <2>0, <2>4, Joins
  <2>5. ASSUME NEW h \in Match, ReadSlot(h)
        PROVE answers[play'[g].asks] = [battle |-> mirror[g].battle, turn |-> mirror[g].prompt]
    <3>1. h = g
      BY <2>0, <2>5, ReadsSlot DEF Others
    <3>2. About(answers[g], mirror[g]) /\ play'[g].asks = g
      BY <2>5, <3>1, ReadsSlot
    <3>3. answers[g] \in [battle : 1..Battles, turn : Nat \ {0}]
      BY <3>2 DEF Typed, Keys
    <3>4. answers[g].turn = mirror[g].prompt /\ mirror[g].prompt # 0
      BY <3>2 DEF About
    <3>5. mirror[g].battle \in 1..Battles
      BY <3>4, OpenTurn
    <3>6. answers[g].battle = mirror[g].battle
      BY <3>3, <3>5
    <3> QED BY <3>2, <3>3, <3>4, <3>6
  <2>6. ASSUME NEW h \in Match, Choose(h)
        PROVE answers[play'[g].asks] = [battle |-> mirror[g].battle, turn |-> mirror[g].prompt]
    <3>1. h = g
      BY <2>0, <2>6, Hears DEF Others
    <3>2. play[g].at = "choosing" /\ play'[g].asks = g
      BY <2>6, <3>1, Hears
    <3> QED BY <3>2 DEF Waiting
  <2>7. ASSUME NEW h \in Match, Strolls(h) \/ Reports(h) \/ Receive(h) \/ Swap(h) PROVE FALSE
    <3>1. answers' = answers
      BY <2>7, Receives, Swaps DEF Strolls, Reports
    <3> QED BY <3>1
  <2>8. CASE Browses \/ Answers \/ Leaves \/ Wakes \/ Answered
             \/ UNCHANGED <<ui, battle, session, answers, dial, play, mirror, dropped>>
    BY <2>8 DEF Browses, Answers, Leaves, Wakes, Answered
  <2> QED BY <2>1, <2>2, <2>3, <2>4, <2>5, <2>6, <2>7, <2>8 DEF Steps
<1>2. IInv /\ [Next]_vars => [\A g \in Match : Theirs(g)]_vars
  BY <1>1
<1>3. Spec => [][\A g \in Match : Theirs(g)]_vars
  BY <1>2, OneMatchIsGoing, PTL DEF Spec
<1> QED
  BY <1>3 DEF AnswersAreForTheirPrompt

=============================================================================
