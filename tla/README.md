# hexarena in TLA+

hexarena is a two-player tactical game played in a terminal: a host program
serves rooms over WebSockets, two clients sit in a room, optionally draft their
squads from one shared pool, and fight a best of one or a best of three on a
hexagonal board. What they fight with is authored in a second program and kept
in files. This directory holds a model of it, what TLC checks of the model and
what TLAPS proves.

Run the tools in this directory:

    tlc -config room.cfg MCRoom
    tlapm RoomProofs.tla

## 1. The system

About 75,000 lines of Go without tests, in five groups.

| Part | Source | State it keeps | Operations | Talks to |
|---|---|---|---|---|
| Draft | `internal/draft` | who left the pool, each side's picks, the open loadout, held-back arrangements, the record | ban, skip, pick, loadout, arrange, time out, apply a recorded decision | the room (owner), a mirror (replays the record) |
| Room | `internal/room` (all but the registry) | two seats and their tokens, the series, the open battle and its open prompt, the draft in front of it, the watchers' record | join, answer, pass, decide, report a timeout, report a departure, resume | draft, battle engine; called by the registry's goroutine only |
| Registry | `internal/room/registry.go` | code -> room map, number of live goroutines, an inbox, a `quit` and a `done` channel per room | open, ask, close, close all, wait | one goroutine per room; callers on other goroutines |
| Transport | `internal/socket/server.go`, `table.go`, `connection.go` | connections, one table per code: who is in which seat, reconnect windows, the allowance, watchers, a reference count | serve a connection, deliver, fire a timer, hold and release a seat, shut down | registry (asks), peers (WebSocket), timers (callbacks) |
| Client and mirror | `internal/socket/client.go`, `mirror.go`, `draft.go` | a copy of the draft and the battle stepped by messages | play, answer, apply, resume | one socket |
| Terminal client | `cmd/hexarena-tui` | a screen, a session, a token, slots for answers | keys, dial, redial, leave | the mirror (under its lock), two goroutines |
| Battle engine | `internal/core/battle` | the board, units, what they hold, the open prompt | begin, advance, act, pass | the six packages below; room and mirror |
| What a battle counts with | `internal/core/status`, `combat`, `rng`, `scale`, `element`, `modifier`, `atb`, `hex`, `pattern`, `skill`, `passive`, `composition` | a set of statuses, a queue of turns | values from values | battle engine |
| Authored content | `internal/core/cast`, `progression`, `placement` | books of characters, stages, builds, squads | load, check, field | room, forge |
| Forge | `internal/forge` | a directory of books and a program's copy of it in memory | save, edit | files |
| Editing program | `cmd/hexforge-tui`, parts of `internal/screen` | forms, lists, questions, the way back | keys, saves | forge |
| Wire, discovery, host, drawing, data | `internal/wire`, `internal/discovery`, `cmd/...` | none, or one user's | encoding, advertising, drawing | - |

How they interact. A connection's goroutine reads a message and, under its
table's `exchange` mutex, asks the registry, which hands the input to the room's
goroutine over an unbuffered channel and gives back the answer: the bodies
addressed to each seat, what was recorded for watchers, and whom the room is now
waiting on. Still under the mutex, the transport writes the bodies, forwards the
record and arms the allowance for the seat that is asked. Timers (the allowance,
reconnect windows) call back on goroutines of their own and queue for the same
mutex. A departure is a deferred call that queues for it too. At the other end
`Client.Play` reads one body after the other, steps its mirror (the same engine
with the same seed, told decisions only), and blocks in a chooser when the
mirror asks its seat; in the terminal client the chooser waits for a key that
the program's loop reads, and that loop in turn reads the mirror under its lock.

Which behaviours are hard, and what makes each part correct:

* **Draft.** Two arrangements are pending at once and must stay secret; a pool
  with no slack must never run dry; nobody is taken twice.
* **Room.** The open question comes from two places (draft and battle) that hand
  over to each other several times in a series; one call (a departure) means
  three different things; the record is written for one seat and read by
  another. Two seated players are always waiting on exactly one of themselves
  until there is a verdict, and the verdict is the score's.
* **Registry.** A code is reused while its last room is still on its way out; a
  caller may hold a room that is finishing; `quit` may be closed by several. A
  code leads to its own running room, and everybody who asks is told something.
* **Transport.** Everything late: a callback that fired before the answer it
  raced with, a departure after its player's return, connections that arrive
  during a shutdown. The clock follows the room's question; whoever sits has
  been written exactly the match; a seat the room holds is somebody's; a match
  ends though players fall silent.
* **Client.** Nothing on the wire says that a draft ended, a battle was won or a
  series decided: both sides work it out. An act carries no turn number. A
  client that comes back replays the whole record and answers as it goes.
* **Terminal client.** A key is pressed on a copy of a prompt and read later by
  another goroutine; a loop, a lock and a rendezvous channel can wait on one
  another; a match may be left from any point of it.
* **Battle.** One call runs through a dozen helpers that each lean on what the
  others left: a wound opens a gate, the gate moves a maximum and a speed, the
  answer to a blow kills the actor in the middle of its own skill.
* **Turn order.** A wait is rescaled by the ratio of two speeds, in integers,
  many times in a battle.
* **Forge and editor.** An edit is checked against books as they are now; a
  write fails half way; work that is not saved is behind a question or a list.

## 2. The modules

    Shares <- Elements, Status, Combat, Skills, Composition
                 \________ Board, TurnQueue ________/
                                 |
    Contest <-- refined by -- Battle <- Books <- MCBattle
                                 ^---- Lead ----^
    Match <---- refined by ---- Room ---- INSTANCE ----> Draft
                                 ^  ^
               Table (EXTENDS) --'  '-- Mirror (EXTENDS)
    Registry      Client
    Elements <- Cast <- Forge <- Editor

| Module | Models | Notes |
|---|---|---|
| `Draft` | `internal/draft` | one action per decision method, `Apply` for replay, `Renew` for the next battle's draft |
| `Match` | what a room promises two players | abstract: start, fight one battle, abandon |
| `Room` | one `Room` value | one action per input; one goroutine owns it, so an input is one step |
| `Registry` | `Registry` and the goroutines around it | one action per critical section or channel operation |
| `Table` | `socket.Server` around one code | one action per exchange, timer firing or deferred call |
| `Mirror` | `socket.Client` beside its room | ordered bodies down, acts up, a drop and a return |
| `Client` | `cmd/hexarena-tui` | the loop, and for each match its dial and its `Play` goroutine |
| `Shares`, `Elements`, `Combat`, `Board` | fixed-point arithmetic, the chart and modifiers, blows, cells and shapes | pure operators |
| `Status`, `Skills`, `Composition` | what a unit holds, what a skill and a trait declare, what a squad is awarded | pure operators on records |
| `TurnQueue` | `internal/core/atb` | a queue as a value, its operations as operators |
| `Battle` | `battle.go`, `turn.go`, `summon.go` | the battle as a record, each helper an operator, each call an action |
| `Contest` | what a battle promises | abstract: two sides stand until one does not |
| `Books` | what loading refuses | predicates; assumed of what a battle is played with, and evaluated on the runs' content |
| `Lead` | `internal/room/lead.go` | the order of enlisting as a function of the roster |
| `Cast` | characters, stages, loadouts, builds, squads | pure operators and what their books refuse |
| `Forge` | `internal/forge` | files, and one copy in memory per program |
| `Editor` | `cmd/hexforge-tui` | keys by screen; a save is a step that may fail |
| `MC...` | - | finite instances, content, symmetry |
| `DraftProofs`, `RoomProofs`, `TableProofs` (and the registry's), `ClientProofs`, `BattleProofs` (and the queue's), `EditorProofs` (and the library's), `MirrorProofs` | - | theorems |
| `Folding` | - | what a fold over a sequence keeps, as a theorem with an operator to instantiate |

Definitions marked "Mutant:" are deliberately wrong variants of the definition
below them. No specification uses them; they exist so that each property can be
seen to fail when the code is wrong in a plausible way.

### State and actions against the code

*Draft.* The variables are the fields of `Draft`, with `spending` as the set
`spent`. `Due` is `Turn` plus `due`; `AwaitingArrangement` is the separate
question the arrange phase asks. A kit (skills and traits) is reduced to the
form a loadout names, and `Resolve` says which names resolve, so a line that
forks has a name that is refused. A refused decision changes nothing and is the
absence of a step. Record order on the second arrangement is host, then guest,
whoever came second.

*Room.* `seated` is `peers`, `played`, `standing` and `result` are the series,
`fight`, `index`, `home`, `turns` and `asked` the open battle. A battle is
reduced to what the room reads of it: `Settlings(t)` is every outcome of `settle`
from `t` turns, a number of turns nobody was asked about and then a prompt, an
end, or the cap. `Resolved` is the whole of `resolved`, `settle` and `close`,
`redraft` and the next `begin` included. `sent` is a history of what each seat
was sent; `watched` is the room's own record. `Resume` re-sides each recorded
`Start` by the *current* home seat, as the code does. That a battle behind these
outcomes is what `Room` takes it for is `Contest`, which `Battle` refines.

*Registry.* `state` says where a room's goroutine is, `closing` what a closer has
taken out of the map under the mutex and not closed yet, `caller` where a
question is between lookup, the inbox and the one-place reply channel.
`AnswerAsked` takes any input of a room, whether it ends the match or not.

*Table.* Each connection has a phase: `claimed` (it said hello and holds a
reference to the table), `pumping`, `parting` (its deferred departure has not had
the mutex yet), `releasing`, `gone`. A table's `alarm` is the armed allowance and
`late` the callbacks that fired and wait for the mutex; `holding` and `ringing`
are the same two halves of a reconnect window. A returning player says hello
with their token. `Timings` switches the awkward timings on and off, so a run
can say which of them a property survives:

| Timing | What it allows |
|---|---|
| `half_open` | a player is back before the server misses their old socket |
| `lost_resume` | the record cannot be written to a returning player |
| `spectators` | connections that watch |
| `shutdown` | the host stops serving |

*Mirror.* One client is followed; the other player does what the room allows.
`down` and `up` are the two directions of its socket. The mirror's own draft,
tally of turns, tally of battles and verdict are kept beside the room's and
stepped only by what arrives. A choice is made from the prompt the mirror has,
and is in flight until the room takes it; a return drops what is in flight and
puts the whole record on the wire behind a fresh mirror.

*Client.* bubbletea's loop takes one message at a time from an unbuffered
channel, so a `Send` is a rendezvous with an idle loop: `ui` is what the loop is
doing. The lock on the mirror is no variable of its own: the loop holds it for
reading while `ui` is "reading", and a goroutine that would step the mirror
waits until it is not. `answers` are the one-place slots, `cancelled` the contexts,
`play[g].at` where a match's goroutine is. The room is whatever sends bodies: a
draft, turns, refusals, an ending, a socket that dies.

*Battle.* `fight` is the `Battle` struct as a record; `Advance` brings the next
unit to its turn (dropping the dead, ageing, burning, charging) and `Act` and
`Pass` end it. Chance is a source of answers used in a circle (`Fates`), so an
action is a function of the state and of the choice. Every skill of every unit
at every target is taken. What is left out is who reads the battle: the event
log, prices, names.

*TurnQueue.* The slice the code sorts is a function here: the code never relies
on its order without sorting it first, and (next, speed, seq) is a total order.

*Forge.* `disk` is file -> content, a session's memory the books `Open` read.
A save is: check against memory (for a skill's edit against the presets and the
cast on disk), write a temporary file, rename, change memory; it may fail at each
point and the program may stop.

*Editor.* `ui` is the screen, what is over it (question, list) and the two slots
of the way back (`raisedFrom`, `raisedOver`); each form is a record. A press that
cycles lands on any choice, so several presses are one step.

## 3. The runs

| Run | Module | Asks | Distinct states |
|---|---|---|---|
| `draft` | MCDraft | is the draft exclusive, never dry and secret, with no slack in the pool? | 515 |
| `room` | MCRoom | a best of three that drafts before each battle, players coming and going: does the room implement `Match`, wait on exactly one of its players, keep its seats and its record, and come to an end under the clock? | 34 thousand |
| `registry` | MCRegistry | codes reused under rooms on their way out, two callers, two closers, a waiter: is a code its own room's, is "unknown" true, is everybody answered? | 83 thousand |
| `table_rejoin` | MCTable | two players and a third connection that plays, comes back or watches, every awkward timing but the shutdown: are seats accounted for, is the clock right, does everybody see the match, is nobody who sits reported gone? | 436 thousand |
| `table_live` | MCTable | late reports, drops and a shutdown: does a match end and a drained shutdown return? | 85 thousand |
| `battle` | MCBattle | six battles under every choice: health and maxima, gates, summons, the queue, and does it implement `Contest`? | 8.6 thousand |
| `mirror` | MCMirror | a drafted best of three: is what the client worked out what the room has? | 621 thousand |
| `mirror_back` | MCMirror | a client that drops and returns, its acts crossing the clock: is an act taken for the prompt it was chosen for, and does a client see its match end? | 34 thousand |
| `client` | MCClient | the terminal client against every order of bodies, keys and drops: is a key spent on its turn, does the loop come back, does a match that was left go away? | 159 thousand |
| `client_series` | MCClient | is the decision the room asks for on the screen? (**no**) | - |
| `forge` | MCForge | saves, edits, refusals, failures and stops: does the directory load, is it what memory holds, is nothing else lost? | 21 thousand |
| `editor` | MCEditor | four changes and saves over every screen: is unsaved work in front and kept, is what is not asked about on disk, does a squad stay sound, does the way back lead back? | 300 thousand |

Each property of a passing run has at least one plausible bug of the code
("Mutant:") under which the same run finds it violated.

`battle` checks for deadlock. The others say `CHECK_DEADLOCK FALSE`, because
these systems may stop: a draft and a match end, a registry and a table have had
all their callers, an author quits.

### Bounds, and why they are enough

* `draft`: six characters, two picks and one ban a side: exactly what the format
  can spend, so the last pick sees one candidate. One character forks, so a
  loadout can be refused and retried; two cells make both arrangements possible. The
  other characters are interchangeable.
* `room`: three battles, so a series ends early, late, level and abandoned, and
  home alternates and returns; `TurnCap` 2 and `MaxSkips` 1 let the cap fall on an
  asked turn, behind a skipped one and not at all; a pool of two is every step of
  a draft, three times; four tokens let a seat be given up and taken again.
* `registry`: two codes, two rooms: a code is opened again while its earlier room
  is on its way out, and beside another. Two closers race over one room; a waiter
  sleeps through both.
* `table_*`: one table, one battle, one or two prompts; the series is `Room`'s
  business. Three connections are two players and a return or a watcher.
* `battle`: six pairs of squads, each made around one mechanism (health gates;
  summons; charging; guards, taunts and shields; hiding; spending), eight turns,
  every choice, three courses of luck. Numbers are small, so that a blow crosses a gate.
  `LeadsAlternate`, evaluated before the run, looks at every pair of squads of at
  most three units at two speeds.
* `mirror`, `mirror_back`: the series without returns, and the return within one
  battle. `Window` bounds what is unread on the wire, `Returns` how often a
  client comes back.
* `client`: one match, two turns and two draft decisions, one redial: the slots
  hold one answer, so two prompts are what it takes for one to be stale.
  `client_series` needs the second battle.
* `forge`: an author and a reader; a catalogue in which an edit can break a kind,
  a preset or a squad. `editor`: one typed value of each sort and four changes,
  since two forms with something in hand, a save that fails and a question are four.
* Counters bounded for the model only: `MaxSkips`, `MaxTokens`, `Handles`, `Conns`,
  `MaxTables`, `MaxTurns`, `Returns`, `Window`, `Dials`, `Redials`, `Effort`.
  `MaxSkips < TurnCap` stands for a cap (400) far above the turns that pass before a
  battle's first decision.

### Fairness, and why the code justifies it

* Room (`ClockSpec`): only the timeout of the seat that is asked; the transport
  arms an allowance for whoever `Awaiting` names. Nobody has to answer or to come.
* Registry (`FairRegistrySpec`): goroutines are scheduled. `Quit` and `Enter` are strongly
  fair: a `select` picks at random among the arms that are ready, and blocked
  senders are served in order. Nobody has to ask, open, close or wait.
* Table (`FairTableSpec`): armed timers fire, a callback or a deferred departure
  that queues for `exchange` gets it, a connection that said hello is answered, a
  dead socket is noticed (keepalive), and `Shutdown` goes on to its next line. No
  player has to act, leave or return, and no socket has to die.
* Mirror (`FairMirrorSpec`): the clock, the wire and the client's own loop.
* Client (`Fairness`): both goroutines run. A `Send` and whoever steps the mirror
  are strongly fair: a blocked sender stays queued on the channel, a writer that
  waits comes before later readers, and a closed socket ends a read. Nobody has to
  press a key.

### The finding

`client_series`, `AskedIsShown`: the comment in `model.stepped` says that a battle
is the later phase and wins over the draft. In a drafted best of three the draft
of the second battle comes after the first battle's board, which is still open,
so the screen stays on the battle that is over while the room waits for a draft
decision (`cmd/hexarena-tui/model.go:463`).

## 4. The proofs

Each theorem holds for every value of the constants that satisfies the modules'
assumptions, and is proved along `Init => IInv`, `IInv /\ [Next]_vars => IInv'`
and `IInv => Inv` with an invariant TLC checked first. The assumptions are
`ConfigAssumption` and `SentinelAssumption` (what `draft.New` and `Fits` accept),
`RoomAssumption` (`Config.Validate`; a format fields somebody), `MirrorAssumption`
(the bounds are numbers), `RegistryAssumption` (finitely many rooms),
`TableAssumption`, `ForgeAssumption` (what ships loads), `EditorAssumption` (so do
its squads; ids numbered apart differ), `ScaleAssumption`, and `BooksAssumption` and
`ContentAssumption` (what loading refuses, and the types of what it accepts). Where a
theorem needs more, its statement says so, and the paragraph below says why.

**DraftProofs.** `TypeInvariant`. `PoolNeverRunsDry` is the package comment's
claim, from `PoolCount`: the pool holds a character for every decision still to
come and the slack besides; a ban or a pick takes one from both sides, a skip
widens the gap. `PoolIsExclusive` comes from `TakenAreGone`: every pick is among
those who left the pool. `ArrangementsAreSecret` comes from `Revealed`: the record
ends in both arrangements or in none.

**RoomProofs.** `Inductive` is the invariant everything rests on. `Fights`: a battle
is open exactly when somebody is asked in it, between two fielded squads, behind a
draft that is done; an unfinished room without a battle is short of a player or has a
draft that has not ended. That makes "never stuck" inductive: the hand-over
between draft and battle is exact. `Indexed`, `Fielded` and `Recorded` say which
battle it is and what the seats hold. `DraftAsks` is the key lemma: a draft neither
done nor cancelled asks a seat. From it: `NeverStuckInvariant`,
`OneQuestionInvariant`, `VerdictInvariant`, `HoldersKept`, `FinishedForGood`, and
`Implements`, the refinement of `Match`: `Close` is `Match`'s `Fight`, departures and
draft timeouts are `Abandon`, the second seat is `Start`, and everything else
stutters. `RecordIsOfTheMatch` adds `OneMatch`: a body goes onto the record in the
step in which it goes to both seats, so a watcher's battles and the host's are
one list.

**TableProofs, the registry.** `RegistryTyped`, `CodesLeadToTheirRooms`, `NoQuitIsClosedTwice`,
`WaitComesBackToNobody`, `UnknownIsGone`. `Wait` reads a number, so `Counted` ties it
to the goroutines that are alive (finite cardinalities); that a closer has the
only hand on a room is `EnrolledIsNotClosed`; an "unknown" that is true needs
`AskingIsUntold` and `HandledIsWaiting`.

**TableProofs.** `TransportDrivesTheRoom` is the theorem that joins the layers: a
step of the transport is a step of `Room` or leaves it alone, whatever is dropped,
late, repeated or stopped outside. So every theorem about a room holds behind its
sockets, and `PlayersAreInAMatch` follows. `SeatsAreAccountedFor` (`Accounts`,
`Answered`: a taken seat has a connection, a window or a callback) holds for any
number of tables while the host serves, hence its hypothesis that `"shutdown"` is
not among the timings. `ClockIsRight` (`OneClock`) needs `MaxTables = 1`: a table
that is forgotten and made anew leaves timers behind, and the property is false
with two (section 5).

Its second half is what people at one table are told: `SittersAreNotReported` (`OneToASeat`: a seat has one
connection that is read, and its window and its pending departure exclude one another),
`WatchersSeeAll` (`Watching`: what a watcher has been handed is the record up to
their cursor, and the cursor is behind the record only inside an exchange) and
`SittersSeeTheMatch` (`Seating`: what a seat was written is what the room addressed
to it, with `RecordIsTheirs` for those who come back: the record read as a seat is
what the seat was sent). The last needs `Battles = 1`, because the code
re-sides earlier battles by the current one's home seat (section 5). A seat whose
player was back before their old socket was missed is left out (`Orderly`): the code gets it wrong.

**ClientProofs.** For a reader who waits for one match to be gone before dialling
another (`Patient`), any number of matches, reconnections and battles.
`OneMatchIsGoing` is the invariant. `OneMatch`: the match whose goroutine runs is the
one the session knows, so the slot a chooser reads is the slot the keys fill.
`Showing`: an idle loop shows the turn that is open, but for a body the loop has not
been told of; so what is pressed while a chooser waits is about its prompt
(`Waiting`). `Behind`: the screen is never on a later dial, life, battle or turn
than the mirror; so a body that opens a turn opens one the screen cannot have
recorded as answered, and what it has recorded of the open turn is in the slot
(`Heard`). From these, `KeystrokesAreHeard`, and `AnswersAreTheirs`, which needs
`Battles = 1`: `pressed.about` does not compare battles (section 5). The proof goes by
`Steps`, which says of each action what it does to what the
invariant speaks of; the draft and the screens around the battle fall away there.

**EditorProofs, the library.** For one author who names the squads: `NextReaderLoads`,
`MemoryFollowsTheDisk`, `NothingIsLost`. The invariant says that the directory is
sound, that a program's copy is the directory, and that what is being written
was checked against both and would leave the directory sound. Two authors are
excluded because a check against a stale copy can break the directory, and so can
a squad without an id (section 5).

**EditorProofs, the program.** The editing program over the library, one invariant in
four storeys. `Ways`: the two slots of the way back form a trail of screens that raise
one another (`WayBackHolds`). `Shaped` and `InFront`: a form that was touched is
the screen in front, and a question or a list is about that screen
(`WorkNobodySavedIsInFront`, `TypedWorkIsKept`). `Stored`: what the lists show is
on disk, and the save under way is the one the screen waits for
(`WhatIsNotAskedAboutIsOnDisk`). `Crew`: no squad in hand or on disk has two members
with one id or one cell (`MembersNeverClash`); its heart is a pigeonhole argument
that the numbered ids cannot run out while there is room for a member, which is
why the code's search for a free id ends.

**BattleProofs, the queue.** Lemmas about the queue as a value: `OneUnitLeads` (the order is
total, so taking the least is the code's sort), `SpeedMovesTheTurn`, and
`EveryStepKeepsTheAccount` (nobody is due in the past, nobody owes more than a full
wait is worth), for speeds up to the cycle. A speed above the cycle's length
would make a wait of one tick worth more than a cycle.

**BattleProofs, the battle.** `QueueFollows` and `SummonsInTime`, from `Inductive`, for every
roster and every content that loads. The invariant is `Steady(fight)`: `Fielded` (each unit
is `Able`: its record, statuses, skills and base are of the books), `Lined` (the queue
is sound and holds the living), `Families` (`Born`: who was called was called by one
that can call, and cannot call; `OnTime`: what is left of a stay and the turns taken
are what a skill gave; `LivesBy`: a bound one has a living summoner), whoever is asked
lives, and, until the end, `AtSpeed`. It holds between two calls only. Inside one,
speeds lag behind statuses until `RetuneAll`, and while a unit falls those bound to it
are alive without it: so the lemmas carry `Sturdy(b, x)`, the invariant but for the
speeds and but for those bound to the falling `x`, and `Amid`, in which nobody is asked
and the list holds whom it held. Each helper of the turn
has a lemma that it keeps this, from `Inflict` and `Heal` up through `Wound`, `Kill` (whom
it drags along drags nobody: they are summons, and nobody is bound to a summon),
`ResolveAgainst`, `Discharge`, `Summon` and `Acted`. `Frame` is what most steps promise (only statuses,
health and the like move), so a lemma about a helper says little and its users need
little.

The engine is a fold nearly everywhere: over targets, strikes, applications, statuses,
units. What a fold keeps is induction, which the prover has no rule for with the
step as a parameter; `Folding` proves it once for constants `Step` and `Keeps` (from the
well-foundedness of the naturals and the library's definition of a fold as a
`CHOOSE`), and each use is an `INSTANCE` with its own step. The assumption on speed in
`ContentAssumption` is that the ceiling on speed with all the headroom a push may have is no more than
a cycle: 200 and 3000 per mille against a million in what ships. Without it
`EveryStepKeepsTheAccount` would not apply.

**MirrorProofs.** What is hard to see of the mirror is that it is right *later*: when it
has read what is on its way. So the invariant (`MirrorInductive`) is about the wire.
`MirrorStage` is the mirror as a value and `Walk` what one body makes of it; a
`Way` leads from one stage to another through a list of bodies. `OnTheWay`: a way
through `down` leads from the mirror to a stage that agrees with the room
(`Agree`: battle, side, turns, prompt, settled battles, draft). `OnRecord`: as long as
the client may still come back, a way through the record, re-sided as `Resumed` does it,
leads a *fresh* mirror there too; so a return needs no argument of its own. Each
step of the room then has one obligation (`RoomKeeps`): the bodies it wrote lead from the
room's old place to its new one, whether they are a decision, a decision and the start
behind it, or a whole revealed draft. `RoomSteps` takes the room's own invariant over
from `RoomProofs`. `CaughtUp` reads the theorems off: with nothing on the
way the stage agrees as it stands. From it `InStep` and `DraftsInStep`. `Proper`, which
every stage on the way has, says that a prompt is open only behind a draft that is
over; hence `OneOfTheTwo`, which needs `Returns = 0 \/ ~Drafts`: a record
holds no draft, so a client that comes back to a drafting room is asked both
(section 5). The other two are restricted likewise, by `Sound`.

`ActsAnswered` is about two queues at once, the answers going up and the bodies coming
down, and has an invariant of its own beside this one (`QInv`). `OneAnswer`: a client
that the clock has passed no prompt of and that has not come back has one answer under
way or none, to what the room is asking it, and nothing unread behind an answer. A
client answers as it reads, so what is still unread must not ask its seat:
`HushedWay` is a way on which the seat is asked for nothing before its end, which is why
the room asks nobody in the middle of what it writes. `WaitingStays`: while a seat is
asked, no step of another changes what it is asked. `Late`: an arrangement is in only
once everything is picked, so no pick is taken for one.

Proved and not run, because a run would say less: `OneQuestion`, `VerdictIsTheScore`,
`FinishedIsFinished`, `QuitClosedOnce`, `WaitMeansGone`, and the types.

Only model-checked:

* Liveness (`EveryMatchEnds`, `CallersAreAnswered`, `PlayersGetAVerdict`,
  `DrainedShutdownReturns`, `ClientSeesTheEnd`, `UpdateReturns`,
  `LeavingEndsThePlay`): the prover has no rule for fairness and `ENABLED`.
* Of the battle, `HealthUnderMaximum`, `GatesMatchHealth` and `ContestSpec`. The first is
  not true of every book (section 5), and neither the first nor the second is kept by
  the single helpers the lemmas go along: both are restored by a later one.

## 5. What the code does that no run claims otherwise

Met while modelling. Where a property would be false, it says what it leaves out.

*Room.* In a best of three `Resume` re-sides every recorded `Start` by the current
home seat, so a client that returns in a later battle is handed earlier ones from
the wrong half of the board (`watch.go:122`: "Resume is the whole record as one
seat would have received it").

*Lead.* `lead.go:52` says the two sides' lead counts differ by at most one over the
whole roster. A pair that lacks one half still spends the toggle, so with groups of
unlike size (home speeds 1, 1, 2 against 1, 2) one side may win two ties more;
`LeadsAlternate` looks at level groups.

*Transport.*
* A player who is back before their old socket is missed is reported gone by it, and
  in the lobby their seat may be given away over them; the window it opens goes on
  against whoever sits there. `Orderly` names such seats.
* `release` (`server.go:786`) drops a table with its last connection and stops the
  allowance, not the windows, though its comment speaks of any timer still armed. A
  player alone at a table who drops and returns in time gets a new table; the
  old one's window fires, finds the seat still held in the old table, and frees the
  seat or ends the match they sit in, telling the other player nothing. With
  `MaxTables = 2` in `table_rejoin.cfg` TLC shows it for `NobodySittingIsReported`;
  a late callback of the old table breaks `ClockFollowsTheRoom` there too.
* A timeout that waits for the lock behind its player's own answer passes that
  player's *next* prompt if it comes straight after (`server.go:550`: "A late report
  is already harmless").
* A rejoin whose record cannot be written leaves a seat with neither a connection nor
  a window. A connection seated between a shutdown's farewell and its close is
  neither told nor dropped; during that stage held seats have no window.

*Mirror.* A client that returns to a drafting room opens a fresh draft that the
record never steps, and is asked for a draft decision and a turn at once
(`client.go:317`: "at most one of the two is ever open"). A replay spends one turn
of the cap on what the room skipped, so a host with `--turns 1` diverges from its
clients.

*Battle.* `reconsider` is said to be called from every place health moves
(`turn.go:305`); paying in health and a caster's parting lower it without. Nothing
is said to lower a maximum (`battle.go:203`); spending the pool of a permanent status
that raises it leaves health above it. Two shares of three tenths take less than
six, because the second is of the shrunk base (`summon.go:231`). A corpse can be
struck in a chain (`turn.go:853`). `Cleanse` stops at the first permanent entry that
it wants. A stalemate under ground contradicts `outcome.go:29`, and annihilation cannot be reached.

*Forge and editor.* `Squad.Take` accepts a squad without an id, which `Load` then
refuses. Two authors lose each other's edits, and a character saved against another
session's stale skills can leave a directory that does not load. `EditingID` stays set
after the first save, so an id typed later saves a second squad. Escape out of a fight
begun from the squads leaves `raisedFrom` pointing at the squads themselves. In a window
too small to draw, a question still takes keys unseen; ctrl+c quits with unsaved work, by design.

*Client.* A slot full of a stale answer drops the next key, which is what
`KeystrokeIsHeard` allows for. In a series, an answer the clock overtook at the end of
one battle stays in the slot, and is spent on the player's first turn of the next if
unit and turn number agree (`session.go:242` compares those two; `session.go:475`: it
"must not be spent on the next one"), which takes a battle that ended early: TLC shows it
for `AnswersAreForTheirPrompt` with `Battles = 2`.
Two dials may overlap when the reader does not wait: with `Patient = FALSE` and
`Dials = 2` a chooser of the match that was left reads the slot of the new one.
A client that returns is asked every prompt of the past. The host of a drafting room may
answer before a guest sits.

## 6. What is not modelled

* The error returns of a room whose squad cannot be fielded, and a timeout answered
  by one; shorter allowances by budget; ping and write timeouts; reporting
  callbacks; a drafting room behind the transport (`Table` assumes `~Drafts`).
* The event log and its wording, `price.go` (an estimate for the computer's player) and
  the computer's choice: every choice is taken. `Delay` and `GrantTurn` of the queue.
* The forge's measurements, which run the battle engine over seeds and keep no state.
* The lists of the join and draft screens, the arrange screen's own keys, the
  read-only catalogues, and all drawing.
* Wire encoding, discovery, the host's flags, translations, shipped data: input,
  output and layout.

## 7. What is left of the plan

1. The remaining properties of the battle as theorems: gates, and the refinement of
   `Contest`.
2. The arrange screen as a component of its own; `Wire`'s room code as a pure
   operator; a drafting room behind the transport.
3. `table_rejoin` and the theorems of `TableProofs` at two tables, once a
   table's windows stop with it.
