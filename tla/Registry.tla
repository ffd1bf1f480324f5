------------------------------ MODULE Registry ------------------------------
(***************************************************************************)
(* The registry of internal/room: one goroutine per room behind an          *)
(* unbuffered inbox, found by a room code that is given out again as soon   *)
(* as nobody is enrolled under it.  Each step below is what one goroutine   *)
(* does under the registry's mutex or between two channel operations.       *)
(***************************************************************************)
EXTENDS Naturals, FiniteSets

CONSTANTS
  Codes,     \* the rooms one address can name, numbered
  Handles,   \* bound: the rooms ever opened
  Callers,   \* goroutines that ask a room something
  Closers,   \* goroutines that close rooms
  Waiters,   \* goroutines inside Wait
  NoHandle

ASSUME RegistryAssumption ==
  /\ Codes \subseteq Nat
  /\ IsFiniteSet(Handles)
  /\ NoHandle \notin Handles

VARIABLES
  rooms,    \* who is enrolled under each code
  live,     \* room goroutines that have not returned
  state,    \* where a room's goroutine is
  codeOf,   \* the code a room was opened under
  handling, \* the caller whose request a room has taken
  quit,     \* quit channels that are closed
  caller,   \* where each caller is, and with whom
  closing,  \* handles a closer has taken out and not closed yet
  waiter    \* where each waiter is

registryVars == <<rooms, live, state, codeOf, handling, quit, caller, closing, waiter>>

NoCaller == "nobody"

Enrolled == { rooms[k] : k \in Codes } \ {NoHandle}

\* The done channel is closed by the goroutine as it goes.
Done(h) == state[h] = "gone"

\* A goroutine that has been started and has not run its deferred retirement.
Alive == { h \in Handles : state[h] \in {"serving", "leaving"} }

Idle == [at |-> "idle", of |-> NoHandle, got |-> "nothing"]

RegistryInit ==
  /\ rooms = [k \in Codes |-> NoHandle]
  /\ live = 0
  /\ state = [h \in Handles |-> "unopened"]
  /\ codeOf = [h \in Handles |-> 0]
  /\ handling = [h \in Handles |-> NoCaller]
  /\ quit = {}
  /\ caller = [c \in Callers |-> Idle]
  /\ closing = [p \in Closers |-> {}]
  /\ waiter = [w \in Waiters |-> "outside"]

-----------------------------------------------------------------------------
(* Opening. *)

FreeCodes == { k \in Codes : rooms[k] = NoHandle }

\* Registry.enrol: the lowest code nobody is running under.
Enrol(h) ==
  \E k \in FreeCodes :
    /\ \A other \in FreeCodes : k <= other
    /\ rooms' = [rooms EXCEPT ![k] = h]
    /\ codeOf' = [codeOf EXCEPT ![h] = k]

\* Registry.Open: enrolled and counted under one lock, then its goroutine starts.
\* With every code taken it opens nothing.
Open(h) ==
  /\ state[h] = "unopened"
  /\ Enrol(h)
  /\ live' = live + 1
  /\ state' = [state EXCEPT ![h] = "serving"]
  /\ UNCHANGED <<handling, quit, caller, closing, waiter>>

-----------------------------------------------------------------------------
(* Asking. *)

\* Registry.ask, up to the select: the entry is found and the mutex let go.
Ask(c, k) ==
  /\ caller[c].at = "idle"
  /\ caller' = [caller EXCEPT ![c] =
       IF rooms[k] = NoHandle THEN [Idle EXCEPT !.got = "unknown"]
       ELSE [at |-> "found", of |-> rooms[k], got |-> "nothing"]]
  /\ UNCHANGED <<rooms, live, state, codeOf, handling, quit, closing, waiter>>

\* The inbox is unbuffered: sender and room meet while the room is in its select.
Enter(c) ==
  LET h == caller[c].of
  IN /\ caller[c].at = "found"
     /\ state[h] = "serving"
     /\ handling[h] = NoCaller
     /\ handling' = [handling EXCEPT ![h] = c]
     /\ caller' = [caller EXCEPT ![c].at = "waiting"]
     /\ UNCHANGED <<rooms, live, state, codeOf, quit, closing, waiter>>

\* Mutant: the caller watches the quit channel, which is closed first.
GiveUpOnQuit(c) ==
  /\ caller[c].at = "found"
  /\ caller[c].of \in quit
  /\ caller' = [caller EXCEPT ![c] = [Idle EXCEPT !.got = "unknown"]]
  /\ UNCHANGED <<rooms, live, state, codeOf, handling, quit, closing, waiter>>

\* The other arm of that select: the room has gone.
GiveUp(c) ==
  /\ caller[c].at = "found"
  /\ Done(caller[c].of)
  /\ caller' = [caller EXCEPT ![c] = [Idle EXCEPT !.got = "unknown"]]
  /\ UNCHANGED <<rooms, live, state, codeOf, handling, quit, closing, waiter>>

\* Mutant: the finished room leaves its loop before it has answered.
AnswerAfterFinish(h, over) ==
  /\ state[h] = "serving"
  /\ handling[h] # NoCaller
  /\ IF over
     THEN state' = [state EXCEPT ![h] = "leaving"] /\ UNCHANGED caller
     ELSE caller' = [caller EXCEPT ![handling[h]].at = "answered"] /\ UNCHANGED state
  /\ handling' = [handling EXCEPT ![h] = NoCaller]
  /\ UNCHANGED <<rooms, live, codeOf, quit, closing, waiter>>

\* Registry.serve's inbox arm: the reply channel holds one answer, so the room
\* never waits for the caller; a room that finished answers and then leaves.
AnswerAsked(h, over) ==
  /\ state[h] = "serving"
  /\ handling[h] # NoCaller
  /\ caller' = [caller EXCEPT ![handling[h]].at = "answered"]
  /\ handling' = [handling EXCEPT ![h] = NoCaller]
  /\ state' = IF over THEN [state EXCEPT ![h] = "leaving"] ELSE state
  /\ UNCHANGED <<rooms, live, codeOf, quit, closing, waiter>>

\* The caller takes its answer out of the reply channel.
Collect(c) ==
  /\ caller[c].at = "answered"
  /\ caller' = [caller EXCEPT ![c] = [Idle EXCEPT !.got = "answer"]]
  /\ UNCHANGED <<rooms, live, state, codeOf, handling, quit, closing, waiter>>

\* Registry.serve's quit arm.
Quit(h) ==
  /\ state[h] = "serving"
  /\ handling[h] = NoCaller
  /\ h \in quit
  /\ state' = [state EXCEPT ![h] = "leaving"]
  /\ UNCHANGED <<rooms, live, codeOf, handling, quit, caller, closing, waiter>>

-----------------------------------------------------------------------------
(* Going. *)

Woken == [w \in Waiters |-> IF waiter[w] = "asleep" THEN "awake" ELSE waiter[w]]

\* Mutant: the code is cleared whoever is enrolled under it by now.
RetiredWhoever(h) ==
  /\ state[h] = "leaving"
  /\ rooms' = [rooms EXCEPT ![codeOf[h]] = NoHandle]
  /\ state' = [state EXCEPT ![h] = "gone"]
  /\ live' = live - 1
  /\ waiter' = Woken
  /\ UNCHANGED <<codeOf, handling, quit, caller, closing>>

\* Registry.retired, deferred behind the loop: the entry is removed only if it is
\* still this room's, done is closed, and everybody in Wait is woken.
Retired(h) ==
  /\ state[h] = "leaving"
  /\ rooms' = IF rooms[codeOf[h]] = h THEN [rooms EXCEPT ![codeOf[h]] = NoHandle] ELSE rooms
  /\ state' = [state EXCEPT ![h] = "gone"]
  /\ live' = live - 1
  /\ waiter' = Woken
  /\ UNCHANGED <<codeOf, handling, quit, caller, closing>>

\* Registry.unenrol and unenrolAll: taken out under the mutex, closed after it.
Unenrol(p, hs) ==
  /\ closing' = [closing EXCEPT ![p] = hs]
  /\ rooms' = [k \in Codes |-> IF rooms[k] \in hs THEN NoHandle ELSE rooms[k]]

CloseRoom(p, k) ==
  /\ closing[p] = {}
  /\ rooms[k] # NoHandle
  /\ Unenrol(p, {rooms[k]})
  /\ UNCHANGED <<live, state, codeOf, handling, quit, caller, waiter>>

CloseAll(p) ==
  /\ closing[p] = {}
  /\ Enrolled # {}
  /\ Unenrol(p, Enrolled)
  /\ UNCHANGED <<live, state, codeOf, handling, quit, caller, waiter>>

\* close(entry.quit), by the closer that took it out.
CloseQuit(p) ==
  \E h \in closing[p] :
    /\ quit' = quit \cup {h}
    /\ closing' = [closing EXCEPT ![p] = @ \ {h}]
    /\ UNCHANGED <<rooms, live, state, codeOf, handling, caller, waiter>>

\* Registry.Wait, each time round its loop.
Wait(w) ==
  /\ waiter[w] \in {"outside", "awake"}
  /\ waiter' = [waiter EXCEPT ![w] = IF live = 0 THEN "returned" ELSE "asleep"]
  /\ UNCHANGED <<rooms, live, state, codeOf, handling, quit, caller, closing>>

RegistryNext ==
  \/ \E h \in Handles : Open(h) \/ Quit(h) \/ Retired(h)
  \/ \E h \in Handles, over \in BOOLEAN : AnswerAsked(h, over)
  \/ \E c \in Callers : Enter(c) \/ GiveUp(c) \/ Collect(c)
  \/ \E c \in Callers, k \in Codes : Ask(c, k)
  \/ \E p \in Closers : CloseAll(p) \/ CloseQuit(p)
  \/ \E p \in Closers, k \in Codes : CloseRoom(p, k)
  \/ \E w \in Waiters : Wait(w)

RegistrySpec == RegistryInit /\ [][RegistryNext]_registryVars

\* Goroutines are scheduled.  A room's select chooses among what is ready at
\* random, and waiting senders are served in the order they came, so neither the
\* quit arm nor a waiting sender is passed over for ever (strong fairness).
\* Nobody has to ask, to open, to close or to call Wait, and no match has to end.
FairRegistrySpec ==
  /\ RegistrySpec
  /\ \A h \in Handles : /\ WF_registryVars(\E over \in BOOLEAN : AnswerAsked(h, over))
                        /\ SF_registryVars(Quit(h))
                        /\ WF_registryVars(Retired(h))
  /\ \A c \in Callers : /\ SF_registryVars(Enter(c))
                        /\ WF_registryVars(GiveUp(c))
                        /\ WF_registryVars(Collect(c))
  /\ \A p \in Closers : WF_registryVars(CloseQuit(p))
  /\ \A w \in Waiters : WF_registryVars(waiter[w] = "awake" /\ Wait(w))

-----------------------------------------------------------------------------
(* Properties. *)

\* Every variable of the registry holds a value of its own kind.
RegistryOK ==
  /\ rooms \in [Codes -> Handles \cup {NoHandle}]
  /\ live \in Nat
  /\ state \in [Handles -> {"unopened", "serving", "leaving", "gone"}]
  /\ codeOf \in [Handles -> Codes \cup {0}]
  /\ handling \in [Handles -> Callers \cup {NoCaller}]
  /\ quit \subseteq Handles
  /\ caller \in [Callers -> [at : {"idle", "found", "waiting", "answered"},
                             of : Handles \cup {NoHandle},
                             got : {"nothing", "answer", "unknown"}]]
  /\ closing \in [Closers -> SUBSET Handles]
  /\ waiter \in [Waiters -> {"outside", "asleep", "awake", "returned"}]

\* A room that is running is found under its code until it is closed or its match
\* is over: reopening a code while its last room is still on its way out takes
\* neither room's place from the other.
CodeIsItsRooms ==
  /\ \A k \in Codes : rooms[k] # NoHandle => codeOf[rooms[k]] = k /\ rooms[k] \in Alive
  /\ \A h \in Handles :
       state[h] = "serving" => \/ rooms[codeOf[h]] = h
                               \/ h \in quit
                               \/ \E p \in Closers : h \in closing[p]

\* No quit channel is closed twice, which would be a panic: one closer has a room
\* in hand, and only until it has closed it.
QuitClosedOnce ==
  \A p \in Closers : \A h \in closing[p] :
    h \notin quit /\ \A q \in Closers \ {p} : h \notin closing[q]

\* Wait returns to a registry with no room goroutine in it, not merely to one with
\* no code in its map.
WaitMeansGone ==
  [][\A w \in Waiters : waiter[w] # "returned" /\ waiter'[w] = "returned" => Alive = {}]_registryVars

\* A caller is told the room is unknown only when nobody was enrolled under the
\* code, or the room it found is gone: never while the room could have answered.
UnknownMeansGone ==
  [][\A c \in Callers :
       caller[c].at = "found" /\ caller'[c].got = "unknown" =>
         /\ Done(caller[c].of)
         /\ \A k \in Codes : rooms[k] # caller[c].of]_registryVars

\* Everybody who asks is told something, whether the room plays on, finishes under
\* somebody else's input, or is closed while the question is on its way.
CallersAreAnswered ==
  \A c \in Callers : caller[c].at # "idle" ~> caller[c].at = "idle"

=============================================================================
