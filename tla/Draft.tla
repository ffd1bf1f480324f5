------------------------------- MODULE Draft -------------------------------
(***************************************************************************)
(* The ban-and-pick of internal/draft: two seats take turns over one        *)
(* exclusive pool, then arrange simultaneously and in secret.  The draft is *)
(* a pure function of the decisions taken; `entries` is the record a mirror *)
(* is handed.  A refused decision leaves the draft as it was, so a refusal  *)
(* is the absence of a step.  Kits (skills and traits) are abstracted into  *)
(* the form a loadout names; a cell is its row-major number on the 3x3.     *)
(***************************************************************************)
EXTENDS Integers, Sequences, FiniteSets, SequencesExt

CONSTANTS
  Pool,          \* the characters the draft may seat
  Names,         \* what a loadout may name as its form, "furthest" included
  Resolve,       \* Resolve[c][n]: the form n resolves to, NoStage when refused
  NoStage,       \* no form yet, and the answer to a name that has no form
  Nobody,        \* the character a skipped ban names
  Cells,         \* the cells a side may stand on, numbered row-major
  PicksPerSide,
  BansPerSide,
  First          \* the seat that decides first

Seat == {"host", "guest"}

Other(seat) == IF seat = "host" THEN "guest" ELSE "host"

Stages == UNION { { Resolve[c][n] : n \in Names } : c \in Pool }

\* draft.New refuses every configuration outside this: Fits measures the pool
\* against every ban being spent.  No format of the game fields nobody.
ASSUME ConfigAssumption ==
  /\ IsFiniteSet(Pool)
  /\ Cells \subseteq Nat
  /\ PicksPerSide \in Nat \ {0}
  /\ BansPerSide \in Nat
  /\ First \in Seat
  /\ Cardinality(Pool) >= 2 * PicksPerSide + 2 * BansPerSide

\* The values that stand for "none" are not values of what they stand in for.
ASSUME SentinelAssumption == Nobody \notin Pool

VARIABLES
  spent,      \* who left the pool, by which seat and by which step
  taken,      \* each side's picks in the order they were taken
  bans,       \* ban slots used
  picks,      \* picks taken
  awaiting,   \* the last pick's loadout is due
  pending,    \* the character that loadout is for
  arranged,   \* each side's arrangement, held back until both are in
  abandoned,  \* the seat whose allowance ran out
  entries     \* the record

vars == <<spent, taken, bans, picks, awaiting, pending, arranged, abandoned, entries>>

-----------------------------------------------------------------------------
(* What the draft is waiting for. *)

Cancelled == abandoned # "none"

Picked == /\ ~Cancelled
          /\ ~awaiting
          /\ bans = 2 * BansPerSide
          /\ picks = 2 * PicksPerSide

HasArranged(seat) == arranged[seat] # <<>>

ArrangedBoth == \A seat \in Seat : HasArranged(seat)

Arranging == Picked /\ ~ArrangedBoth

Done == Picked /\ ArrangedBoth

SeatAt(n) == IF n % 2 = 0 THEN First ELSE Other(First)

\* Mutant: one ban slot too many is handed out.
DueExtraBan(seat, step) ==
  /\ ~Cancelled
  /\ ~Picked
  /\ \/ awaiting /\ step = "loadout" /\ seat = SeatAt(picks - 1)
     \/ ~awaiting /\ bans <= 2 * BansPerSide /\ step = "ban" /\ seat = SeatAt(bans)
     \/ ~awaiting /\ bans > 2 * BansPerSide /\ step = "pick" /\ seat = SeatAt(picks)

\* Draft.Turn and Draft.due: this seat owes exactly this step now.
Due(seat, step) ==
  /\ ~Cancelled
  /\ ~Picked
  /\ \/ /\ awaiting
        /\ step = "loadout"
        /\ seat = SeatAt(picks - 1)
     \/ /\ ~awaiting
        /\ bans < 2 * BansPerSide
        /\ step = "ban"
        /\ seat = SeatAt(bans)
     \/ /\ ~awaiting
        /\ ~(bans < 2 * BansPerSide)
        /\ step = "pick"
        /\ seat = SeatAt(picks)

\* Mutant: a ban is announced and takes nobody out of the pool.
GonePicksOnly == { one.character : one \in { s \in spent : s.step = "pick" } }

Gone == { one.character : one \in spent }

Candidates == Pool \ Gone

AwaitingArrangement == { seat \in Seat : Arranging /\ ~HasArranged(seat) }

\* placement.Squad.Validate on the squad an arrangement makes: one cell each.
Arrangements ==
  { slots \in [1..PicksPerSide -> Cells] :
      \A i, j \in 1..PicksPerSide : slots[i] = slots[j] => i = j }

Entry(seat, step, what) == [seat |-> seat, step |-> step, what |-> what]

-----------------------------------------------------------------------------
(* The decisions. *)

Init ==
  /\ spent = {}
  /\ taken = [seat \in Seat |-> <<>>]
  /\ bans = 0
  /\ picks = 0
  /\ awaiting = FALSE
  /\ pending = Nobody
  /\ arranged = [seat \in Seat |-> <<>>]
  /\ abandoned = "none"
  /\ entries = <<>>

\* A new draft in the place of this one (draft.New, called by Room.redraft).
Renew ==
  /\ spent' = {}
  /\ taken' = [seat \in Seat |-> <<>>]
  /\ bans' = 0
  /\ picks' = 0
  /\ awaiting' = FALSE
  /\ pending' = Nobody
  /\ arranged' = [seat \in Seat |-> <<>>]
  /\ abandoned' = "none"
  /\ entries' = <<>>

Ban(seat, character) ==
  /\ Due(seat, "ban")
  /\ character \in Candidates
  /\ spent' = spent \cup {[character |-> character, seat |-> seat, step |-> "ban"]}
  /\ bans' = bans + 1
  /\ entries' = Append(entries, Entry(seat, "ban", character))
  /\ UNCHANGED <<taken, picks, awaiting, pending, arranged, abandoned>>

SkipBan(seat) ==
  /\ Due(seat, "ban")
  /\ bans' = bans + 1
  /\ entries' = Append(entries, Entry(seat, "ban", Nobody))
  /\ UNCHANGED <<spent, taken, picks, awaiting, pending, arranged, abandoned>>

Pick(seat, character) ==
  /\ Due(seat, "pick")
  /\ character \in Candidates
  /\ spent' = spent \cup {[character |-> character, seat |-> seat, step |-> "pick"]}
  /\ taken' = [taken EXCEPT ![seat] = Append(@, [character |-> character, stage |-> NoStage])]
  /\ picks' = picks + 1
  /\ awaiting' = TRUE
  /\ pending' = character
  /\ entries' = Append(entries, Entry(seat, "pick", character))
  /\ UNCHANGED <<bans, arranged, abandoned>>

\* The record keeps what was named, the pick keeps what it resolved to.
Loadout(seat, name) ==
  /\ Due(seat, "loadout")
  /\ Resolve[pending][name] # NoStage
  /\ taken' = [taken EXCEPT ![seat][Len(taken[seat])].stage = Resolve[pending][name]]
  /\ awaiting' = FALSE
  /\ entries' = Append(entries, Entry(seat, "loadout", name))
  /\ UNCHANGED <<spent, bans, picks, pending, arranged, abandoned>>

\* Mutant: an arrangement is recorded as it arrives.
ArrangeAsItArrives(seat, slots) ==
  /\ Arranging
  /\ ~HasArranged(seat)
  /\ slots \in Arrangements
  /\ arranged' = [arranged EXCEPT ![seat] = slots]
  /\ entries' = Append(entries, Entry(seat, "arrange", slots))
  /\ UNCHANGED <<spent, taken, bans, picks, awaiting, pending, abandoned>>

\* Nothing is recorded until both are in, and then in seat order.
Arrange(seat, slots) ==
  /\ Arranging
  /\ ~HasArranged(seat)
  /\ slots \in Arrangements
  /\ arranged' = [arranged EXCEPT ![seat] = slots]
  /\ entries' = IF HasArranged(Other(seat))
                THEN entries \o <<Entry("host", "arrange", arranged'["host"]),
                                  Entry("guest", "arrange", arranged'["guest"])>>
                ELSE entries
  /\ UNCHANGED <<spent, taken, bans, picks, awaiting, pending, abandoned>>

\* Mutant: the allowance does not cover the arrange phase.
TimedOutTurnOnly(seat) ==
  /\ \E step \in {"ban", "pick", "loadout"} : Due(seat, step)
  /\ abandoned' = seat
  /\ arranged' = [s \in Seat |-> <<>>]
  /\ entries' = Append(entries, Entry(seat, "timeout", Nobody))
  /\ UNCHANGED <<spent, taken, bans, picks, awaiting, pending>>

\* Draft.TimedOut and Draft.abandon: the whole draft is over, and an
\* arrangement that was held back is dropped without being recorded.
TimedOut(seat) ==
  /\ \/ seat \in AwaitingArrangement
     \/ \E step \in {"ban", "pick", "loadout"} : Due(seat, step)
  /\ abandoned' = seat
  /\ arranged' = [s \in Seat |-> <<>>]
  /\ entries' = Append(entries, Entry(seat, "timeout", Nobody))
  /\ UNCHANGED <<spent, taken, bans, picks, awaiting, pending>>

\* What Draft.Apply takes: the entry is due, and what it names may be named.
Acceptable(entry) ==
  \/ /\ entry.step \in {"ban", "pick"}
     /\ Due(entry.seat, entry.step)
     /\ entry.what \in Candidates \/ (entry.step = "ban" /\ entry.what = Nobody)
  \/ /\ entry.step = "loadout"
     /\ Due(entry.seat, "loadout")
     /\ Resolve[pending][entry.what] # NoStage
  \/ /\ entry.step = "arrange"
     /\ entry.seat \in AwaitingArrangement
     /\ entry.what \in Arrangements

\* Draft.Apply: one recorded decision taken back through the decision it names.
Apply(entry) ==
  \/ entry.step = "ban" /\ entry.what = Nobody /\ SkipBan(entry.seat)
  \/ entry.step = "ban" /\ entry.what # Nobody /\ Ban(entry.seat, entry.what)
  \/ entry.step = "pick" /\ Pick(entry.seat, entry.what)
  \/ entry.step = "loadout" /\ Loadout(entry.seat, entry.what)
  \/ entry.step = "arrange" /\ Arrange(entry.seat, entry.what)
  \/ entry.step = "timeout" /\ TimedOut(entry.seat)

Next ==
  \E seat \in Seat :
    \/ \E character \in Pool : Ban(seat, character)
    \/ SkipBan(seat)
    \/ \E character \in Pool : Pick(seat, character)
    \/ \E name \in Names : Loadout(seat, name)
    \/ \E slots \in Arrangements : Arrange(seat, slots)
    \/ TimedOut(seat)

Spec == Init /\ [][Next]_vars

-----------------------------------------------------------------------------
(* Properties. *)

PickRecord == [character : Pool, stage : Stages \cup {NoStage}]

EntryRecord ==
  [seat : Seat, step : {"ban", "pick", "loadout", "arrange", "timeout"},
   what : Pool \cup Names \cup Arrangements \cup {Nobody}]

\* Every variable of the draft holds a value of its own kind.
TypeOK ==
  /\ spent \subseteq [character : Pool, seat : Seat, step : {"ban", "pick"}]
  /\ taken \in [Seat -> Seq(PickRecord)]
  /\ bans \in 0..(2 * BansPerSide)
  /\ picks \in 0..(2 * PicksPerSide)
  /\ awaiting \in BOOLEAN
  /\ pending \in Pool \cup {Nobody}
  /\ arranged \in [Seat -> Arrangements \cup {<<>>}]
  /\ abandoned \in Seat \cup {"none"}
  /\ entries \in Seq(EntryRecord)

\* What the pool has left over once every pick and every ban is spent.
Slack == Cardinality(Pool) - 2 * PicksPerSide - 2 * BansPerSide

\* The package comment's promise: whatever is banned, picked or skipped and in
\* whatever order, a seat that is due to ban or pick has at least slack + 1
\* characters to choose from, so no decision is ever due with nobody to name.
NeverDry ==
  \A seat \in Seat :
    Due(seat, "ban") \/ Due(seat, "pick") => Cardinality(Candidates) >= Slack + 1

\* One shared pool: no character is fielded twice, by one side or by both, and
\* none that was banned is fielded at all (Draft.offered, Draft.squadAt's ids).
Exclusive ==
  \A s, t \in Seat : \A i \in DOMAIN taken[s] :
    /\ \A j \in DOMAIN taken[t] :
         taken[s][i].character = taken[t][j].character => s = t /\ i = j
    /\ [character |-> taken[s][i].character, seat |-> t, step |-> "ban"] \notin spent

\* An arrangement reaches the record only when both are in: a record with one in
\* it is a finished draft's, it holds both, and it holds them in seat order
\* whichever arrived first.
SecretUntilBoth ==
  (\E i \in DOMAIN entries : entries[i].step = "arrange") =>
    /\ Done
    /\ LET n == Len(entries)
       IN /\ entries[n - 1] = Entry("host", "arrange", arranged["host"])
          /\ entries[n] = Entry("guest", "arrange", arranged["guest"])
          /\ \A i \in 1..(n - 2) : entries[i].step # "arrange"

=============================================================================
