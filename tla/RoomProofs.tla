----------------------------- MODULE RoomProofs -----------------------------
(***************************************************************************)
(* What a room keeps for every length of series, turn cap, pool and draft.  *)
(* The invariant says when a battle is open, which battle it is and what    *)
(* the draft has come to by then; from it follow the room's promises, and   *)
(* that the room implements Match.                                          *)
(***************************************************************************)
EXTENDS Room, TLAPS, FiniteSetTheorems

\* A battle is open exactly when somebody is asked something in it, between two
\* fielded squads; and an unfinished room with no battle open is short of a
\* player or in a draft that has not come to its end.
Fights ==
  /\ fight <=> asked # "none"
  /\ fight => /\ ~Finished /\ BothTaken /\ home \in Seat
              /\ \A s \in Seat : seated[s].squad = "ready"
              /\ Drafts => D!Done
  /\ Finished \/ played # <<>> => BothTaken
  /\ ~fight /\ ~Finished => IF Drafts THEN ~D!Done /\ ~D!Cancelled ELSE ~BothTaken

\* The open battle is the next one of the series.
Indexed == ~Finished => index = Len(played) + (IF fight THEN 1 ELSE 0)

\* A room that does not draft seats nobody without a squad.
Fielded == ~Drafts => \A s \in Seat : seated[s].taken => seated[s].squad = "ready"

\* The draft's record is a record of decisions, and what it holds back is too.
RecordTyped ==
  /\ arranged \in [Seat -> D!Arrangements \cup {<<>>}]
  /\ entries \in Seq(D!EntryRecord)

IInv == TypeOK /\ Fights /\ Indexed /\ Fielded /\ VerdictIsTheScore /\ RecordTyped

-----------------------------------------------------------------------------
(* Seats, scores and bodies. *)

\* There are two seats, and each is the other one's other.
LEMMA Seats == Seat = {"host", "guest"} /\ \A s \in Seat : Other(s) \in Seat /\ Other(s) # s
BY DEF Seat, D!Seat, Other, D!Other

\* Every battle has a home seat.
LEMMA Homes == \A i \in Nat : HomeFor(i) \in Seat
BY RoomAssumption, Seats DEF HomeFor

\* Each seat is on one side of the board.
LEMMA Sides == \A h, s : SideUnder(h, s) \in {"ally", "enemy"}
BY DEF SideUnder

\* What the room sends is a body.
LEMMA Bodies ==
  ASSUME NEW i \in Nat, NEW side \in {"ally", "enemy"}
  PROVE /\ StartBody(i, side) \in Body
        /\ TurnBody(i) \in Body
        /\ DraftedBody(i) \in Body
        /\ ClosedBody \in Body
BY DEF StartBody, TurnBody, DraftedBody, ClosedBody, Body

\* Telling both seats keeps what they were sent a sequence of bodies.
LEMMA ToldIsTyped ==
  ASSUME TypeOK, NEW body \in Body
  PROVE Told(body) \in [Seat -> Seq(Body)]
BY DEF Told, TypeOK

\* The two lengths of a series and their halves.
LEMMA Halves == (Battles = 1 /\ Battles \div 2 = 0) \/ (Battles = 3 /\ Battles \div 2 = 1)
BY RoomAssumption

\* What a battle comes to is a number of turns and a seat or nobody.
LEMMA SettlingsType ==
  ASSUME NEW t \in Nat, NEW o \in Settlings(t)
  PROVE /\ o.turns \in Nat
        /\ o.asked \in Seat \cup {"none"}
        /\ o.winner \in Seat \cup {"none"}
        /\ o.capped \in BOOLEAN
<1>1. \A k \in 0..MaxSkips : t + k \in Nat /\ t + k + 1 \in Nat
  BY RoomAssumption
<1>2. \/ \E k \in 0..MaxSkips, w \in Seat \cup {"none"} :
           o = [turns |-> t + k, asked |-> "none", capped |-> FALSE, winner |-> w]
      \/ \E k \in 0..MaxSkips, s \in Seat :
           o = [turns |-> t + k + 1, asked |-> s, capped |-> FALSE, winner |-> "none"]
      \/ \E k \in 0..MaxSkips :
           o = [turns |-> t + k + 1, asked |-> "none", capped |-> TRUE, winner |-> "none"]
  BY DEF Settlings
<1>3. CASE \E k \in 0..MaxSkips, w \in Seat \cup {"none"} :
        o = [turns |-> t + k, asked |-> "none", capped |-> FALSE, winner |-> w]
  BY <1>1, <1>3
<1>4. CASE \E k \in 0..MaxSkips, s \in Seat :
        o = [turns |-> t + k + 1, asked |-> s, capped |-> FALSE, winner |-> "none"]
  BY <1>1, <1>4
<1>5. CASE \E k \in 0..MaxSkips :
        o = [turns |-> t + k + 1, asked |-> "none", capped |-> TRUE, winner |-> "none"]
  BY <1>1, <1>5
<1> QED BY <1>2, <1>3, <1>4, <1>5

\* A battle opens with somebody asked.
LEMMA BeginOpens ==
  ASSUME NEW i \in Nat, NEW told \in [Seat -> Seq(Body)], NEW record \in Seq(Body),
         Begin(i, told, record)
  PROVE /\ fight' = TRUE /\ index' = i
        /\ home' \in Seat /\ asked' \in Seat /\ turns' \in Nat
        /\ sent' \in [Seat -> Seq(Body)] /\ watched' \in Seq(Body)
<1>1. PICK o \in Openings : Begin(i, told, record)!(o)
  BY DEF Begin
<1>2. o.turns \in Nat /\ o.asked \in Seat
  <2>1. o \in Settlings(0) /\ o.asked # "none"
    BY DEF Openings
  <2> QED BY <2>1, SettlingsType
<1>3. home' \in Seat
  BY <1>1, Homes
<1>4. \A s \in Seat : StartBody(i, SideUnder(HomeFor(i), s)) \in Body
  BY Bodies, Sides
<1>5. sent' \in [Seat -> Seq(Body)]
  BY <1>1, <1>4
<1>6. watched' \in Seq(Body)
  BY <1>1, <1>4, Seats
<1> QED BY <1>1, <1>2, <1>3, <1>5, <1>6

\* The battles a seat has won, counted with one battle more.
LEMMA OneMoreBattle ==
  ASSUME NEW b \in BattleResult, NEW s \in Seat, played \in Seq(BattleResult),
         standing[s] = Cardinality({ i \in DOMAIN played : played[i].winner = s })
  PROVE standing[s] + (IF s = b.winner THEN 1 ELSE 0)
        = Cardinality({ i \in DOMAIN Append(played, b) : Append(played, b)[i].winner = s })
<1> DEFINE n == Len(played) + 1
           old == { i \in DOMAIN played : played[i].winner = s }
           new == { i \in DOMAIN Append(played, b) : Append(played, b)[i].winner = s }
<1>1. n \in Nat /\ n \notin old
  OBVIOUS
<1>2. new = IF s = b.winner THEN old \cup {n} ELSE old
  <2>1. /\ DOMAIN Append(played, b) = 1..n /\ DOMAIN played = 1..Len(played)
        /\ Append(played, b)[n] = b
        /\ \A i \in 1..Len(played) : Append(played, b)[i] = played[i]
    OBVIOUS
  <2>2. 1..n = 1..Len(played) \cup {n}
    OBVIOUS
  <2> HIDE DEF n
  <2>3. \A i \in 1..Len(played) : i \in new <=> i \in old
    BY <2>1, <2>2
  <2>4. n \in new <=> s = b.winner
    BY <2>1, <2>2
  <2>5. new \subseteq 1..Len(played) \cup {n} /\ old \subseteq 1..Len(played)
    BY <2>1, <2>2
  <2> HIDE DEF new, old
  <2>6. CASE s = b.winner
    BY <2>3, <2>4, <2>5, <2>6
  <2>7. CASE s # b.winner
    <3>1. n \notin new
      BY <2>4, <2>7
    <3>2. \A i \in new : i \in old
      BY <2>3, <2>5, <3>1
    <3>3. \A i \in old : i \in new
      BY <2>3, <2>5
    <3>4. new = old
      BY <3>2, <3>3
    <3> QED BY <3>4, <2>7
  <2> QED BY <2>6, <2>7
<1>3. IsFiniteSet(old) /\ Cardinality(old) \in Nat
  <2>1. old \subseteq 1..Len(played)
    OBVIOUS
  <2>2. IsFiniteSet(1..Len(played))
    BY FS_Interval
  <2> QED BY <2>1, <2>2, FS_Subset, FS_CardinalityType
<1>4. Cardinality(old \cup {n}) = Cardinality(old) + 1
  BY <1>1, <1>3, FS_AddElement
<1>5. standing[s] = Cardinality(old)
  OBVIOUS
<1> HIDE DEF new, old, n
<1>6. standing[s] + (IF s = b.winner THEN 1 ELSE 0) = Cardinality(new)
  BY <1>2, <1>3, <1>4, <1>5
<1> QED BY <1>6 DEF new

-----------------------------------------------------------------------------
(* The draft inside the room. *)

\* A decision adds to the record and cancels nothing.
LEMMA ApplyRecords ==
  ASSUME RecordTyped, NEW seat \in Seat, NEW decision \in Decisions(seat),
         D!Apply(decision)
  PROVE RecordTyped' /\ abandoned' = abandoned
<1>1. decision \in D!EntryRecord /\ decision.step # "timeout" /\ decision.seat = seat
  BY DEF Decisions, D!Entry, D!EntryRecord, Seat
<1>2. CASE entries' = Append(entries, decision) /\ UNCHANGED <<arranged, abandoned>>
  BY <1>1, <1>2 DEF RecordTyped
<1>3. CASE decision.step = "arrange" /\ D!Arrange(decision.seat, decision.what)
  <2>1. /\ decision.what \in D!Arrangements
        /\ arranged' = [arranged EXCEPT ![seat] = decision.what]
        /\ abandoned' = abandoned
        /\ entries' = IF D!HasArranged(D!Other(seat))
                      THEN entries \o <<D!Entry("host", "arrange", arranged'["host"]),
                                        D!Entry("guest", "arrange", arranged'["guest"])>>
                      ELSE entries
    BY <1>1, <1>3 DEF D!Arrange
  <2>2. arranged' \in [Seat -> D!Arrangements \cup {<<>>}]
    BY <2>1 DEF RecordTyped
  <2>3. CASE ~D!HasArranged(D!Other(seat))
    BY <2>1, <2>2, <2>3 DEF RecordTyped
  <2>4. CASE D!HasArranged(D!Other(seat))
    <3>1. \A s \in Seat : arranged'[s] \in D!Arrangements
      <4>1. arranged'[seat] = decision.what
        BY <2>1 DEF RecordTyped
      <4>2. arranged'[D!Other(seat)] = arranged[D!Other(seat)]
        BY <2>1, Seats DEF RecordTyped, Other
      <4>3. arranged[D!Other(seat)] \in D!Arrangements
        BY <2>4, Seats DEF RecordTyped, Other, D!HasArranged
      <4>4. \A s \in Seat : s = seat \/ s = D!Other(seat)
        BY Seats DEF D!Other
      <4> QED BY <2>1, <4>1, <4>2, <4>3, <4>4
    <3>2. /\ D!Entry("host", "arrange", arranged'["host"]) \in D!EntryRecord
          /\ D!Entry("guest", "arrange", arranged'["guest"]) \in D!EntryRecord
      BY <3>1, Seats DEF D!Entry, D!EntryRecord, Seat
    <3>3. entries' \in Seq(D!EntryRecord)
      <4> DEFINE x == D!Entry("host", "arrange", arranged'["host"])
                 y == D!Entry("guest", "arrange", arranged'["guest"])
      <4>1. entries' = entries \o <<x, y>>
        BY <2>1, <2>4
      <4>2. x \in D!EntryRecord /\ y \in D!EntryRecord
        BY <3>2
      <4> HIDE DEF x, y
      <4> QED BY <4>1, <4>2 DEF RecordTyped
    <3> QED BY <2>1, <2>2, <3>3 DEF RecordTyped
  <2> QED BY <2>3, <2>4
<1>4. CASE decision.step = "ban" /\ decision.what = Nobody /\ D!SkipBan(decision.seat)
  <2>1. decision = D!Entry(seat, "ban", Nobody)
    BY <1>1, <1>4 DEF D!EntryRecord, D!Entry, Decisions
  <2> QED BY <1>1, <1>2, <1>4, <2>1 DEF D!SkipBan
<1>5. CASE decision.step = "ban" /\ D!Ban(decision.seat, decision.what)
  <2>1. decision = D!Entry(seat, "ban", decision.what)
    BY <1>1, <1>5 DEF D!EntryRecord, D!Entry, Decisions
  <2> QED BY <1>1, <1>2, <1>5, <2>1 DEF D!Ban
<1>6. CASE decision.step = "pick" /\ D!Pick(decision.seat, decision.what)
  <2>1. decision = D!Entry(seat, "pick", decision.what)
    BY <1>1, <1>6 DEF D!EntryRecord, D!Entry, Decisions
  <2> QED BY <1>1, <1>2, <1>6, <2>1 DEF D!Pick
<1>7. CASE decision.step = "loadout" /\ D!Loadout(decision.seat, decision.what)
  <2>1. decision = D!Entry(seat, "loadout", decision.what)
    BY <1>1, <1>7 DEF D!EntryRecord, D!Entry, Decisions
  <2> QED BY <1>1, <1>2, <1>7, <2>1 DEF D!Loadout
<1> QED BY <1>1, <1>3, <1>4, <1>5, <1>6, <1>7 DEF D!Apply

\* A draft that has just begun is neither done nor cancelled.
LEMMA Renewed ==
  ASSUME D!Renew
  PROVE RecordTyped' /\ ~D!Done' /\ ~D!Cancelled'
<1>1. arranged' = [s \in Seat |-> <<>>] /\ abandoned' = "none" /\ entries' = <<>>
  BY DEF D!Renew, Seat
<1>2. ~D!Done'
  <2>1. ~D!HasArranged("host")'
    BY <1>1, Seats DEF D!HasArranged
  <2> QED BY <2>1, Seats DEF D!Done, D!ArrangedBoth, Seat
<1> QED BY <1>1, <1>2 DEF RecordTyped, D!Cancelled

\* A draft that is neither done nor cancelled is asking somebody.
LEMMA DraftAsks ==
  ASSUME ~D!Done, ~D!Cancelled
  PROVE DraftAwaiting # "none"
<1>1. \A n : D!SeatAt(n) \in Seat
  <2>1. "host" \in Seat /\ D!Other("host") \in Seat
    BY Seats DEF Other
  <2> QED BY <2>1 DEF D!SeatAt
<1>2. \E seat \in Seat : DraftAsking(seat)
  <2>1. CASE D!Picked
    <3>1. PICK seat \in D!Seat : ~D!HasArranged(seat)
      BY <2>1 DEF D!Done, D!ArrangedBoth
    <3>2. D!Arranging
      BY <2>1, <3>1 DEF D!Arranging, D!ArrangedBoth
    <3>3. seat \in D!AwaitingArrangement
      BY <3>1, <3>2 DEF D!AwaitingArrangement
    <3> QED BY <3>3 DEF DraftAsking, Seat
  <2>2. CASE ~D!Picked /\ awaiting
    <3>1. D!Due(D!SeatAt(picks - 1), "loadout")
      BY <2>2 DEF D!Due
    <3> QED BY <1>1, <3>1 DEF DraftAsking
  <2>3. CASE ~D!Picked /\ ~awaiting /\ bans < 2 * BansPerSide
    <3>1. D!Due(D!SeatAt(bans), "ban")
      BY <2>3 DEF D!Due
    <3> QED BY <1>1, <3>1 DEF DraftAsking
  <2>4. CASE ~D!Picked /\ ~awaiting /\ ~(bans < 2 * BansPerSide)
    <3>1. D!Due(D!SeatAt(picks), "pick")
      BY <2>4 DEF D!Due
    <3> QED BY <1>1, <3>1 DEF DraftAsking
  <2> QED BY <2>1, <2>2, <2>3, <2>4
<1> QED BY <1>2, Seats DEF DraftAwaiting

-----------------------------------------------------------------------------
(* Each step keeps the invariant. *)

\* What the invariant says of a series that is still open.
LEMMA Unfinished ==
  ASSUME IInv, ~Finished
  PROVE /\ result.verdict = "unfinished"
        /\ Len(played) \in Nat /\ Len(played) < Battles
        /\ \A s \in Seat : standing[s] \in Nat /\ standing[s] <= Battles \div 2
BY DEF IInv, TypeOK, VerdictIsTheScore, Finished

\* A room that is short of a player has not begun.
LEMMA Gathering ==
  ASSUME IInv, ~BothTaken
  PROVE ~fight /\ ~Finished /\ played = <<>> /\ index = 0 /\ asked = "none"
<1>1. ~fight /\ ~Finished /\ played = <<>>
  BY DEF IInv, Fights
<1>2. asked = "none"
  BY <1>1 DEF IInv, Fights
<1>3. index = 0
  BY <1>1 DEF IInv, Indexed
<1> QED BY <1>1, <1>2, <1>3

\* The verdict of a series that the battle before it had left open.
LEMMA CloseVerdict ==
  ASSUME NEW wins \in [Seat -> Nat], NEW n \in Nat, NEW w \in Seat \cup {"none"},
         NEW before \in [Seat -> Nat],
         n < Battles,
         \A s \in Seat : before[s] <= Battles \div 2,
         \A s \in Seat : wins[s] = before[s] + IF s = w THEN 1 ELSE 0,
         n + 1 >= Battles \/ \E s \in Seat : wins[s] > Battles \div 2
  PROVE /\ Leader(wins) # "none" =>
             /\ Leader(wins) \in Seat
             /\ wins[Leader(wins)] > wins[Other(Leader(wins))]
             /\ n + 1 = Battles \/ wins[Leader(wins)] > Battles \div 2
        /\ Leader(wins) = "none" => wins["host"] = wins["guest"] /\ n + 1 = Battles
<1>1. Seat = {"host", "guest"} /\ Other("host") = "guest" /\ Other("guest") = "host"
  BY DEF Seat, D!Seat, Other, D!Other
<1>2. /\ before["host"] \in Nat /\ before["guest"] \in Nat
      /\ wins["host"] \in Nat /\ wins["guest"] \in Nat
      /\ wins["host"] = before["host"] + IF "host" = w THEN 1 ELSE 0
      /\ wins["guest"] = before["guest"] + IF "guest" = w THEN 1 ELSE 0
  BY <1>1
<1>3. before["host"] <= Battles \div 2 /\ before["guest"] <= Battles \div 2
  BY <1>1
<1>4. n + 1 = Battles \/ wins["host"] > Battles \div 2 \/ wins["guest"] > Battles \div 2
  BY <1>1, RoomAssumption
<1>5. CASE wins["host"] > wins["guest"]
  <2>1. Leader(wins) = "host"
    BY <1>5 DEF Leader
  <2> QED BY <1>1, <1>2, <1>4, <1>5, <2>1, Halves
<1>6. CASE wins["guest"] > wins["host"]
  <2>1. Leader(wins) = "guest"
    BY <1>2, <1>6 DEF Leader
  <2>2. n + 1 = Battles \/ wins["guest"] > Battles \div 2
    BY <1>2, <1>4, <1>6, Halves
  <2> QED BY <1>1, <1>6, <2>1, <2>2
<1>7. CASE wins["host"] = wins["guest"]
  <2>1. ~(wins["host"] > Battles \div 2)
    BY <1>2, <1>3, <1>7, Halves
  <2>2. Leader(wins) = "none"
    BY <1>2, <1>7 DEF Leader
  <2> QED BY <1>4, <1>7, <2>1, <2>2
<1> QED BY <1>2, <1>5, <1>6, <1>7

\* Closing a battle keeps the invariant, whether the series ends, drafts again or
\* goes on.
LEMMA CloseKeeps ==
  ASSUME IInv, fight,
         NEW o, o.turns \in Nat, o.winner \in Seat \cup {"none"}, o.capped \in BOOLEAN,
         NEW told \in [Seat -> Seq(Body)], NEW record \in Seq(Body),
         Close(o, told, record), minted' = minted
  PROVE IInv'
<1> DEFINE b == [battle |-> index, home |-> home, winner |-> o.winner, capped |-> o.capped]
           fought == Append(played, b)
           wins == [s \in Seat |-> standing[s] + IF s = o.winner THEN 1 ELSE 0]
<1>1. /\ ~Finished /\ BothTaken /\ home \in Seat /\ index = Len(played) + 1
      /\ \A s \in Seat : seated[s].squad = "ready"
      /\ Drafts => D!Done
  BY DEF IInv, Fights, Indexed
<1>2. /\ result.verdict = "unfinished" /\ Len(played) \in Nat /\ Len(played) < Battles
      /\ \A s \in Seat : standing[s] \in Nat /\ standing[s] <= Battles \div 2
  BY <1>1, Unfinished
<1>3. /\ played \in Seq(BattleResult) /\ standing \in [Seat -> Nat]
      /\ index \in 0..Battles /\ draftCursor \in Nat /\ minted \in 0..MaxTokens
      /\ seated \in [Seat -> [taken : BOOLEAN, token : Nat, squad : {"none", "ready"}]]
      /\ result \in [verdict : {"unfinished", "won", "drawn", "abandoned"},
                     winner : Seat \cup {"none"}, departed : Seat \cup {"none"}]
  BY DEF IInv, TypeOK
<1>4. b \in BattleResult
  BY <1>1, <1>2 DEF BattleResult
<1>5. fought \in Seq(BattleResult) /\ Len(fought) = Len(played) + 1 /\ fought # <<>>
  <2> HIDE DEF b
  <2>1. fought \in Seq(BattleResult)
    BY <1>3, <1>4
  <2>2. Len(fought) = Len(played) + 1
    BY <1>3
  <2>3. Len(fought) # 0
    BY <1>2, <2>2
  <2> HIDE DEF fought
  <2> QED BY <2>1, <2>2, <2>3
<1>6. wins \in [Seat -> Nat]
  BY <1>3
<1>7. \A s \in Seat : wins[s] = Cardinality({ i \in DOMAIN fought : fought[i].winner = s })
  <2> TAKE s \in Seat
  <2>1. standing[s] = Cardinality({ i \in DOMAIN played : played[i].winner = s })
    BY DEF IInv, VerdictIsTheScore
  <2>2. b.winner = o.winner
    OBVIOUS
  <2>3. wins[s] = standing[s] + IF s = b.winner THEN 1 ELSE 0
    BY <2>2
  <2> QED BY <1>3, <1>4, <2>1, <2>3, OneMoreBattle
<1>8. played' = fought /\ standing' = wins
  BY DEF Close
<1> HIDE DEF b, fought, wins
<1>9. ~SeriesOver(fought, wins) =>
        Len(fought) < Battles /\ \A s \in Seat : wins[s] <= Battles \div 2
  BY <1>5, <1>6, <1>2, Halves DEF SeriesOver
<1>10. CASE /\ SeriesOver(fought, wins)
            /\ result' = [verdict |-> IF Leader(wins) = "none" THEN "drawn" ELSE "won",
                          winner |-> Leader(wins), departed |-> "none"]
            /\ fight' = FALSE /\ asked' = "none" /\ turns' = o.turns
            /\ sent' = told /\ watched' = record
            /\ UNCHANGED <<seated, index, home, draftCursor, drafting>>
  <2>1. /\ Leader(wins) # "none" =>
             /\ Leader(wins) \in Seat
             /\ wins[Leader(wins)] > wins[Other(Leader(wins))]
             /\ Len(fought) = Battles \/ wins[Leader(wins)] > Battles \div 2
        /\ Leader(wins) = "none" => wins["host"] = wins["guest"] /\ Len(fought) = Battles
    <3>1. Len(played) + 1 >= Battles \/ \E s \in Seat : wins[s] > Battles \div 2
      BY <1>5, <1>10 DEF SeriesOver
    <3>2. \A s \in Seat : wins[s] = standing[s] + IF s = o.winner THEN 1 ELSE 0
      BY DEF wins
    <3>3. Len(fought) = Len(played) + 1
      BY <1>5
    <3>5. Len(played) \in Nat /\ Len(played) < Battles
      BY <1>2
    <3>6. \A s \in Seat : standing[s] <= Battles \div 2
      BY <1>2
    <3>7. standing \in [Seat -> Nat]
      BY <1>3
    <3>4. /\ Leader(wins) # "none" =>
               /\ Leader(wins) \in Seat
               /\ wins[Leader(wins)] > wins[Other(Leader(wins))]
               /\ Len(played) + 1 = Battles \/ wins[Leader(wins)] > Battles \div 2
          /\ Leader(wins) = "none" =>
               wins["host"] = wins["guest"] /\ Len(played) + 1 = Battles
      BY <1>6, <3>1, <3>2, <3>5, <3>6, <3>7, CloseVerdict, Zenon
    <3> QED BY <3>3, <3>4
  <2>2. Leader(wins) \in Seat \cup {"none"}
    BY <2>1
  <2>3. /\ result'.verdict = (IF Leader(wins) = "none" THEN "drawn" ELSE "won")
        /\ result'.winner = Leader(wins)
    BY <1>10
  <2>4. TypeOK'
    <3>1. result' \in [verdict : {"unfinished", "won", "drawn", "abandoned"},
                       winner : Seat \cup {"none"}, departed : Seat \cup {"none"}]
      BY <1>10, <2>2
    <3> QED BY <1>3, <1>5, <1>6, <1>8, <1>10, <3>1 DEF TypeOK, IInv
  <2>5. Fights'
    BY <1>1, <1>10, <2>3 DEF Fights, Finished, BothTaken
  <2>6. Indexed'
    BY <2>3 DEF Indexed, Finished
  <2>7. VerdictIsTheScore'
    BY <1>7, <1>8, <2>1, <2>3 DEF VerdictIsTheScore
  <2>8. RecordTyped' /\ Fielded'
    BY <1>10 DEF IInv, RecordTyped, Fielded, drafting
  <2> QED BY <2>4, <2>5, <2>6, <2>7, <2>8 DEF IInv
<1>11. CASE /\ ~SeriesOver(fought, wins) /\ Drafts /\ D!Renew /\ draftCursor' = 0
            /\ seated' = [s \in Seat |-> [seated[s] EXCEPT !.squad = "none"]]
            /\ fight' = FALSE /\ asked' = "none" /\ turns' = o.turns
            /\ sent' = told /\ watched' = record
            /\ UNCHANGED <<result, index, home>>
  <2>1. /\ seated' \in [Seat -> [taken : BOOLEAN, token : Nat, squad : {"none", "ready"}]]
        /\ \A s \in Seat : seated'[s].taken = seated[s].taken
    BY <1>3, <1>11
  <2>2. BothTaken'
    BY <1>1, <2>1 DEF BothTaken
  <2>3. RecordTyped' /\ ~D!Done' /\ ~D!Cancelled'
    BY <1>11, Renewed
  <2>4. TypeOK'
    BY <1>3, <1>5, <1>6, <1>8, <1>11, <2>1 DEF TypeOK, IInv
  <2>5. Fights'
    BY <1>1, <1>11, <2>2, <2>3 DEF Fights, Finished
  <2>6. Indexed'
    BY <1>1, <1>5, <1>8, <1>11 DEF Indexed, Finished
  <2>7. VerdictIsTheScore'
    BY <1>2, <1>7, <1>8, <1>9, <1>11 DEF VerdictIsTheScore
  <2>8. Fielded'
    BY <1>11 DEF Fielded
  <2> QED BY <2>3, <2>4, <2>5, <2>6, <2>7, <2>8 DEF IInv
<1>12. CASE /\ ~SeriesOver(fought, wins) /\ ~Drafts
            /\ Begin(index + 1, told, record)
            /\ UNCHANGED <<seated, result, draftCursor, drafting>>
  <2>1. index + 1 \in Nat /\ index + 1 \in 0..Battles /\ index + 1 = Len(fought) + 1
    <3>1. Len(fought) < Battles
      BY <1>9, <1>12
    <3>2. index = Len(fought) /\ index \in Nat
      BY <1>1, <1>2, <1>5
    <3> QED BY <3>1, <3>2, RoomAssumption
  <2>2. /\ fight' = TRUE /\ index' = index + 1
        /\ home' \in Seat /\ asked' \in Seat /\ turns' \in Nat
        /\ sent' \in [Seat -> Seq(Body)] /\ watched' \in Seq(Body)
    BY <1>12, <2>1, BeginOpens
  <2>3. TypeOK'
    BY <1>3, <1>5, <1>6, <1>8, <1>12, <2>1, <2>2 DEF TypeOK, IInv
  <2>4. Fights'
    BY <1>1, <1>12, <2>2, Seats DEF Fights, Finished, BothTaken
  <2>5. Indexed'
    BY <1>8, <2>1, <2>2 DEF Indexed
  <2>6. VerdictIsTheScore'
    BY <1>2, <1>7, <1>8, <1>9, <1>12 DEF VerdictIsTheScore
  <2>7. RecordTyped' /\ Fielded'
    BY <1>12 DEF IInv, RecordTyped, Fielded, drafting
  <2> QED BY <2>3, <2>4, <2>5, <2>6, <2>7 DEF IInv
<1> QED BY <1>10, <1>11, <1>12 DEF Close, fought, wins, b

\* So does a turn that is answered or passed.
LEMMA ResolvedKeeps ==
  ASSUME IInv, NEW seat \in Seat, asked = seat, Resolved, UNCHANGED minted
  PROVE IInv'
<1> DEFINE told == Told(TurnBody(index))
           record == Append(watched, TurnBody(index))
<1>1. fight /\ ~Finished /\ BothTaken
  BY Seats DEF IInv, Fights
<1>2. TurnBody(index) \in Body
  BY Bodies, RoomAssumption DEF IInv, TypeOK
<1>3. told \in [Seat -> Seq(Body)]
  BY <1>2, ToldIsTyped DEF IInv
<1>4. record \in Seq(Body)
  BY <1>2 DEF IInv, TypeOK
<1>5. PICK o \in Settlings(turns) :
        \/ /\ o.asked # "none"
           /\ turns' = o.turns
           /\ asked' = o.asked
           /\ sent' = told
           /\ watched' = record
           /\ UNCHANGED <<seated, played, standing, result, fight, index, home,
                          draftCursor, drafting>>
        \/ /\ o.asked = "none"
           /\ Close(o, told, record)
  BY DEF Resolved
<1>6. /\ o.turns \in Nat /\ o.asked \in Seat \cup {"none"}
      /\ o.winner \in Seat \cup {"none"} /\ o.capped \in BOOLEAN
  BY SettlingsType DEF IInv, TypeOK
<1> HIDE DEF told, record
<1>7. CASE Close(o, told, record)
  BY <1>1, <1>3, <1>4, <1>6, <1>7, CloseKeeps
<1>8. CASE /\ o.asked # "none" /\ turns' = o.turns /\ asked' = o.asked
           /\ sent' = told /\ watched' = record
           /\ UNCHANGED <<seated, played, standing, result, fight, index, home,
                          draftCursor, drafting>>
  <2>1. TypeOK'
    BY <1>3, <1>4, <1>6, <1>8 DEF IInv, TypeOK
  <2>2. D!Done' = D!Done
    BY <1>8 DEF drafting, D!Done, D!Picked, D!Cancelled, D!ArrangedBoth, D!HasArranged
  <2>3. Fights'
    BY <1>1, <1>8, <2>2 DEF IInv, Fights, Finished, BothTaken
  <2>4. Indexed' /\ VerdictIsTheScore' /\ RecordTyped' /\ Fielded'
    BY <1>8 DEF IInv, Indexed, Finished, VerdictIsTheScore, RecordTyped, Fielded, drafting
  <2> QED BY <2>1, <2>3, <2>4 DEF IInv
<1> QED BY <1>5, <1>7, <1>8

\* A seat is one of two, so a room with one seat free has both taken after it.
LEMMA LastSeat ==
  ASSUME FreeSeats # {}
  PROVE /\ FreeSeat \in FreeSeats /\ ~BothTaken
        /\ Cardinality(FreeSeats) = 1 => \A s \in Seat : s # FreeSeat => seated[s].taken
        /\ Cardinality(FreeSeats) # 1 => \A s \in Seat : ~seated[s].taken
<1>1. FreeSeat \in FreeSeats /\ ~BothTaken
  BY Seats DEF FreeSeat, FreeSeats, BothTaken
<1>2. CASE \A s \in Seat : ~seated[s].taken
  <2>1. FreeSeats = {"host", "guest"}
    BY <1>2, Seats DEF FreeSeats
  <2>2. Cardinality({"host", "guest"}) = 2
    <3>1. IsFiniteSet({"host"}) /\ Cardinality({"host"}) = 1
      BY FS_Singleton
    <3>2. Cardinality({"host"} \cup {"guest"}) = 1 + 1
      BY <3>1, FS_AddElement
    <3>3. {"host"} \cup {"guest"} = {"host", "guest"}
      OBVIOUS
    <3> QED BY <3>2, <3>3
  <2> QED BY <1>1, <1>2, <2>1, <2>2
<1>3. CASE \E s \in Seat : seated[s].taken
  <2>1. FreeSeats = {FreeSeat}
    BY <1>1, <1>3, Seats DEF FreeSeats
  <2>2. Cardinality(FreeSeats) = 1
    BY <2>1, FS_Singleton
  <2> QED BY <1>1, <2>1, <2>2 DEF FreeSeats
<1> QED BY <1>2, <1>3

\* A player who is seated keeps the invariant, the second one opening the match.
LEMMA JoinKeeps ==
  ASSUME IInv, NEW hello, Join(hello)
  PROVE IInv'
<1>1. FreeSeats # {}
  BY DEF Join, Gate
<1>2. /\ FreeSeat \in FreeSeats /\ ~BothTaken
      /\ Cardinality(FreeSeats) = 1 => \A s \in Seat : s # FreeSeat => seated[s].taken
      /\ Cardinality(FreeSeats) # 1 => \A s \in Seat : ~seated[s].taken
  BY <1>1, LastSeat
<1>3. ~fight /\ ~Finished /\ played = <<>> /\ index = 0 /\ asked = "none"
  BY <1>2, Gathering
<1>4. /\ minted' \in 0..MaxTokens
      /\ UNCHANGED <<played, standing, result, draftCursor, drafting>>
  <2>1. /\ minted < MaxTokens /\ minted' = minted + 1
        /\ UNCHANGED <<played, standing, result, draftCursor, drafting>>
    BY DEF Join
  <2>2. minted' \in 0..MaxTokens
    BY <2>1, RoomAssumption DEF IInv, TypeOK
  <2> QED BY <2>1, <2>2
<1>5. /\ seated' \in [Seat -> [taken : BOOLEAN, token : Nat, squad : {"none", "ready"}]]
      /\ seated'[FreeSeat].taken
      /\ seated'[FreeSeat].squad = IF Drafts THEN "none" ELSE "ready"
      /\ \A s \in Seat : s # FreeSeat => seated'[s] = seated[s]
  <2> DEFINE seat == [taken |-> TRUE, token |-> IF IssuesTokens THEN minted + 1 ELSE 0,
                      squad |-> IF Drafts THEN "none" ELSE "ready"]
  <2>1. seated' = [seated EXCEPT ![FreeSeat] = seat]
    BY DEF Join
  <2>2. minted + 1 \in Nat
    BY RoomAssumption DEF IInv, TypeOK
  <2>3. seat \in [taken : BOOLEAN, token : Nat, squad : {"none", "ready"}]
    BY <2>2
  <2>4. FreeSeat \in Seat
    BY <1>2 DEF FreeSeats
  <2> QED BY <2>1, <2>3, <2>4 DEF IInv, TypeOK
<1>6. RecordTyped' /\ D!Done' = D!Done /\ D!Cancelled' = D!Cancelled
  BY <1>4 DEF IInv, RecordTyped, drafting, D!Done, D!Picked, D!Cancelled, D!ArrangedBoth,
              D!HasArranged
<1>7. VerdictIsTheScore'
  BY <1>4 DEF IInv, VerdictIsTheScore
<1>8. ~Finished'
  BY <1>3, <1>4 DEF Finished
<1>9. CASE Cardinality(FreeSeats) = 1 /\ ~Drafts
  <2>1. Begin(1, sent, watched)
    BY <1>9 DEF Join
  <2>2. 1 \in Nat /\ sent \in [Seat -> Seq(Body)] /\ watched \in Seq(Body)
    BY DEF IInv, TypeOK
  <2>3. /\ fight' = TRUE /\ index' = 1
        /\ home' \in Seat /\ asked' \in Seat /\ turns' \in Nat
        /\ sent' \in [Seat -> Seq(Body)] /\ watched' \in Seq(Body)
    <3>1. \E i \in Nat, told \in [Seat -> Seq(Body)], record \in Seq(Body) :
            i = 1 /\ Begin(i, told, record)
      <4> USE <2>2
      <4> WITNESS 1 \in Nat, sent \in [Seat -> Seq(Body)], watched \in Seq(Body)
      <4> QED BY <2>1
    <3> QED BY <3>1, BeginOpens
  <2>4. TypeOK'
    <3>1. index' \in 0..Battles
      BY <2>3, RoomAssumption
    <3>2. result' = result /\ played' = played /\ standing' = standing /\ draftCursor' = draftCursor
      BY <1>4
    <3>3. /\ played \in Seq(BattleResult) /\ standing \in [Seat -> Nat] /\ draftCursor \in Nat
          /\ result \in [verdict : {"unfinished", "won", "drawn", "abandoned"},
                         winner : Seat \cup {"none"}, departed : Seat \cup {"none"}]
      BY DEF IInv, TypeOK
    <3> QED BY <1>4, <1>5, <2>3, <3>1, <3>2, <3>3 DEF TypeOK
  <2>5. BothTaken'
    BY <1>2, <1>5, <1>9 DEF BothTaken
  <2>6. \A s \in Seat : seated'[s].squad = "ready"
    <3>1. \A s \in Seat : s # FreeSeat => seated[s].squad = "ready"
      BY <1>2, <1>9 DEF IInv, Fielded
    <3> QED BY <1>5, <1>9, <3>1
  <2>7. Fights'
    BY <1>8, <1>9, <2>3, <2>5, <2>6, Seats DEF Fights
  <2>8. Indexed'
    BY <1>3, <1>4, <2>3 DEF Indexed
  <2>9. Fielded'
    BY <1>9, <2>6 DEF Fielded
  <2> QED BY <1>6, <1>7, <2>4, <2>7, <2>8, <2>9 DEF IInv
<1>10. CASE ~(Cardinality(FreeSeats) = 1 /\ ~Drafts)
  <2>1. UNCHANGED <<fight, index, home, turns, asked, sent, watched>>
    BY <1>10 DEF Join
  <2>2. TypeOK'
    BY <1>4, <1>5, <2>1 DEF IInv, TypeOK
  <2>3. ~Drafts => ~BothTaken'
    <3>1. SUFFICES ASSUME ~Drafts PROVE ~BothTaken'
      OBVIOUS
    <3>2. \A s \in Seat : ~seated[s].taken
      BY <1>2, <1>10, <3>1
    <3>3. Other(FreeSeat) \in Seat /\ Other(FreeSeat) # FreeSeat
      BY <1>2, Seats DEF FreeSeats
    <3> QED BY <1>5, <3>2, <3>3 DEF BothTaken
  <2>4. Fights'
    BY <1>3, <1>4, <1>6, <1>8, <2>1, <2>3 DEF IInv, Fights
  <2>5. Indexed'
    BY <1>3, <1>4, <2>1 DEF Indexed
  <2>6. Fielded'
    BY <1>5 DEF IInv, Fielded
  <2> QED BY <1>6, <1>7, <2>2, <2>4, <2>5, <2>6 DEF IInv
<1> QED BY <1>9, <1>10

\* A draft decision keeps it, the last one opening a battle.
LEMMA DecideKeeps ==
  ASSUME IInv, NEW seat \in Seat, NEW decision \in Decisions(seat), Decide(seat, decision)
  PROVE IInv'
<1> DEFINE told == IF Len(entries') > draftCursor
                   THEN Told(DraftedBody(Len(entries') - draftCursor)) ELSE sent
<1>1. /\ DraftOpen /\ D!Apply(decision) /\ draftCursor' = Len(entries')
      /\ UNCHANGED <<played, standing, result, minted>>
      /\ \/ /\ D!Done'
            /\ seated' = [s \in Seat |-> [seated[s] EXCEPT !.squad = "ready"]]
            /\ Begin(index + 1, told, watched)
         \/ /\ ~D!Done'
            /\ sent' = told
            /\ UNCHANGED <<seated, fight, index, home, turns, asked, watched>>
  BY DEF Decide
<1>2. Drafts /\ BothTaken /\ ~Finished /\ ~D!Done /\ ~D!Cancelled
  BY <1>1 DEF DraftOpen
<1>3. ~fight /\ asked = "none" /\ index = Len(played)
  BY <1>2 DEF IInv, Fights, Indexed
<1>4. RecordTyped' /\ abandoned' = abandoned
  BY <1>1, ApplyRecords DEF IInv
<1>5. Len(entries') \in Nat /\ draftCursor \in Nat
  BY <1>4 DEF RecordTyped, IInv, TypeOK
<1>6. told \in [Seat -> Seq(Body)]
  <2>1. CASE Len(entries') > draftCursor
    <3>1. Len(entries') - draftCursor \in Nat
      BY <1>5, <2>1
    <3>2. DraftedBody(Len(entries') - draftCursor) \in Body
      BY <3>1, Bodies
    <3>3. Told(DraftedBody(Len(entries') - draftCursor)) \in [Seat -> Seq(Body)]
      BY <3>2 DEF Told, IInv, TypeOK
    <3> QED BY <2>1, <3>3
  <2>2. CASE ~(Len(entries') > draftCursor)
    BY <2>2 DEF IInv, TypeOK
  <2> QED BY <2>1, <2>2
<1>7. ~Finished' /\ VerdictIsTheScore' /\ ~D!Cancelled' /\ Fielded'
  BY <1>1, <1>2, <1>4 DEF Finished, IInv, VerdictIsTheScore, D!Cancelled, Fielded
<1>8. CASE /\ D!Done'
           /\ seated' = [s \in Seat |-> [seated[s] EXCEPT !.squad = "ready"]]
           /\ Begin(index + 1, told, watched)
  <2>1. index + 1 \in Nat /\ index + 1 \in 0..Battles
    BY <1>2, <1>3, Unfinished, RoomAssumption
  <2>2. /\ fight' = TRUE /\ index' = index + 1
        /\ home' \in Seat /\ asked' \in Seat /\ turns' \in Nat
        /\ sent' \in [Seat -> Seq(Body)] /\ watched' \in Seq(Body)
    <3>1. watched \in Seq(Body)
      BY DEF IInv, TypeOK
    <3> HIDE DEF told
    <3>2. \E i \in Nat, t \in [Seat -> Seq(Body)], r \in Seq(Body) :
            i = index + 1 /\ Begin(i, t, r)
      BY <1>6, <1>8, <2>1, <3>1 DEF Begin
    <3> QED BY <3>2, BeginOpens
  <2>3. /\ seated' \in [Seat -> [taken : BOOLEAN, token : Nat, squad : {"none", "ready"}]]
        /\ \A s \in Seat : seated'[s].taken = seated[s].taken
        /\ \A s \in Seat : seated'[s].squad = "ready"
    BY <1>8 DEF IInv, TypeOK
  <2>4. BothTaken'
    BY <1>2, <2>3 DEF BothTaken
  <2>5. TypeOK'
    BY <1>1, <1>5, <2>1, <2>2, <2>3 DEF IInv, TypeOK
  <2>6. Fights'
    BY <1>7, <1>8, <2>2, <2>3, <2>4, Seats DEF Fights
  <2>7. Indexed'
    BY <1>1, <1>3, <2>2 DEF Indexed
  <2> QED BY <1>4, <1>7, <2>5, <2>6, <2>7 DEF IInv
<1>9. CASE /\ ~D!Done'
           /\ sent' = told
           /\ UNCHANGED <<seated, fight, index, home, turns, asked, watched>>
  <2>1. TypeOK'
    BY <1>1, <1>5, <1>6, <1>9 DEF IInv, TypeOK
  <2>2. Fights'
    BY <1>2, <1>3, <1>7, <1>9 DEF Fights, BothTaken
  <2>3. Indexed'
    BY <1>1, <1>3, <1>9 DEF Indexed
  <2> QED BY <1>4, <1>7, <2>1, <2>2, <2>3 DEF IInv
<1> QED BY <1>1, <1>8, <1>9

\* An abandoned match keeps the score it had.
LEMMA AbandonedVerdict ==
  ASSUME IInv, ~Finished, UNCHANGED <<played, standing>>, result'.verdict = "abandoned"
  PROVE VerdictIsTheScore' /\ Finished' /\ Indexed'
<1>1. /\ Len(played) < Battles
      /\ \A s \in Seat : standing[s] <= Battles \div 2
  BY Unfinished
<1> QED BY <1>1 DEF IInv, VerdictIsTheScore, Finished, Indexed

\* A draft that ran out of time keeps it, being over.
LEMMA DraftTimedOutKeeps ==
  ASSUME IInv, NEW seat \in Seat, DraftTimedOut(seat)
  PROVE IInv'
<1>1. Drafts /\ BothTaken /\ ~Finished /\ ~D!Done /\ ~D!Cancelled
  BY DEF DraftTimedOut, DraftOpen
<1>2. ~fight /\ asked = "none"
  BY <1>1 DEF IInv, Fights
<1>3. /\ result' = [verdict |-> "abandoned", winner |-> "none", departed |-> "none"]
      /\ sent' = Told(ClosedBody)
      /\ UNCHANGED <<seated, played, standing, fight, index, home, turns, asked, minted,
                     watched, draftCursor>>
      /\ D!TimedOut(seat)
  BY DEF DraftTimedOut
<1>4. sent' \in [Seat -> Seq(Body)]
  <2>1. ClosedBody \in Body
    BY DEF ClosedBody, Body
  <2> QED BY <1>3, <2>1, ToldIsTyped DEF IInv
<1>5. TypeOK'
  BY <1>3, <1>4 DEF IInv, TypeOK
<1>6. VerdictIsTheScore' /\ Finished' /\ Indexed'
  BY <1>1, <1>3, AbandonedVerdict
<1>7. Fights'
  BY <1>1, <1>2, <1>3, <1>6 DEF Fights, BothTaken
<1>8. RecordTyped'
  <2>1. /\ arranged' = [s \in D!Seat |-> <<>>]
        /\ entries' = Append(entries, D!Entry(seat, "timeout", Nobody))
    BY <1>3 DEF D!TimedOut
  <2>2. D!Entry(seat, "timeout", Nobody) \in D!EntryRecord
    BY DEF D!Entry, D!EntryRecord, Seat
  <2> QED BY <2>1, <2>2 DEF IInv, RecordTyped, Seat
<1>9. Fielded'
  BY <1>3 DEF IInv, Fielded
<1> QED BY <1>5, <1>6, <1>7, <1>8, <1>9 DEF IInv

\* A departure keeps it, before the match and in it.
LEMMA LeftKeeps ==
  ASSUME IInv, NEW seat \in Seat, Left(seat)
  PROVE IInv'
<1>1. /\ seated[seat].taken /\ ~Finished
      /\ UNCHANGED <<played, standing, index, home, turns, minted, draftCursor, drafting>>
  BY DEF Left
<1>2. RecordTyped' /\ D!Done' = D!Done /\ D!Cancelled' = D!Cancelled
  BY <1>1 DEF IInv, RecordTyped, drafting, D!Done, D!Picked, D!Cancelled, D!ArrangedBoth,
              D!HasArranged
<1>3. CASE /\ ~DraftOpen /\ ~fight /\ played = <<>>
           /\ seated' = [seated EXCEPT ![seat] = Empty]
           /\ UNCHANGED <<result, fight, asked, sent, watched>>
  <2>1. Empty \in [taken : BOOLEAN, token : Nat, squad : {"none", "ready"}] /\ ~Empty.taken
    BY DEF Empty
  <2>2. /\ seated' \in [Seat -> [taken : BOOLEAN, token : Nat, squad : {"none", "ready"}]]
        /\ ~seated'[seat].taken
        /\ \A s \in Seat : s # seat => seated'[s] = seated[s]
    BY <1>3, <2>1 DEF IInv, TypeOK
  <2>3. TypeOK'
    BY <1>1, <1>3, <2>2 DEF IInv, TypeOK
  <2>4. ~Finished' /\ ~BothTaken'
    BY <1>1, <1>3, <2>2 DEF Finished, BothTaken
  <2>5. Fights'
    BY <1>1, <1>2, <1>3, <2>4 DEF IInv, Fights
  <2>6. Indexed' /\ VerdictIsTheScore'
    BY <1>1, <1>3 DEF IInv, Indexed, Finished, VerdictIsTheScore
  <2>7. Fielded'
    BY <2>2 DEF IInv, Fielded
  <2> QED BY <1>2, <2>3, <2>5, <2>6, <2>7 DEF IInv
<1>4. CASE /\ DraftOpen \/ fight \/ played # <<>>
           /\ result' = [verdict |-> "abandoned", winner |-> "none", departed |-> seat]
           /\ fight' = FALSE
           /\ asked' = "none"
           /\ sent' = [sent EXCEPT ![Other(seat)] = Append(@, ClosedBody)]
           /\ watched' = Append(watched, ClosedBody)
           /\ UNCHANGED seated
  <2>1. BothTaken
    BY <1>4 DEF DraftOpen, IInv, Fights
  <2>2. ClosedBody \in Body
    BY DEF ClosedBody, Body
  <2>3. sent' \in [Seat -> Seq(Body)] /\ watched' \in Seq(Body)
    BY <1>4, <2>2, Seats DEF IInv, TypeOK
  <2>4. TypeOK'
    BY <1>1, <1>4, <2>3 DEF IInv, TypeOK
  <2>5. VerdictIsTheScore' /\ Finished' /\ Indexed'
    BY <1>1, <1>4, AbandonedVerdict
  <2>6. Fights'
    BY <1>4, <2>1, <2>5 DEF Fights, BothTaken
  <2>7. Fielded'
    BY <1>4 DEF IInv, Fielded
  <2> QED BY <1>2, <2>4, <2>5, <2>6, <2>7 DEF IInv
<1> QED BY <1>3, <1>4 DEF Left

\* A new room satisfies the invariant.
LEMMA Initially ==
  ASSUME Init
  PROVE IInv
<1>1. /\ played = <<>> /\ index = 0 /\ ~fight /\ asked = "none" /\ home = "none"
      /\ result = [verdict |-> "unfinished", winner |-> "none", departed |-> "none"]
      /\ standing = [s \in Seat |-> 0] /\ seated = [s \in Seat |-> Empty]
      /\ watched = <<>> /\ sent = [s \in Seat |-> <<>>] /\ turns = 0 /\ draftCursor = 0
      /\ minted = 0 /\ fight = FALSE
  BY DEF Init
<1>2. /\ arranged = [s \in D!Seat |-> <<>>] /\ abandoned = "none" /\ entries = <<>>
  BY DEF Init, D!Init
<1>3. Empty \in [taken : BOOLEAN, token : Nat, squad : {"none", "ready"}] /\ ~Empty.taken
  BY DEF Empty
<1>4. TypeOK
  <2>1. index \in 0..Battles /\ minted \in 0..MaxTokens
    BY <1>1, RoomAssumption
  <2>2. seated \in [Seat -> [taken : BOOLEAN, token : Nat, squad : {"none", "ready"}]]
    BY <1>1, <1>3
  <2>3. result \in [verdict : {"unfinished", "won", "drawn", "abandoned"},
                    winner : Seat \cup {"none"}, departed : Seat \cup {"none"}]
    BY <1>1
  <2>4. /\ played \in Seq(BattleResult) /\ watched \in Seq(Body)
        /\ standing \in [Seat -> Nat] /\ sent \in [Seat -> Seq(Body)]
    <3>1. <<>> \in Seq(BattleResult) /\ <<>> \in Seq(Body)
      OBVIOUS
    <3> QED BY <1>1, <3>1
  <2>5. turns \in Nat /\ draftCursor \in Nat /\ fight \in BOOLEAN
    BY <1>1
  <2>6. home \in Seat \cup {"none"} /\ asked \in Seat \cup {"none"}
    BY <1>1
  <2> QED BY <2>1, <2>2, <2>3, <2>4, <2>5, <2>6 DEF TypeOK
<1>5. ~BothTaken /\ ~Finished
  BY <1>1, <1>3, Seats DEF BothTaken, Finished
<1>6. ~D!Done /\ ~D!Cancelled
  BY <1>2, Seats DEF D!Done, D!ArrangedBoth, D!HasArranged, D!Cancelled, Seat
<1>7. Fights
  BY <1>1, <1>5, <1>6 DEF Fights
<1>8. Indexed /\ Fielded /\ RecordTyped
  BY <1>1, <1>2, <1>3 DEF Indexed, Fielded, RecordTyped, Seat
<1>9. VerdictIsTheScore
  <2>1. \A s \in Seat : { i \in DOMAIN played : played[i].winner = s } = {}
    BY <1>1
  <2>2. \A s \in Seat : standing[s] = 0
    BY <1>1
  <2>3. Cardinality({}) = 0
    BY FS_EmptySet
  <2>4. Len(played) < Battles /\ \A s \in Seat : standing[s] <= Battles \div 2
    BY <1>1, <2>2, RoomAssumption, Halves
  <2> QED BY <1>1, <2>1, <2>2, <2>3, <2>4 DEF VerdictIsTheScore
<1> QED BY <1>4, <1>7, <1>8, <1>9 DEF IInv

\* The invariant is inductive.
LEMMA StepKeeps ==
  ASSUME IInv, [Next]_vars
  PROVE IInv'
<1>1. CASE \E hello \in Hellos : Join(hello)
  BY <1>1, JoinKeeps
<1>2. ASSUME NEW seat \in Seat, Answer(seat) PROVE IInv'
  BY <1>2, ResolvedKeeps DEF Answer
<1>3. ASSUME NEW seat \in Seat, NEW decision \in Decisions(seat), Decide(seat, decision)
      PROVE IInv'
  BY <1>3, DecideKeeps
<1>4. ASSUME NEW seat \in Seat, DraftTimedOut(seat) PROVE IInv'
  BY <1>4, DraftTimedOutKeeps
<1>5. ASSUME NEW seat \in Seat, TurnTimedOut(seat) PROVE IInv'
  BY <1>5, ResolvedKeeps DEF TurnTimedOut
<1>6. ASSUME NEW seat \in Seat, Left(seat) PROVE IInv'
  BY <1>6, LeftKeeps
<1>7. CASE UNCHANGED vars
  <2>1. UNCHANGED match /\ UNCHANGED logs /\ UNCHANGED drafting
    BY <1>7 DEF vars
  <2>2. TypeOK'
    BY <2>1 DEF match, logs, IInv, TypeOK
  <2>3. VerdictIsTheScore'
    BY <2>1 DEF match, IInv, VerdictIsTheScore
  <2>4. Indexed' /\ Fielded' /\ RecordTyped'
    BY <2>1 DEF match, drafting, IInv, Indexed, Finished, Fielded, RecordTyped
  <2>5. D!Done' = D!Done /\ D!Cancelled' = D!Cancelled
    BY <2>1 DEF drafting, D!Done, D!Picked, D!Cancelled, D!ArrangedBoth, D!HasArranged
  <2>6. Fights'
    BY <2>1, <2>5 DEF match, IInv, Fights, Finished, BothTaken
  <2> QED BY <2>2, <2>3, <2>4, <2>6 DEF IInv
<1> QED BY <1>1, <1>2, <1>3, <1>4, <1>5, <1>6, <1>7 DEF Next

\* In every room, whatever the series, the cap and the draft, what IInv says of a
\* room (Room's fields between two inputs) stays true.
THEOREM Inductive == Spec => []IInv
<1>1. Init => IInv
  BY Initially
<1>2. IInv /\ [Next]_vars => IInv'
  BY StepKeeps
<1> QED BY <1>1, <1>2, PTL DEF Spec

\* Every variable of a room keeps a value of its own kind, whatever the series,
\* the turn cap and the pool.
THEOREM TypeInvariant == Spec => []TypeOK
<1>1. IInv => TypeOK
  BY DEF IInv
<1> QED BY <1>1, Inductive, PTL

\* A room with both seats taken is waiting on somebody until it is finished:
\* Room.Awaiting, which is all the transport runs a clock by, is never empty then.
THEOREM NeverStuckInvariant == Spec => []NeverStuck
<1>1. ASSUME IInv PROVE NeverStuck
  <2>1. CASE DraftOpen
    <3>1. ~D!Done /\ ~D!Cancelled /\ BothTaken /\ ~Finished
      BY <2>1 DEF DraftOpen
    <3> QED BY <2>1, <3>1, DraftAsks DEF NeverStuck, Awaiting
  <2>2. CASE ~DraftOpen
    <3>1. asked # "none" <=> BothTaken /\ ~Finished
      BY <1>1, <2>2 DEF IInv, Fights, DraftOpen
    <3> QED BY <2>2, <3>1 DEF NeverStuck, Awaiting
  <2> QED BY <2>1, <2>2
<1> QED BY <1>1, Inductive, PTL

\* One question at a time: a battle's prompt is never open while the draft asks,
\* after the end, or before both squads are in.
THEOREM OneQuestionInvariant == Spec => []OneQuestion
<1>1. ASSUME IInv PROVE OneQuestion
  BY <1>1 DEF IInv, Fights, OneQuestion, DraftOpen, BothTaken
<1> QED BY <1>1, Inductive, PTL

\* The verdict Room.close and Room.Left write is the score's.
THEOREM VerdictInvariant == Spec => []VerdictIsTheScore
<1>1. IInv => VerdictIsTheScore
  BY DEF IInv
<1> QED BY <1>1, Inductive, PTL

-----------------------------------------------------------------------------
(* What a step may do. *)

\* A decision that ends a battle leaves the seats as they were and opens at most
\* the next battle of a series that is not decided.
LEMMA ResolvedGoesOn ==
  ASSUME IInv, NEW seat \in Seat, asked = seat, Resolved
  PROVE /\ ~Finished
        /\ \A s \in Seat : /\ seated'[s].taken = seated[s].taken
                          /\ seated'[s].token = seated[s].token
        /\ index' # index => index' = index + 1 /\ ~SeriesOver(played', standing')
<1>1. ~Finished
  BY Seats DEF IInv, Fights
<1>2. PICK o \in Settlings(turns) :
        \/ UNCHANGED <<seated, index>>
        \/ Close(o, Told(TurnBody(index)), Append(watched, TurnBody(index)))
  BY DEF Resolved
<1>3. CASE UNCHANGED <<seated, index>>
  BY <1>1, <1>3
<1>4. CASE Close(o, Told(TurnBody(index)), Append(watched, TurnBody(index)))
  <2>1. \/ UNCHANGED <<seated, index>>
        \/ /\ seated' = [s \in Seat |-> [seated[s] EXCEPT !.squad = "none"]]
           /\ UNCHANGED index
        \/ /\ UNCHANGED seated
           /\ ~SeriesOver(played', standing')
           /\ index' = index + 1
    BY <1>4 DEF Close, Begin
  <2>2. seated \in [Seat -> [taken : BOOLEAN, token : Nat, squad : {"none", "ready"}]]
    BY DEF IInv, TypeOK
  <2> QED BY <1>1, <2>1, <2>2
<1> QED BY <1>2, <1>3, <1>4

\* From the moment both seats are taken nobody sits down and nobody gets up,
\* whatever Room.Join, Room.Left and Room.redraft do after it.
THEOREM HoldersKept == Spec => SeatsKeepTheirHolders
<1> DEFINE Kept == BothTaken => \A s \in Seat :
                     seated'[s].taken = seated[s].taken /\ seated'[s].token = seated[s].token
<1>1. ASSUME IInv, [Next]_vars PROVE [Kept]_vars
  <2>1. SUFFICES ASSUME Next, BothTaken
                 PROVE \A s \in Seat : /\ seated'[s].taken = seated[s].taken
                                     /\ seated'[s].token = seated[s].token
    BY <1>1
  <2>2. seated \in [Seat -> [taken : BOOLEAN, token : Nat, squad : {"none", "ready"}]]
    BY <1>1 DEF IInv, TypeOK
  <2>3. ASSUME NEW hello, Join(hello) PROVE FALSE
    <3>1. FreeSeats # {}
      BY <2>3 DEF Join, Gate
    <3> QED BY <2>1, <3>1, LastSeat
  <2>4. ASSUME NEW seat \in Seat, Answer(seat)
        PROVE \A s \in Seat : /\ seated'[s].taken = seated[s].taken
                            /\ seated'[s].token = seated[s].token
    BY <1>1, <2>4, ResolvedGoesOn DEF Answer
  <2>5. ASSUME NEW seat \in Seat, TurnTimedOut(seat)
        PROVE \A s \in Seat : /\ seated'[s].taken = seated[s].taken
                            /\ seated'[s].token = seated[s].token
    BY <1>1, <2>5, ResolvedGoesOn DEF TurnTimedOut
  <2>6. ASSUME NEW seat \in Seat, NEW decision, Decide(seat, decision)
        PROVE \A s \in Seat : /\ seated'[s].taken = seated[s].taken
                            /\ seated'[s].token = seated[s].token
    <3>1. \/ seated' = [s \in Seat |-> [seated[s] EXCEPT !.squad = "ready"]]
          \/ seated' = seated
      BY <2>6 DEF Decide
    <3> QED BY <2>2, <3>1
  <2>7. ASSUME NEW seat \in Seat, DraftTimedOut(seat) PROVE seated' = seated
    BY <2>7 DEF DraftTimedOut
  <2>8. ASSUME NEW seat \in Seat, Left(seat) PROVE seated' = seated
    <3>1. CASE ~DraftOpen /\ ~fight /\ played = <<>> /\ ~Finished
      BY <1>1, <2>1, <3>1 DEF IInv, Fights, DraftOpen
    <3> QED BY <2>8, <3>1 DEF Left
  <2> QED BY <2>1, <2>3, <2>4, <2>5, <2>6, <2>7, <2>8 DEF Next
<1> QED BY <1>1, Inductive, PTL DEF Spec, SeatsKeepTheirHolders

\* A finished room stays as it is, and no battle opens in a decided series.
THEOREM FinishedForGood == Spec => FinishedIsFinished
<1> DEFINE Final ==
      /\ Finished => UNCHANGED <<played, standing, result, fight, index, asked, watched>>
      /\ index' # index =>
           /\ index' = index + 1
           /\ ~SeriesOver(played', standing')
<1>1. ASSUME IInv, [Next]_vars PROVE [Final]_vars
  <2>1. SUFFICES ASSUME Next PROVE Final
    BY <1>1
  <2>2. ~Finished => ~SeriesOver(played, standing)
    <3>1. SUFFICES ASSUME ~Finished PROVE ~SeriesOver(played, standing)
      OBVIOUS
    <3>2. /\ Len(played) \in Nat /\ Len(played) < Battles
          /\ \A s \in Seat : standing[s] \in Nat /\ standing[s] <= Battles \div 2
      BY <1>1, <3>1, Unfinished
    <3> QED BY <3>2, Halves DEF SeriesOver
  <2>3. ASSUME NEW hello, Join(hello) PROVE Final
    <3>1. FreeSeats # {}
      BY <2>3 DEF Join, Gate
    <3>2. ~Finished /\ index = 0
      BY <1>1, <3>1, LastSeat, Gathering
    <3>3. (index' = 1 \/ index' = index) /\ UNCHANGED <<played, standing>>
      BY <2>3 DEF Join, Begin
    <3>4. SeriesOver(played', standing') = SeriesOver(played, standing)
      BY <3>3 DEF SeriesOver
    <3> QED BY <2>2, <3>2, <3>3, <3>4
  <2>4. ASSUME NEW seat \in Seat, Answer(seat) PROVE Final
    BY <1>1, <2>4, ResolvedGoesOn DEF Answer
  <2>5. ASSUME NEW seat \in Seat, TurnTimedOut(seat) PROVE Final
    BY <1>1, <2>5, ResolvedGoesOn DEF TurnTimedOut
  <2>6. ASSUME NEW seat \in Seat, NEW decision, Decide(seat, decision) PROVE Final
    <3>1. /\ ~Finished
          /\ index' = index + 1 \/ index' = index
          /\ UNCHANGED <<played, standing>>
      BY <2>6 DEF Decide, DraftOpen, Begin
    <3>2. SeriesOver(played', standing') = SeriesOver(played, standing)
      BY <3>1 DEF SeriesOver
    <3> QED BY <2>2, <3>1, <3>2
  <2>7. ASSUME NEW seat \in Seat, DraftTimedOut(seat) PROVE Final
    BY <2>7 DEF DraftTimedOut, DraftOpen
  <2>8. ASSUME NEW seat \in Seat, Left(seat) PROVE Final
    BY <2>8 DEF Left
  <2> QED BY <2>1, <2>3, <2>4, <2>5, <2>6, <2>7, <2>8 DEF Next
<1> QED BY <1>1, Inductive, PTL DEF Spec, FinishedIsFinished

-----------------------------------------------------------------------------
(* The room implements Match. *)

\* Room.seriesOver's majority is Match's.
LEMMA MajorityOfHalf ==
  ASSUME NEW n \in Nat
  PROVE n > Battles \div 2 <=> 2 * n > Battles
BY Halves

\* Room.close is Match's Fight: one battle more for a seat or for nobody, and the
\* match is over exactly when the score or the number of battles says so.
LEMMA CloseFights ==
  ASSUME IInv, IInv', fight, NEW o, o.winner \in Seat \cup {"none"}, NEW told, NEW record,
         Close(o, told, record)
  PROVE M!Fight
<1> DEFINE b == [battle |-> index, home |-> home, winner |-> o.winner, capped |-> o.capped]
           fought == Append(played, b)
           wins == [s \in Seat |-> standing[s] + IF s = o.winner THEN 1 ELSE 0]
<1>1. /\ ~Finished /\ BothTaken /\ played \in Seq(BattleResult) /\ played' \in Seq(BattleResult)
      /\ standing \in [Seat -> Nat] /\ standing' \in [Seat -> Nat]
  BY DEF IInv, Fights, TypeOK
<1>2. played' = fought /\ standing' = wins
  BY DEF Close
<1>3. Len(played') = Len(played) + 1 /\ Len(played) \in Nat
  <2>1. Len(Append(played, b)) = Len(played) + 1
    <3> HIDE DEF b
    <3> QED BY <1>1
  <2> QED BY <1>1, <1>2, <2>1
<1>4. wins = [p \in Seat |-> IF p = o.winner THEN standing[p] + 1 ELSE standing[p]]
  BY <1>1
<1>5. Len(played) < Battles
  BY <1>1, Unfinished
<1> HIDE DEF b, fought, wins
<1>6. BothTaken'
  <2>1. played' # <<>>
    BY <1>1, <1>3
  <2> QED BY <2>1 DEF IInv, Fights
<1>7. SeriesOver(fought, wins) <=> Len(played') = Battles \/ \E p \in Seat : 2 * standing'[p] > Battles
  BY <1>1, <1>2, <1>3, <1>5, MajorityOfHalf, RoomAssumption DEF SeriesOver
<1>8. Phase = "playing" /\ result.verdict = "unfinished"
  BY <1>1, Unfinished DEF Phase, Finished
<1>9. CASE /\ SeriesOver(fought, wins)
           /\ result' = [verdict |-> IF Leader(wins) = "none" THEN "drawn" ELSE "won",
                         winner |-> Leader(wins), departed |-> "none"]
  <2>1. Phase' = "over"
    BY <1>9 DEF Phase, Finished
  <2>2. (\E p \in Seat : \A q \in Seat \ {p} : wins[p] > wins[q]) <=> Leader(wins) # "none"
    <3>1. wins \in [Seat -> Nat] /\ Seat = {"host", "guest"}
      BY <1>1, <1>2, Seats
    <3>2. wins["host"] \in Nat /\ wins["guest"] \in Nat
      BY <3>1
    <3>3. (\E p \in Seat : \A q \in Seat \ {p} : wins[p] > wins[q])
            <=> wins["host"] > wins["guest"] \/ wins["guest"] > wins["host"]
      BY <3>1
    <3> QED BY <3>2, <3>3 DEF Leader
  <2>3. result'.verdict = IF \E p \in Seat : \A q \in Seat \ {p} : standing'[p] > standing'[q]
                          THEN "won" ELSE "drawn"
    BY <1>2, <1>9, <2>2
  <2> QED BY <1>2, <1>3, <1>4, <1>7, <1>8, <1>9, <2>1, <2>3 DEF M!Fight, M!Majority
<1>10. CASE ~SeriesOver(fought, wins) /\ UNCHANGED result
  <2>1. Phase' = "playing"
    BY <1>1, <1>6, <1>10 DEF Phase, Finished
  <2> QED BY <1>2, <1>3, <1>4, <1>7, <1>8, <1>10, <2>1 DEF M!Fight, M!Majority
<1> QED BY <1>9, <1>10 DEF Close, fought, wins, b

\* A decision in a battle is a step of Match or none of its business.
LEMMA ResolvedMatches ==
  ASSUME IInv, IInv', NEW seat \in Seat, asked = seat, Resolved
  PROVE M!Next \/ UNCHANGED M!vars
<1>1. fight
  BY Seats DEF IInv, Fights
<1>2. PICK o \in Settlings(turns) :
        \/ UNCHANGED <<seated, played, standing, result>>
        \/ Close(o, Told(TurnBody(index)), Append(watched, TurnBody(index)))
  BY DEF Resolved
<1>3. CASE UNCHANGED <<seated, played, standing, result>>
  BY <1>3 DEF M!vars, Phase, Finished, BothTaken
<1>4. CASE Close(o, Told(TurnBody(index)), Append(watched, TurnBody(index)))
  <2>1. o.winner \in Seat \cup {"none"}
    BY SettlingsType DEF IInv, TypeOK
  <2>2. \E told, record : Close(o, told, record)
    BY <1>4
  <2>3. M!Fight
    BY <1>1, <2>1, <2>2, CloseFights
  <2> QED BY <2>3 DEF M!Next
<1> QED BY <1>2, <1>3, <1>4

\* A match that is abandoned is Match's Abandon.
LEMMA Abandons ==
  ASSUME BothTaken, ~Finished, UNCHANGED <<played, standing>>, result'.verdict = "abandoned"
  PROVE M!Next
BY DEF M!Next, M!Abandon, Phase, Finished

\* Internal/room's Room implements Match: every step of every room opens the
\* match, finishes one battle of it, abandons it, or changes nothing of it.
THEOREM Implements == Spec => MatchSpec
<1>1. Init => M!Init
  <2>1. SUFFICES ASSUME Init PROVE M!Init
    OBVIOUS
  <2>2. /\ ~seated["host"].taken /\ result.verdict = "unfinished" /\ played = <<>>
        /\ standing = [s \in Seat |-> 0]
    BY <2>1, Seats DEF Init, Empty
  <2>3. Phase = "gathering"
    BY <2>2, Seats DEF Phase, Finished, BothTaken
  <2> QED BY <2>2, <2>3 DEF M!Init
<1>2. ASSUME IInv, IInv', [Next]_vars PROVE M!Next \/ UNCHANGED M!vars
  <2>1. ASSUME NEW hello, Join(hello) PROVE M!Next \/ UNCHANGED M!vars
    <3>1. FreeSeats # {}
      BY <2>1 DEF Join, Gate
    <3>2. ~BothTaken /\ ~Finished
      BY <1>2, <3>1, LastSeat, Gathering
    <3>3. UNCHANGED <<played, standing, result>>
      BY <2>1 DEF Join
    <3>4. Phase = "gathering" /\ Phase' \in {"gathering", "playing"}
      BY <3>2, <3>3 DEF Phase, Finished
    <3> QED BY <3>3, <3>4 DEF M!Next, M!Start, M!vars
  <2>2. ASSUME NEW seat \in Seat, Answer(seat) PROVE M!Next \/ UNCHANGED M!vars
    BY <1>2, <2>2, ResolvedMatches DEF Answer
  <2>3. ASSUME NEW seat \in Seat, TurnTimedOut(seat) PROVE M!Next \/ UNCHANGED M!vars
    BY <1>2, <2>3, ResolvedMatches DEF TurnTimedOut
  <2>4. ASSUME NEW seat \in Seat, NEW decision \in Decisions(seat), Decide(seat, decision)
        PROVE M!Next \/ UNCHANGED M!vars
    <3>1. /\ UNCHANGED <<played, standing, result>>
          /\ \/ seated' = [s \in Seat |-> [seated[s] EXCEPT !.squad = "ready"]]
             \/ seated' = seated
      BY <2>4 DEF Decide
    <3>2. seated \in [Seat -> [taken : BOOLEAN, token : Nat, squad : {"none", "ready"}]]
      BY <1>2 DEF IInv, TypeOK
    <3>3. \A s \in Seat : seated'[s].taken = seated[s].taken
      BY <3>1, <3>2
    <3> QED BY <3>1, <3>3 DEF M!vars, Phase, Finished, BothTaken
  <2>5. ASSUME NEW seat \in Seat, DraftTimedOut(seat) PROVE M!Next \/ UNCHANGED M!vars
    BY <2>5, Abandons DEF DraftTimedOut, DraftOpen
  <2>6. ASSUME NEW seat \in Seat, Left(seat) PROVE M!Next \/ UNCHANGED M!vars
    <3>1. CASE /\ ~DraftOpen /\ ~fight /\ played = <<>>
               /\ seated' = [seated EXCEPT ![seat] = Empty] /\ UNCHANGED result
      <4>1. ~BothTaken /\ ~Finished
        BY <1>2, <2>6, <3>1 DEF IInv, Fights, DraftOpen, Left
      <4>2. UNCHANGED <<played, standing, result>>
        BY <2>6, <3>1 DEF Left
      <4>3. seated'[seat] = Empty
        BY <1>2, <3>1 DEF IInv, TypeOK
      <4>4. ~BothTaken'
        BY <4>3 DEF BothTaken, Empty
      <4> QED BY <4>1, <4>2, <4>4 DEF M!vars, Phase, Finished
    <3>2. CASE /\ DraftOpen \/ fight \/ played # <<>>
               /\ result' = [verdict |-> "abandoned", winner |-> "none", departed |-> seat]
      <4>1. BothTaken /\ ~Finished
        BY <1>2, <2>6, <3>2 DEF IInv, Fights, DraftOpen, Left
      <4>2. UNCHANGED <<played, standing>>
        BY <2>6 DEF Left
      <4> QED BY <3>2, <4>1, <4>2, Abandons
    <3> QED BY <2>6, <3>1, <3>2 DEF Left
  <2>7. CASE UNCHANGED vars
    BY <2>7 DEF vars, match, M!vars, Phase, Finished, BothTaken
  <2> QED BY <1>2, <2>1, <2>2, <2>3, <2>4, <2>5, <2>6, <2>7 DEF Next
<1> QED BY <1>1, <1>2, Inductive, PTL DEF Spec, MatchSpec, M!Spec


-----------------------------------------------------------------------------
(* The record and the host's seat. *)

Boards(record) == Cardinality(BoardPlaces(record, Len(record)))

\* A body more is the next on the board, or is not on it.
LEMMA BoardGrows ==
  ASSUME NEW record \in Seq(Body), NEW body \in Body
  PROVE /\ Boards(record) \in Nat
        /\ IsBoardBody(body) =>
             /\ OnTheBoard(Append(record, body)) = OnTheBoard(record) \cup {<<Boards(record) + 1, body>>}
             /\ Boards(Append(record, body)) = Boards(record) + 1
        /\ ~IsBoardBody(body) =>
             /\ OnTheBoard(Append(record, body)) = OnTheBoard(record)
             /\ Boards(Append(record, body)) = Boards(record)
<1> DEFINE n == Len(record)
           more == Append(record, body)
<1>1. /\ n \in Nat /\ Len(more) = n + 1 /\ more[n + 1] = body
      /\ \A i \in 1..n : more[i] = record[i]
  OBVIOUS
<1> HIDE DEF more
<1>2. \A i \in 0..n : BoardPlaces(more, i) = BoardPlaces(record, i)
  BY <1>1 DEF BoardPlaces
<1>3. IsFiniteSet(BoardPlaces(record, n)) /\ Boards(record) \in Nat
  <2>1. IsFiniteSet(1..n)
    BY <1>1, FS_Interval
  <2>2. BoardPlaces(record, n) \subseteq 1..n
    BY DEF BoardPlaces
  <2>3. IsFiniteSet(BoardPlaces(record, n))
    BY <2>1, <2>2, FS_Subset
  <2> QED BY <2>3, FS_CardinalityType DEF Boards
<1>4. OnTheBoard(record) = { <<Cardinality(BoardPlaces(more, i)), more[i]>> : i \in BoardPlaces(record, n) }
  <2>1. \A i \in BoardPlaces(record, n) : i \in 0..n /\ more[i] = record[i]
    BY <1>1 DEF BoardPlaces
  <2> QED BY <1>2, <2>1 DEF OnTheBoard
<1>5. CASE IsBoardBody(body)
  <2>1. BoardPlaces(more, n + 1) = BoardPlaces(record, n) \cup {n + 1}
    BY <1>1, <1>5 DEF BoardPlaces
  <2>2. n + 1 \notin BoardPlaces(record, n)
    BY <1>1 DEF BoardPlaces
  <2>3. Cardinality(BoardPlaces(more, n + 1)) = Boards(record) + 1
    BY <1>3, <2>1, <2>2, FS_AddElement DEF Boards
  <2>4. OnTheBoard(more) = OnTheBoard(record) \cup {<<Boards(record) + 1, body>>}
    BY <1>1, <1>4, <2>1, <2>3 DEF OnTheBoard
  <2> QED BY <1>1, <1>3, <1>5, <2>3, <2>4 DEF more, Boards
<1>6. CASE ~IsBoardBody(body)
  <2>1. BoardPlaces(more, n + 1) = BoardPlaces(record, n)
    BY <1>1, <1>6 DEF BoardPlaces
  <2>2. OnTheBoard(more) = OnTheBoard(record)
    BY <1>1, <1>4, <2>1 DEF OnTheBoard
  <2> QED BY <1>1, <1>3, <1>6, <2>1, <2>2 DEF more, Boards
<1> QED BY <1>5, <1>6

\* Two records of one match.
SameBoard(a, b) == OnTheBoard(a) = OnTheBoard(b) /\ Boards(a) = Boards(b)

\* A body told to both keeps them so, and so does one that is not of the board.
LEMMA SameBoardGrows ==
  ASSUME NEW a \in Seq(Body), NEW b \in Seq(Body), NEW body \in Body, SameBoard(a, b)
  PROVE /\ SameBoard(Append(a, body), Append(b, body))
        /\ ~IsBoardBody(body) => SameBoard(a, Append(b, body)) /\ SameBoard(Append(a, body), b)
<1>1. CASE IsBoardBody(body)
  <2>1. /\ OnTheBoard(Append(a, body)) = OnTheBoard(a) \cup {<<Boards(a) + 1, body>>}
        /\ Boards(Append(a, body)) = Boards(a) + 1
    BY <1>1, BoardGrows
  <2>2. /\ OnTheBoard(Append(b, body)) = OnTheBoard(b) \cup {<<Boards(b) + 1, body>>}
        /\ Boards(Append(b, body)) = Boards(b) + 1
    BY <1>1, BoardGrows
  <2> QED BY <1>1, <2>1, <2>2 DEF SameBoard
<1>2. CASE ~IsBoardBody(body)
  <2>1. OnTheBoard(Append(a, body)) = OnTheBoard(a) /\ Boards(Append(a, body)) = Boards(a)
    BY <1>2, BoardGrows
  <2>2. OnTheBoard(Append(b, body)) = OnTheBoard(b) /\ Boards(Append(b, body)) = Boards(b)
    BY <1>2, BoardGrows
  <2> QED BY <1>2, <2>1, <2>2 DEF SameBoard
<1> QED BY <1>1, <1>2

OneMatch == SameBoard(watched, sent["host"])

\* The start of a battle goes into both.
LEMMA BeginRecords ==
  ASSUME NEW i \in Nat, NEW told \in [Seat -> Seq(Body)], NEW record \in Seq(Body),
         SameBoard(record, told["host"]), Begin(i, told, record)
  PROVE OneMatch'
<1> DEFINE body == StartBody(i, SideUnder(HomeFor(i), "host"))
<1>1. body \in Body
  BY Sides, Bodies
<1>2. "host" \in Seat /\ told["host"] \in Seq(Body)
  BY Seats
<1>3. watched' = Append(record, body) /\ sent'["host"] = Append(told["host"], body)
  BY <1>2 DEF Begin
<1> HIDE DEF body
<1> QED BY <1>1, <1>2, <1>3, SameBoardGrows DEF OneMatch

\* No input of the room tells them apart.
LEMMA RecordStaysTheMatch ==
  ASSUME IInv, OneMatch, [Next]_vars
  PROVE OneMatch'
<1>0. /\ watched \in Seq(Body) /\ sent \in [Seat -> Seq(Body)] /\ "host" \in Seat
      /\ index \in Nat /\ sent["host"] \in Seq(Body)
  BY Seats, RoomAssumption DEF IInv, TypeOK
<1>1. ASSUME UNCHANGED <<watched, sent>> PROVE OneMatch'
  BY <1>1 DEF OneMatch
<1>2. ASSUME NEW h, Join(h) PROVE OneMatch'
  BY <1>0, <1>1, <1>2, BeginRecords DEF Join, OneMatch
<1>3. ASSUME NEW seat \in Seat, Answer(seat) \/ TurnTimedOut(seat) PROVE OneMatch'
  <2> DEFINE told == Told(TurnBody(index))
             record == Append(watched, TurnBody(index))
  <2>1. TurnBody(index) \in Body
    BY <1>0, Bodies
  <2>2. told \in [Seat -> Seq(Body)] /\ record \in Seq(Body) /\ told["host"] = Append(sent["host"], TurnBody(index))
    BY <1>0, <2>1 DEF Told
  <2>3. SameBoard(record, told["host"])
    BY <1>0, <2>1, <2>2, SameBoardGrows DEF OneMatch
  <2>4. Resolved
    BY <1>3 DEF Answer, TurnTimedOut
  <2>5. (watched' = record /\ sent' = told) \/ Begin(index + 1, told, record)
    BY <2>4 DEF Resolved, Close
  <2> HIDE DEF told, record
  <2>6. CASE watched' = record /\ sent' = told
    BY <2>3, <2>6 DEF OneMatch
  <2>7. CASE Begin(index + 1, told, record)
    <3>1. index + 1 \in Nat
      BY <1>0
    <3> QED BY <2>2, <2>3, <2>7, <3>1, BeginRecords
  <2> QED BY <2>5, <2>6, <2>7
<1>4. ASSUME NEW seat \in Seat, NEW decision, Decide(seat, decision) PROVE OneMatch'
  <2> DEFINE n == Len(entries') - draftCursor
             told == IF Len(entries') > draftCursor THEN Told(DraftedBody(n)) ELSE sent
  <2>1. draftCursor \in Nat
    BY DEF IInv, TypeOK
  <2>2. told \in [Seat -> Seq(Body)] /\ SameBoard(watched, told["host"])
    <3>1. CASE Len(entries') > draftCursor
      <4>1. Len(entries') \in Nat
        BY StepKeeps DEF IInv, RecordTyped
      <4>2. n \in Nat
        BY <2>1, <3>1, <4>1
      <4>3. DraftedBody(n) \in Body /\ ~IsBoardBody(DraftedBody(n))
        BY <4>2, Bodies DEF DraftedBody, IsBoardBody
      <4> HIDE DEF n
      <4>4. Told(DraftedBody(n)) \in [Seat -> Seq(Body)]
            /\ Told(DraftedBody(n))["host"] = Append(sent["host"], DraftedBody(n))
        BY <1>0, <4>3 DEF Told
      <4>5. SameBoard(watched, Append(sent["host"], DraftedBody(n)))
        BY <1>0, <4>3, SameBoardGrows DEF OneMatch
      <4>6. told = Told(DraftedBody(n))
        BY <3>1
      <4> HIDE DEF told, n
      <4>7. told \in [Seat -> Seq(Body)]
        BY <4>4, <4>6
      <4>8. told["host"] = Append(sent["host"], DraftedBody(n))
        BY <4>4, <4>6
      <4> QED BY <4>5, <4>7, <4>8
    <3>2. CASE ~(Len(entries') > draftCursor)
      BY <1>0, <3>2 DEF OneMatch
    <3> QED BY <3>1, <3>2
  <2>3. (sent' = told /\ UNCHANGED watched) \/ Begin(index + 1, told, watched)
    BY <1>4 DEF Decide
  <2> HIDE DEF told
  <2>4. CASE sent' = told /\ UNCHANGED watched
    BY <2>2, <2>4 DEF OneMatch
  <2>5. CASE Begin(index + 1, told, watched)
    <3>1. index + 1 \in Nat
      BY <1>0
    <3> QED BY <1>0, <2>2, <2>5, <3>1, BeginRecords
  <2> QED BY <2>3, <2>4, <2>5
<1>5. ClosedBody \in Body /\ ~IsBoardBody(ClosedBody)
  BY Bodies DEF ClosedBody, IsBoardBody
<1>6. ASSUME NEW seat \in Seat, DraftTimedOut(seat) PROVE OneMatch'
  <2>1. UNCHANGED watched /\ sent'["host"] = Append(sent["host"], ClosedBody)
    BY <1>0, <1>6 DEF DraftTimedOut, Told
  <2> QED BY <1>0, <1>5, <2>1, SameBoardGrows DEF OneMatch
<1>7. ASSUME NEW seat \in Seat, Left(seat) PROVE OneMatch'
  <2>1. CASE UNCHANGED <<watched, sent>>
    BY <1>1, <2>1
  <2>2. CASE /\ watched' = Append(watched, ClosedBody)
             /\ sent' = [sent EXCEPT ![Other(seat)] = Append(@, ClosedBody)]
    <3>1. sent'["host"] \in {sent["host"], Append(sent["host"], ClosedBody)}
      BY <1>0, <2>2, Seats
    <3>2. SameBoard(Append(watched, ClosedBody), sent["host"])
      BY <1>0, <1>5, SameBoardGrows DEF OneMatch
    <3>3. SameBoard(Append(watched, ClosedBody), Append(sent["host"], ClosedBody))
      BY <1>0, <1>5, SameBoardGrows DEF OneMatch
    <3> QED BY <2>2, <3>1, <3>2, <3>3 DEF OneMatch
  <2> QED BY <1>7, <2>1, <2>2 DEF Left
<1>8. CASE UNCHANGED vars
  BY <1>1, <1>8 DEF vars, logs
<1> QED BY <1>2, <1>3, <1>4, <1>6, <1>7, <1>8 DEF Next

\* What Room keeps for its watchers and for players who come back is, of the battles,
\* what it sent the host's seat: the same starts and turns, in the same order.
THEOREM RecordIsOfTheMatch == Spec => []RecordIsTheMatch
<1>1. Init => OneMatch
  BY Seats DEF Init, OneMatch, SameBoard
<1>2. IInv /\ OneMatch /\ [Next]_vars => OneMatch'
  BY RecordStaysTheMatch
<1>3. OneMatch => RecordIsTheMatch
  BY DEF OneMatch, SameBoard, RecordIsTheMatch
<1> QED BY <1>1, <1>2, <1>3, Inductive, PTL DEF Spec
=============================================================================
