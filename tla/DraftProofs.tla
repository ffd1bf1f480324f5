---------------------------- MODULE DraftProofs ----------------------------
(***************************************************************************)
(* What a draft keeps for every pool, format and order of decisions: its    *)
(* types, the exclusive pool, and the package comment's claim that a draft  *)
(* Fits allowed cannot run dry.                                             *)
(***************************************************************************)
EXTENDS Draft, TLAPS, FiniteSetTheorems

\* The loadout that is due is for a character of the pool.
PendingInPool == awaiting => pending \in Pool

\* A step of the draft is one decision of one seat.
LEMMA NextCases ==
  ASSUME Next
  PROVE \E seat \in Seat :
    \/ \E character \in Pool : Ban(seat, character)
    \/ SkipBan(seat)
    \/ \E character \in Pool : Pick(seat, character)
    \/ \E name \in Names : Loadout(seat, name)
    \/ \E slots \in Arrangements : Arrange(seat, slots)
    \/ TimedOut(seat)
BY DEF Next

\* Choosing a form in one pick of a side leaves a side of picks.
LEMMA StageSet ==
  ASSUME NEW side \in Seq(PickRecord), NEW n, NEW stage \in Stages
  PROVE [side EXCEPT ![n].stage = stage] \in Seq(PickRecord)
<1> DEFINE new == [side EXCEPT ![n].stage = stage]
<1>1. side \in [1..Len(side) -> PickRecord]
  OBVIOUS
<1>2. \A i \in 1..Len(side) : new[i] \in PickRecord
  <2> TAKE i \in 1..Len(side)
  <2>1. side[i] \in PickRecord
    BY <1>1
  <2>2. CASE i = n
    <3>1. new[i] = [side[i] EXCEPT !.stage = stage]
      BY <2>2, <1>1
    <3> QED BY <3>1, <2>1 DEF PickRecord
  <2>3. CASE i # n
    BY <2>3, <2>1, <1>1
  <2> QED BY <2>2, <2>3
<1>3. new \in [1..Len(side) -> PickRecord]
  BY <1>1, <1>2
<1> QED BY <1>3

\* Whatever is decided and in whatever order, every variable of Draft keeps a value
\* of its own kind, and a loadout that is due is for a character of the pool.
THEOREM TypeInvariant == Spec => [](TypeOK /\ PendingInPool)
<1> USE DEF Seat
<1>1. Init => TypeOK /\ PendingInPool
  <2> SUFFICES ASSUME Init PROVE TypeOK /\ PendingInPool
    OBVIOUS
  <2> USE DEF Init
  <2>1. /\ taken \in [Seat -> Seq(PickRecord)]
        /\ arranged \in [Seat -> Arrangements \cup {<<>>}]
        /\ entries \in Seq(EntryRecord)
    OBVIOUS
  <2>2. /\ bans \in 0..(2 * BansPerSide)
        /\ picks \in 0..(2 * PicksPerSide)
    BY ConfigAssumption
  <2> QED BY <2>1, <2>2 DEF TypeOK, PendingInPool
<1>2. TypeOK /\ PendingInPool /\ [Next]_vars => (TypeOK /\ PendingInPool)'
  <2> SUFFICES ASSUME TypeOK, PendingInPool, [Next]_vars
               PROVE TypeOK' /\ PendingInPool'
    OBVIOUS
  <2> USE ConfigAssumption
  <2>0. ASSUME NEW seat \in Seat,
               NEW step \in {"ban", "pick", "loadout", "arrange", "timeout"},
               NEW what \in Pool \cup Names \cup Arrangements \cup {Nobody}
        PROVE Append(entries, Entry(seat, step, what)) \in Seq(EntryRecord)
    <3>1. Entry(seat, step, what) \in EntryRecord
      BY <2>0 DEF Entry, EntryRecord
    <3> QED BY <3>1 DEF TypeOK
  <2>1. ASSUME NEW seat \in Seat, NEW c \in Pool, Ban(seat, c)
        PROVE TypeOK' /\ PendingInPool'
    <3>1. bans' \in 0..(2 * BansPerSide)
      BY <2>1 DEF Ban, Due, TypeOK
    <3>2. entries' \in Seq(EntryRecord)
      BY <2>0, <2>1 DEF Ban
    <3> QED BY <2>1, <3>1, <3>2 DEF Ban, TypeOK, PendingInPool
  <2>2. ASSUME NEW seat \in Seat, SkipBan(seat)
        PROVE TypeOK' /\ PendingInPool'
    <3>1. bans' \in 0..(2 * BansPerSide)
      BY <2>2 DEF SkipBan, Due, TypeOK
    <3>2. entries' \in Seq(EntryRecord)
      BY <2>0, <2>2 DEF SkipBan
    <3> QED BY <2>2, <3>1, <3>2 DEF SkipBan, TypeOK, PendingInPool
  <2>3. ASSUME NEW seat \in Seat, NEW c \in Pool, Pick(seat, c)
        PROVE TypeOK' /\ PendingInPool'
    <3>1. picks' \in 0..(2 * PicksPerSide)
      BY <2>3 DEF Pick, Due, Picked, Cancelled, TypeOK
    <3>2. entries' \in Seq(EntryRecord)
      BY <2>0, <2>3 DEF Pick
    <3>3. [character |-> c, stage |-> NoStage] \in PickRecord
      BY DEF PickRecord
    <3>4. taken' \in [Seat -> Seq(PickRecord)]
      BY <2>3, <3>3 DEF Pick, TypeOK
    <3> QED BY <2>3, <3>1, <3>2, <3>4 DEF Pick, TypeOK, PendingInPool
  <2>4. ASSUME NEW seat \in Seat, NEW name \in Names, Loadout(seat, name)
        PROVE TypeOK' /\ PendingInPool'
    <3>1. pending \in Pool
      BY <2>4 DEF Loadout, Due, PendingInPool
    <3>2. Resolve[pending][name] \in Stages
      BY <3>1 DEF Stages
    <3>3. entries' \in Seq(EntryRecord)
      BY <2>0, <2>4 DEF Loadout
    <3>4. [taken[seat] EXCEPT ![Len(taken[seat])].stage = Resolve[pending][name]]
            \in Seq(PickRecord)
      BY <3>2, StageSet DEF TypeOK
    <3>5. taken' = [taken EXCEPT ![seat] =
                      [taken[seat] EXCEPT ![Len(taken[seat])].stage = Resolve[pending][name]]]
      BY <2>4 DEF Loadout
    <3>6. taken' \in [Seat -> Seq(PickRecord)]
      BY <3>4, <3>5 DEF TypeOK
    <3> QED BY <2>4, <3>3, <3>6 DEF Loadout, TypeOK, PendingInPool
  <2>5. ASSUME NEW seat \in Seat, NEW slots \in Arrangements, Arrange(seat, slots)
        PROVE TypeOK' /\ PendingInPool'
    <3>1. arranged' \in [Seat -> Arrangements \cup {<<>>}]
      BY <2>5 DEF Arrange, TypeOK
    <3>2. entries' \in Seq(EntryRecord)
      <4>1. CASE HasArranged(Other(seat))
        <5>1. arranged'["host"] \in Arrangements /\ arranged'["guest"] \in Arrangements
          BY <2>5, <4>1 DEF Arrange, HasArranged, Other, TypeOK
        <5>2. /\ Entry("host", "arrange", arranged'["host"]) \in EntryRecord
              /\ Entry("guest", "arrange", arranged'["guest"]) \in EntryRecord
          BY <5>1 DEF Entry, EntryRecord
        <5> QED BY <2>5, <4>1, <5>2 DEF Arrange, TypeOK
      <4>2. CASE ~HasArranged(Other(seat))
        BY <2>5, <4>2 DEF Arrange, TypeOK
      <4> QED BY <4>1, <4>2
    <3> QED BY <2>5, <3>1, <3>2 DEF Arrange, TypeOK, PendingInPool
  <2>6. ASSUME NEW seat \in Seat, TimedOut(seat)
        PROVE TypeOK' /\ PendingInPool'
    <3>1. entries' \in Seq(EntryRecord)
      BY <2>0, <2>6 DEF TimedOut
    <3> QED BY <2>6, <3>1 DEF TimedOut, TypeOK, PendingInPool
  <2>7. CASE UNCHANGED vars
    BY <2>7 DEF vars, TypeOK, PendingInPool
  <2> QED BY <2>1, <2>2, <2>3, <2>4, <2>5, <2>6, <2>7, NextCases
<1> QED BY <1>1, <1>2, PTL DEF Spec

-----------------------------------------------------------------------------
(* The pool never runs dry. *)

\* The decisions still to come that can each take a character out of the pool.
StillToTake == (2 * BansPerSide - bans) + (2 * PicksPerSide - picks)

\* The pool holds a character for each of them, and the slack besides.
PoolCount == Cardinality(Candidates) >= StillToTake + Slack

\* A character that is banned or picked is one candidate fewer.
LEMMA SpentOne ==
  ASSUME TypeOK, NEW c \in Candidates, NEW one, one.character = c,
         spent' = spent \cup {one}
  PROVE /\ Candidates' = Candidates \ {c}
        /\ Cardinality(Candidates') = Cardinality(Candidates) - 1
        /\ Cardinality(Candidates) \in Nat
<1>1. Gone' = Gone \cup {c}
  BY DEF Gone
<1>2. Candidates' = Candidates \ {c}
  BY <1>1 DEF Candidates
<1>3. IsFiniteSet(Candidates)
  BY ConfigAssumption, FS_Subset DEF Candidates
<1> QED BY <1>2, <1>3, FS_RemoveElement, FS_CardinalityType

\* Whatever is banned, picked or skipped and in whatever order, the pool holds
\* a character for every decision still to come, plus the slack.
LEMMA PoolCounted == Spec => []PoolCount
<1>1. Init => PoolCount
  <2> SUFFICES ASSUME Init PROVE PoolCount
    OBVIOUS
  <2>1. Candidates = Pool
    BY DEF Init, Candidates, Gone
  <2>2. Cardinality(Pool) \in Nat
    BY ConfigAssumption, FS_CardinalityType
  <2> QED BY <2>1, <2>2, ConfigAssumption DEF Init, PoolCount, StillToTake, Slack
<1>2. TypeOK /\ PoolCount /\ [Next]_vars => PoolCount'
  <2> SUFFICES ASSUME TypeOK, PoolCount, [Next]_vars PROVE PoolCount'
    OBVIOUS
  <2>0. /\ Cardinality(Pool) \in Nat
        /\ bans \in Int /\ picks \in Int
        /\ PicksPerSide \in Int /\ BansPerSide \in Int
        /\ Cardinality(Candidates) \in Nat
    <3>1. IsFiniteSet(Candidates)
      BY ConfigAssumption, FS_Subset DEF Candidates
    <3> QED BY <3>1, ConfigAssumption, FS_CardinalityType DEF TypeOK
  <2> USE <2>0
  <2>1. ASSUME NEW seat \in Seat, NEW c \in Pool, Ban(seat, c)
        PROVE PoolCount'
    <3>1. Cardinality(Candidates') = Cardinality(Candidates) - 1
      BY <2>1, SpentOne DEF Ban
    <3> QED BY <2>1, <3>1 DEF Ban, PoolCount, StillToTake, Slack
  <2>2. ASSUME NEW seat \in Seat, SkipBan(seat)
        PROVE PoolCount'
    <3>1. Candidates' = Candidates
      BY <2>2 DEF SkipBan, Candidates, Gone
    <3> QED BY <2>2, <3>1 DEF SkipBan, PoolCount, StillToTake, Slack
  <2>3. ASSUME NEW seat \in Seat, NEW c \in Pool, Pick(seat, c)
        PROVE PoolCount'
    <3>1. Cardinality(Candidates') = Cardinality(Candidates) - 1
      BY <2>3, SpentOne DEF Pick
    <3> QED BY <2>3, <3>1 DEF Pick, PoolCount, StillToTake, Slack
  <2>4. ASSUME UNCHANGED <<spent, bans, picks>>
        PROVE PoolCount'
    BY <2>4 DEF PoolCount, StillToTake, Slack, Candidates, Gone
  <2>5. ASSUME NEW seat \in Seat, NEW name \in Names, Loadout(seat, name)
        PROVE PoolCount'
    BY <2>4, <2>5 DEF Loadout
  <2>6. ASSUME NEW seat \in Seat, NEW slots \in Arrangements, Arrange(seat, slots)
        PROVE PoolCount'
    BY <2>4, <2>6 DEF Arrange
  <2>7. ASSUME NEW seat \in Seat, TimedOut(seat)
        PROVE PoolCount'
    BY <2>4, <2>7 DEF TimedOut
  <2>8. CASE UNCHANGED vars
    BY <2>4, <2>8 DEF vars
  <2> QED BY <2>1, <2>2, <2>3, <2>5, <2>6, <2>7, <2>8, NextCases
<1> QED BY <1>1, <1>2, TypeInvariant, PTL DEF Spec

\* A ban or a pick that is due always has slack + 1 characters to choose from.
THEOREM PoolNeverRunsDry == Spec => []NeverDry
<1>1. TypeOK /\ PoolCount => NeverDry
  <2> SUFFICES ASSUME TypeOK, PoolCount, NEW seat \in Seat,
                      Due(seat, "ban") \/ Due(seat, "pick")
               PROVE Cardinality(Candidates) >= Slack + 1
    BY DEF NeverDry
  <2>1. StillToTake >= 1
    <3>1. ~(bans = 2 * BansPerSide /\ picks = 2 * PicksPerSide)
      BY DEF Due, Picked
    <3> QED BY <3>1, ConfigAssumption DEF StillToTake, TypeOK
  <2>2. /\ Cardinality(Pool) \in Nat
        /\ Cardinality(Candidates) \in Nat
    <3>1. IsFiniteSet(Candidates)
      BY ConfigAssumption, FS_Subset DEF Candidates
    <3> QED BY <3>1, ConfigAssumption, FS_CardinalityType
  <2>3. StillToTake \in Int /\ Slack \in Int
    BY <2>2, ConfigAssumption DEF StillToTake, Slack, TypeOK
  <2> QED BY <2>1, <2>2, <2>3 DEF PoolCount
<1> QED BY <1>1, TypeInvariant, PoolCounted, PTL

-----------------------------------------------------------------------------
(* The pool is exclusive. *)

\* Everything a side has taken has left the pool.
TakenAreGone ==
  \A s \in Seat : \A i \in DOMAIN taken[s] : taken[s][i].character \in Gone

\* A step that fields nobody new and bans nobody fielded keeps the pool exclusive.
LEMMA SameFielded ==
  ASSUME Exclusive, TakenAreGone, Gone \subseteq Gone',
         \A s \in Seat : /\ DOMAIN taken'[s] = DOMAIN taken[s]
                         /\ \A i \in DOMAIN taken[s] :
                              taken'[s][i].character = taken[s][i].character,
         \A c \in Gone : \A t \in Seat :
           [character |-> c, seat |-> t, step |-> "ban"] \in spent'
             => [character |-> c, seat |-> t, step |-> "ban"] \in spent
  PROVE Exclusive' /\ TakenAreGone'
<1>1. TakenAreGone'
  BY DEF TakenAreGone
<1>2. Exclusive'
  BY DEF Exclusive, TakenAreGone
<1> QED BY <1>1, <1>2

\* No character is fielded twice, and none that was banned is fielded.
THEOREM PoolIsExclusive == Spec => []Exclusive
<1>1. Init => Exclusive /\ TakenAreGone
  BY DEF Init, Exclusive, TakenAreGone
<1>2. TypeOK /\ Exclusive /\ TakenAreGone /\ [Next]_vars
        => Exclusive' /\ TakenAreGone'
  <2> SUFFICES ASSUME TypeOK, Exclusive, TakenAreGone, [Next]_vars
               PROVE Exclusive' /\ TakenAreGone'
    OBVIOUS
  <2>1. ASSUME NEW seat \in Seat, NEW c \in Pool, Ban(seat, c)
        PROVE Exclusive' /\ TakenAreGone'
    <3>1. c \notin Gone
      BY <2>1 DEF Ban, Candidates
    <3>2. Gone \subseteq Gone'
      BY <2>1 DEF Ban, Gone
    <3>3. taken' = taken /\
          spent' = spent \cup {[character |-> c, seat |-> seat, step |-> "ban"]}
      BY <2>1 DEF Ban
    <3>4. \A d \in Gone : \A t \in Seat :
            [character |-> d, seat |-> t, step |-> "ban"] \in spent'
              => [character |-> d, seat |-> t, step |-> "ban"] \in spent
      BY <3>1, <3>3
    <3> QED BY <3>2, <3>3, <3>4, SameFielded
  <2>2. ASSUME NEW seat \in Seat, SkipBan(seat)
        PROVE Exclusive' /\ TakenAreGone'
    <3>1. taken' = taken /\ spent' = spent
      BY <2>2 DEF SkipBan
    <3> QED BY <3>1, SameFielded DEF Gone
  <2>3. ASSUME NEW seat \in Seat, NEW c \in Pool, Pick(seat, c)
        PROVE Exclusive' /\ TakenAreGone'
    <3> DEFINE new == [character |-> c, stage |-> NoStage]
               n == Len(taken[seat]) + 1
    <3>1. c \notin Gone
      BY <2>3 DEF Pick, Candidates
    <3>2. Gone' = Gone \cup {c}
      <4> DEFINE one == [character |-> c, seat |-> seat, step |-> "pick"]
      <4>1. spent' = spent \cup {one} /\ one.character = c
        BY <2>3 DEF Pick
      <4> HIDE DEF one
      <4> QED BY <4>1 DEF Gone
    <3>3. /\ taken' = [taken EXCEPT ![seat] = Append(taken[seat], new)]
          /\ spent' = spent \cup {[character |-> c, seat |-> seat, step |-> "pick"]}
      BY <2>3 DEF Pick
    <3>4. \A s \in Seat : taken[s] \in Seq(PickRecord)
      BY DEF TypeOK
    <3>5. \A s \in Seat : s # seat => taken'[s] = taken[s]
      BY <3>3 DEF TypeOK
    <3>6. /\ taken'[seat] = Append(taken[seat], new)
          /\ DOMAIN taken'[seat] = (DOMAIN taken[seat]) \cup {n}
          /\ taken'[seat][n] = new
          /\ n \notin DOMAIN taken[seat]
          /\ \A i \in DOMAIN taken[seat] : taken'[seat][i] = taken[seat][i]
      <4>1. taken'[seat] = Append(taken[seat], new)
        BY <3>3 DEF TypeOK
      <4> QED BY <4>1, <3>4
    <3>7. TakenAreGone'
      BY <3>2, <3>5, <3>6 DEF TakenAreGone
    <3>8. \A s \in Seat : \A i \in DOMAIN taken'[s] :
            \/ s = seat /\ i = n /\ taken'[s][i].character = c
            \/ /\ i \in DOMAIN taken[s]
               /\ taken'[s][i] = taken[s][i]
               /\ taken'[s][i].character # c
      BY <3>1, <3>5, <3>6 DEF TakenAreGone
    <3>9. \A t \in Seat : [character |-> c, seat |-> t, step |-> "ban"] \notin spent'
      BY <3>1, <3>3 DEF Gone
    <3>10. \A d, t : [character |-> d, seat |-> t, step |-> "ban"] \in spent'
                       => [character |-> d, seat |-> t, step |-> "ban"] \in spent
      BY <3>3
    <3>11. Exclusive'
      <4> SUFFICES ASSUME NEW s \in Seat, NEW t \in Seat, NEW i \in DOMAIN taken'[s]
                   PROVE /\ \A j \in DOMAIN taken'[t] :
                              taken'[s][i].character = taken'[t][j].character
                                => s = t /\ i = j
                         /\ [character |-> taken'[s][i].character, seat |-> t,
                             step |-> "ban"] \notin spent'
        BY DEF Exclusive
      <4>1. ASSUME NEW j \in DOMAIN taken'[t],
                   taken'[s][i].character = taken'[t][j].character
            PROVE s = t /\ i = j
        <5>1. CASE s = seat /\ i = n
          <6>1. taken'[s][i].character = c
            BY <5>1, <3>6
          <6>2. taken'[t][j].character = c
            BY <6>1, <4>1
          <6>3. t = seat /\ j = n
            BY <6>2, <3>8, Zenon
          <6> QED BY <6>3, <5>1
        <5>2. CASE ~(s = seat /\ i = n)
          <6>1. i \in DOMAIN taken[s] /\ taken'[s][i] = taken[s][i]
                /\ taken'[s][i].character # c
            BY <5>2, <3>8
          <6>2. j \in DOMAIN taken[t] /\ taken'[t][j] = taken[t][j]
            <7>1. taken'[t][j].character # c
              BY <6>1, <4>1
            <7> QED BY <7>1, <3>8, Zenon
          <6>3. taken[s][i].character = taken[t][j].character
            BY <6>1, <6>2, <4>1
          <6>4. \A k \in DOMAIN taken[t] :
                  taken[s][i].character = taken[t][k].character => s = t /\ i = k
            <7>1. i \in DOMAIN taken[s]
              BY <6>1
            <7> QED BY <7>1, Zenon DEF Exclusive
          <6> QED BY <6>2, <6>3, <6>4
        <5> QED BY <5>1, <5>2
      <4>2. [character |-> taken'[s][i].character, seat |-> t, step |-> "ban"] \notin spent'
        BY <3>8, <3>9, <3>10 DEF Exclusive
      <4> QED BY <4>1, <4>2
    <3> QED BY <3>7, <3>11
  <2>4. ASSUME NEW seat \in Seat, NEW name \in Names, Loadout(seat, name)
        PROVE Exclusive' /\ TakenAreGone'
    <3>1. \A s \in Seat : /\ DOMAIN taken'[s] = DOMAIN taken[s]
                          /\ \A i \in DOMAIN taken[s] :
                               taken'[s][i].character = taken[s][i].character
      <4>1. /\ taken' = [taken EXCEPT ![seat] =
                  [taken[seat] EXCEPT ![Len(taken[seat])] =
                     [taken[seat][Len(taken[seat])] EXCEPT !.stage = Resolve[pending][name]]]]
        BY <2>4 DEF Loadout
      <4>2. \A s \in Seat : \A i \in DOMAIN taken[s] : taken[s][i] \in PickRecord
        BY DEF TypeOK
      <4> QED BY <4>1, <4>2 DEF TypeOK, PickRecord
    <3>2. spent' = spent
      BY <2>4 DEF Loadout
    <3> QED BY <3>1, <3>2, SameFielded DEF Gone
  <2>5. ASSUME NEW seat \in Seat, NEW slots \in Arrangements, Arrange(seat, slots)
        PROVE Exclusive' /\ TakenAreGone'
    BY <2>5 DEF Arrange, Exclusive, TakenAreGone, Gone
  <2>6. ASSUME NEW seat \in Seat, TimedOut(seat)
        PROVE Exclusive' /\ TakenAreGone'
    BY <2>6 DEF TimedOut, Exclusive, TakenAreGone, Gone
  <2>7. CASE UNCHANGED vars
    BY <2>7 DEF vars, Exclusive, TakenAreGone, Gone
  <2> QED BY <2>1, <2>2, <2>3, <2>4, <2>5, <2>6, <2>7, NextCases
<1> QED BY <1>1, <1>2, TypeInvariant, PTL DEF Spec

-----------------------------------------------------------------------------
(* Arrangements are secret until both are in. *)

\* No arrangement is on the record.
Quiet == \A i \in DOMAIN entries : entries[i].step # "arrange"

\* Nobody arranges before the last pick has its loadout, nothing is on the record
\* before both have, and then the two of them are the last of it.
Revealed ==
  /\ ~Picked => \A seat \in Seat : ~HasArranged(seat)
  /\ ~Done => Quiet
  /\ Done => LET n == Len(entries)
             IN /\ n >= 2
                /\ entries[n - 1] = Entry("host", "arrange", arranged["host"])
                /\ entries[n] = Entry("guest", "arrange", arranged["guest"])
                /\ \A i \in 1..(n - 2) : entries[i].step # "arrange"

\* An arrangement is never the empty tuple that stands for none.
LEMMA ArrangementIsOne ==
  ASSUME NEW slots \in Arrangements
  PROVE slots # <<>>
<1>1. 1 \in DOMAIN slots
  BY ConfigAssumption DEF Arrangements
<1> QED BY <1>1

\* Recording anything but an arrangement keeps the record quiet.
LEMMA StaysQuiet ==
  ASSUME TypeOK, Quiet, NEW e \in EntryRecord, e.step # "arrange",
         entries' = Append(entries, e)
  PROVE Quiet'
<1>1. entries \in Seq(EntryRecord)
  BY DEF TypeOK
<1>2. SUFFICES ASSUME NEW i \in DOMAIN entries' PROVE entries'[i].step # "arrange"
  BY DEF Quiet
<1>3. CASE i \in DOMAIN entries
  BY <1>1, <1>3 DEF Quiet
<1>4. CASE i \notin DOMAIN entries
  <2>1. entries'[i] = e
    BY <1>1, <1>4
  <2> QED BY <2>1
<1> QED BY <1>3, <1>4

\* An arrangement reaches the record only when both are in: the second player
\* never decides on a board that shows the first player's cells.
THEOREM ArrangementsAreSecret == Spec => []SecretUntilBoth
<1> USE DEF Seat
<1>1. Init => Revealed
  BY ConfigAssumption DEF Init, Revealed, Quiet, Done, Picked, HasArranged, ArrangedBoth
<1>2. TypeOK /\ Revealed /\ [Next]_vars => Revealed'
  <2> SUFFICES ASSUME TypeOK, Revealed, [Next]_vars PROVE Revealed'
    OBVIOUS
  <2>0. ASSUME NEW e \in EntryRecord, e.step # "arrange", entries' = Append(entries, e),
               ~Done, \A seat \in Seat : ~HasArranged(seat)'
        PROVE Revealed'
    <3>1. Quiet'
      BY <2>0, StaysQuiet DEF Revealed
    <3>2. ~Done'
      BY <2>0 DEF Done, ArrangedBoth
    <3> QED BY <2>0, <3>1, <3>2 DEF Revealed
  <2>1. ASSUME NEW seat \in Seat, NEW step \in {"ban", "pick", "loadout"}, Due(seat, step),
               NEW what \in Pool \cup Names \cup {Nobody},
               entries' = Append(entries, Entry(seat, step, what)), arranged' = arranged
        PROVE Revealed'
    <3>1. Entry(seat, step, what) \in EntryRecord /\ Entry(seat, step, what).step # "arrange"
      BY DEF Entry, EntryRecord
    <3>2. ~Picked
      BY <2>1 DEF Due
    <3>3. ~Done /\ \A t \in Seat : ~HasArranged(t)'
      BY <2>1, <3>2 DEF Revealed, Done, HasArranged
    <3> QED BY <2>0, <2>1, <3>1, <3>3
  <2>2. ASSUME NEW seat \in Seat, NEW c \in Pool, Ban(seat, c) PROVE Revealed'
    BY <2>1, <2>2 DEF Ban
  <2>3. ASSUME NEW seat \in Seat, SkipBan(seat) PROVE Revealed'
    BY <2>1, <2>3 DEF SkipBan
  <2>4. ASSUME NEW seat \in Seat, NEW c \in Pool, Pick(seat, c) PROVE Revealed'
    BY <2>1, <2>4 DEF Pick
  <2>5. ASSUME NEW seat \in Seat, NEW name \in Names, Loadout(seat, name) PROVE Revealed'
    BY <2>1, <2>5 DEF Loadout
  <2>6. ASSUME NEW seat \in Seat, NEW slots \in Arrangements, Arrange(seat, slots)
        PROVE Revealed'
    <3>1. /\ Picked /\ ~Done /\ Picked'
          /\ arranged' = [arranged EXCEPT ![seat] = slots]
      BY <2>6 DEF Arrange, Arranging, Done, Picked, Cancelled
    <3>2. slots # <<>> /\ HasArranged(seat)'
      BY <3>1, ArrangementIsOne DEF HasArranged, TypeOK
    <3>3. Quiet
      BY <3>1 DEF Revealed
    <3>4. CASE HasArranged(Other(seat))
      <4>1. Done'
        BY <3>1, <3>2, <3>4 DEF Done, ArrangedBoth, HasArranged, Other, TypeOK
      <4> DEFINE h == Entry("host", "arrange", arranged'["host"])
                 g == Entry("guest", "arrange", arranged'["guest"])
      <4>2. entries' = entries \o <<h, g>>
        BY <2>6, <3>4 DEF Arrange
      <4>3. entries \in Seq(EntryRecord)
        BY DEF TypeOK
      <4> HIDE DEF h, g
      <4>4. /\ Len(entries') = Len(entries) + 2
            /\ entries'[Len(entries) + 1] = h
            /\ entries'[Len(entries) + 2] = g
            /\ \A i \in 1..Len(entries) : entries'[i] = entries[i]
        BY <4>2, <4>3
      <4>5. \A i \in 1..Len(entries) : entries'[i].step # "arrange"
        BY <3>3, <4>3, <4>4 DEF Quiet
      <4>6. /\ Len(entries') - 1 = Len(entries) + 1
            /\ Len(entries') - 2 = Len(entries)
            /\ Len(entries') >= 2
        BY <4>3, <4>4
      <4> QED BY <3>1, <4>1, <4>4, <4>5, <4>6 DEF Revealed, h, g
    <3>5. CASE ~HasArranged(Other(seat))
      <4>1. ~Done'
        BY <3>1, <3>5 DEF Done, ArrangedBoth, HasArranged, Other, TypeOK
      <4>2. Quiet'
        BY <2>6, <3>3, <3>5 DEF Arrange, Quiet
      <4> QED BY <3>1, <4>1, <4>2 DEF Revealed
    <3> QED BY <3>4, <3>5
  <2>7. ASSUME NEW seat \in Seat, TimedOut(seat) PROVE Revealed'
    <3>1. ~Done
      BY <2>7 DEF TimedOut, AwaitingArrangement, Arranging, Due, Done
    <3>2. \A t \in Seat : ~HasArranged(t)'
      BY <2>7 DEF TimedOut, HasArranged
    <3>3. /\ Entry(seat, "timeout", Nobody) \in EntryRecord
          /\ Entry(seat, "timeout", Nobody).step # "arrange"
      BY DEF Entry, EntryRecord
    <3>4. entries' = Append(entries, Entry(seat, "timeout", Nobody))
      BY <2>7 DEF TimedOut
    <3> QED BY <2>0, <3>1, <3>2, <3>3, <3>4
  <2>8. CASE UNCHANGED vars
    BY <2>8 DEF vars, Revealed, Done, Picked, Cancelled, ArrangedBoth, HasArranged, Quiet
  <2> QED BY <2>2, <2>3, <2>4, <2>5, <2>6, <2>7, <2>8, NextCases
<1>3. TypeOK /\ Revealed => SecretUntilBoth
  BY DEF Revealed, SecretUntilBoth, Quiet
<1> QED BY <1>1, <1>2, <1>3, TypeInvariant, PTL DEF Spec

=============================================================================
