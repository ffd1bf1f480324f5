---------------------------- MODULE MirrorProofs ----------------------------
(***************************************************************************)
(* The mirror beside its room, for every length of series, turn cap, pool   *)
(* and number of bodies in flight.  The invariant walks the mirror through  *)
(* everything that is still on the wire: where it arrives is where the room *)
(* is.                                                                      *)
(***************************************************************************)
EXTENDS Mirror, RoomProofs, SequenceTheorems

-----------------------------------------------------------------------------
(* The mirror as a value, and what a body makes of it. *)

NobodyArranged == [s \in Seat |-> <<>>]

NewDraft ==
  [spent |-> {}, taken |-> [s \in Seat |-> <<>>], bans |-> 0, picks |-> 0, awaiting |-> FALSE,
   pending |-> Nobody, arranged |-> NobodyArranged, entries |-> <<>>]

MirrorDraft ==
  [spent |-> mSpent, taken |-> mTaken, bans |-> mBans, picks |-> mPicks, awaiting |-> mAwaiting,
   pending |-> mPending, arranged |-> mArranged, entries |-> mEntries]

MirrorStage == [board |-> board, fought |-> fought, closed |-> closure, draft |-> MirrorDraft]

FreshStage == [board |-> NoBoard, fought |-> <<>>, closed |-> FALSE, draft |-> NewDraft]

Opens(st, body) ==
  [board |-> [open |-> TRUE, prompt |-> body.asks, side |-> body.side, index |-> body.battle,
              turns |-> body.walked, capped |-> body.walked > TurnCap,
              read |-> st.board.read + 1],
   fought |-> st.fought, closed |-> st.closed, draft |-> st.draft]

Ahead(st, body) ==
  [st.board EXCEPT !.turns = st.board.turns + body.walked, !.prompt = body.asks,
                   !.read = st.board.read + 1,
                   !.capped = st.board.capped \/ CapOf(st.board.turns + body.walked)]

One(st, body) == [battle |-> st.board.index, side |-> st.board.side, winner |-> body.winner]

Settles(st, body) ==
  [board |-> [Ahead(st, body) EXCEPT !.prompt = "none"],
   fought |-> Append(st.fought, One(st, body)), closed |-> st.closed,
   draft |-> IF Drafts /\ ~OverBy(Append(st.fought, One(st, body))) THEN NewDraft ELSE st.draft]

Goes(st, body) ==
  [board |-> Ahead(st, body), fought |-> st.fought, closed |-> st.closed, draft |-> st.draft]

\* A draft behind a recorded decision.
Recording(d, e) == Append(d.entries, D!Entry(e.seat, e.step, e.what))

Banned(d, e) ==
  [spent |-> IF e.what = Nobody THEN d.spent
             ELSE d.spent \cup {[character |-> e.what, seat |-> e.seat, step |-> "ban"]},
   taken |-> d.taken, bans |-> d.bans + 1, picks |-> d.picks, awaiting |-> d.awaiting,
   pending |-> d.pending, arranged |-> d.arranged, entries |-> Recording(d, e)]

PickedBy(d, e) ==
  [spent |-> d.spent \cup {[character |-> e.what, seat |-> e.seat, step |-> "pick"]},
   taken |-> [d.taken EXCEPT ![e.seat] = Append(@, [character |-> e.what, stage |-> NoStage])],
   bans |-> d.bans, picks |-> d.picks + 1, awaiting |-> TRUE,
   pending |-> e.what, arranged |-> d.arranged, entries |-> Recording(d, e)]

Equipped(d, e) ==
  [spent |-> d.spent,
   taken |-> [d.taken EXCEPT ![e.seat][Len(d.taken[e.seat])].stage = Resolve[d.pending][e.what]],
   bans |-> d.bans, picks |-> d.picks, awaiting |-> FALSE,
   pending |-> d.pending, arranged |-> d.arranged, entries |-> Recording(d, e)]

\* Nothing is recorded until both are in.
Placed(d, e) == [d.arranged EXCEPT ![e.seat] = e.what]
Both(placed) ==
  <<D!Entry("host", "arrange", placed["host"]), D!Entry("guest", "arrange", placed["guest"])>>
Settled(d, e) ==
  [spent |-> d.spent, taken |-> d.taken, bans |-> d.bans, picks |-> d.picks,
   awaiting |-> d.awaiting, pending |-> d.pending, arranged |-> Placed(d, e),
   entries |-> IF d.arranged[Other(e.seat)] # <<>> THEN d.entries \o Both(Placed(d, e))
               ELSE d.entries]

Stepping(d, e) ==
  IF e.step = "ban" THEN Banned(d, e)
  ELSE IF e.step = "pick" THEN PickedBy(d, e)
  ELSE IF e.step = "loadout" THEN Equipped(d, e) ELSE Settled(d, e)

\* What a mirror that is not stopped by a body makes of it.
Walk(st, body) ==
  IF body.kind = "start" THEN Opens(st, body)
  ELSE IF body.kind = "turn"
       THEN IF body.over \/ Ahead(st, body).capped THEN Settles(st, body) ELSE Goes(st, body)
  ELSE IF body.kind = "drafted"
       THEN [board |-> st.board, fought |-> st.fought, closed |-> st.closed,
             draft |-> Stepping(st.draft, body.entry)]
  ELSE IF body.kind = "closed"
       THEN [board |-> [st.board EXCEPT !.open = FALSE, !.prompt = "none"],
             fought |-> st.fought, closed |-> TRUE, draft |-> st.draft]
  ELSE st

DraftOver(d) ==
  /\ ~d.awaiting /\ d.bans = 2 * BansPerSide /\ d.picks = 2 * PicksPerSide
  /\ \A s \in Seat : d.arranged[s] # <<>>

\* A turn is asked for only behind a draft that is over.
Proper(st) == st.board.open /\ st.board.prompt # "none" /\ Drafts => DraftOver(st.draft)

-----------------------------------------------------------------------------
(* Ways: a mirror through the bodies on the wire. *)

Listed(bodies) == \E S : bodies \in Seq(S)

Way(a, b, bodies) ==
  /\ Listed(bodies)
  /\ \E path :
       /\ path = [i \in 0..Len(bodies) |-> path[i]]
       /\ path[0] = a /\ path[Len(bodies)] = b
       /\ \A i \in 1..Len(bodies) : path[i] = Walk(path[i - 1], bodies[i]) /\ Proper(path[i])

\* A list of anything, and one more of anything.
LEMMA ListAppend ==
  ASSUME NEW s, Listed(s), NEW x
  PROVE /\ Listed(Append(s, x))
        /\ Len(s) \in Nat /\ Len(Append(s, x)) = Len(s) + 1
        /\ \A i \in 1..Len(s) : Append(s, x)[i] = s[i]
        /\ Append(s, x)[Len(s) + 1] = x
        /\ Append(s, x) # <<>>
        /\ Append(s, x) = s \o <<x>>
<1>1. PICK S : s \in Seq(S)
  BY DEF Listed
<1>2. DEFINE T == S \cup {x}
<1>3. s \in Seq(T) /\ x \in T
  BY <1>1, SeqMonotonic
<1> HIDE DEF T
<1>4. Append(s, x) \in Seq(T)
  BY <1>3
<1>5. Listed(Append(s, x))
  BY <1>4 DEF Listed
<1> QED BY <1>3, <1>5, AppendProperties, AppendIsConcat, LenProperties

\* The tail of a list.
LEMMA ListTail ==
  ASSUME NEW s, Listed(s), s # <<>>
  PROVE /\ Listed(Tail(s)) /\ Len(s) \in Nat \ {0} /\ Len(Tail(s)) = Len(s) - 1
        /\ Head(s) = s[1]
        /\ \A i \in 1..Len(s) - 1 : Tail(s)[i] = s[i + 1]
<1>1. PICK S : s \in Seq(S)
  BY DEF Listed
<1>2. Tail(s) \in Seq(S)
  BY <1>1
<1> QED BY <1>1, <1>2, EmptySeq DEF Listed

\* Two lists one behind the other.
LEMMA ListConcat ==
  ASSUME NEW s, Listed(s), NEW t, Listed(t)
  PROVE /\ Listed(s \o t) /\ Len(s) \in Nat /\ Len(t) \in Nat
        /\ Len(s \o t) = Len(s) + Len(t)
        /\ \A i \in 1..Len(s) : (s \o t)[i] = s[i]
        /\ \A i \in 1..Len(t) : (s \o t)[Len(s) + i] = t[i]
<1>1. PICK S : s \in Seq(S)
  BY DEF Listed
<1>2. PICK T : t \in Seq(T)
  BY DEF Listed
<1>3. DEFINE U == S \cup T
<1>4. s \in Seq(U) /\ t \in Seq(U)
  BY <1>1, <1>2, SeqMonotonic
<1> HIDE DEF U
<1>5. s \o t \in Seq(U)
  BY <1>4
<1> QED BY <1>4, <1>5 DEF Listed

\* Nothing on the wire leads nowhere.
LEMMA NoWay ==
  ASSUME NEW a
  PROVE Way(a, a, <<>>) /\ Listed(<<>>)
<1>1. <<>> \in Seq({}) /\ Len(<<>>) = 0
  OBVIOUS
<1>2. DEFINE path == [i \in 0..0 |-> a]
<1>3. path = [i \in 0..Len(<<>>) |-> path[i]] /\ path[0] = a /\ path[Len(<<>>)] = a
  BY <1>1
<1>4. \A i \in 1..Len(<<>>) : FALSE
  BY <1>1
<1> HIDE DEF path
<1> QED BY <1>1, <1>3, <1>4 DEF Way, Listed

LEMMA WayEmpty ==
  ASSUME NEW a, NEW b, Way(a, b, <<>>)
  PROVE a = b
BY DEF Way

\* One body more.
LEMMA WayOn ==
  ASSUME NEW a, NEW b, NEW bodies, Way(a, b, bodies), NEW x, NEW c, c = Walk(b, x), Proper(c)
  PROVE Way(a, c, Append(bodies, x)) /\ Listed(bodies)
<1>1. PICK path :
       /\ path = [i \in 0..Len(bodies) |-> path[i]]
       /\ path[0] = a /\ path[Len(bodies)] = b
       /\ \A i \in 1..Len(bodies) : path[i] = Walk(path[i - 1], bodies[i]) /\ Proper(path[i])
  BY DEF Way
<1>2. /\ Listed(bodies) /\ Len(bodies) \in Nat
      /\ Listed(Append(bodies, x)) /\ Len(Append(bodies, x)) = Len(bodies) + 1
      /\ \A i \in 1..Len(bodies) : Append(bodies, x)[i] = bodies[i]
      /\ Append(bodies, x)[Len(bodies) + 1] = x
  <2>1. Listed(bodies)
    BY DEF Way
  <2> QED BY <2>1, ListAppend
<1> DEFINE n == Len(bodies)
           long == [i \in 0..n + 1 |-> IF i = n + 1 THEN c ELSE path[i]]
<1>3. n \in Nat
  BY <1>2
<1>4. long = [i \in 0..n + 1 |-> long[i]] /\ long[0] = a /\ long[n + 1] = c
  BY <1>1, <1>3
<1>5. \A i \in 0..n : long[i] = path[i]
  BY <1>3
<1>6. ASSUME NEW i \in 1..n + 1
      PROVE long[i] = Walk(long[i - 1], Append(bodies, x)[i]) /\ Proper(long[i])
  <2>1. CASE i = n + 1
    <3>1. long[i] = c /\ i - 1 = n /\ long[i - 1] = path[n] /\ Append(bodies, x)[i] = x
      BY <2>1, <1>2, <1>3, <1>4, <1>5
    <3> HIDE DEF n, long
    <3> QED BY <3>1, <1>1 DEF n
  <2>2. CASE i # n + 1
    <3>1. i \in 1..n /\ i \in 0..n /\ i - 1 \in 0..n
      BY <2>2, <1>3
    <3>2. long[i] = path[i] /\ long[i - 1] = path[i - 1] /\ Append(bodies, x)[i] = bodies[i]
      BY <3>1, <1>2, <1>5
    <3> HIDE DEF long
    <3> QED BY <3>1, <3>2, <1>1
  <2> QED BY <2>1, <2>2
<1> HIDE DEF long
<1>7. Len(Append(bodies, x)) = n + 1
  BY <1>2
<1> HIDE DEF n
<1> QED BY <1>2, <1>4, <1>6, <1>7 DEF Way

\* The first body is read.
LEMMA WayTail ==
  ASSUME NEW a, NEW b, NEW bodies, bodies # <<>>, Way(a, b, bodies)
  PROVE Way(Walk(a, Head(bodies)), b, Tail(bodies)) /\ Proper(Walk(a, Head(bodies)))
<1>1. PICK path :
       /\ path = [i \in 0..Len(bodies) |-> path[i]]
       /\ path[0] = a /\ path[Len(bodies)] = b
       /\ \A i \in 1..Len(bodies) : path[i] = Walk(path[i - 1], bodies[i]) /\ Proper(path[i])
  BY DEF Way
<1>2. /\ Listed(Tail(bodies)) /\ Len(bodies) \in Nat \ {0} /\ Len(Tail(bodies)) = Len(bodies) - 1
      /\ Head(bodies) = bodies[1]
      /\ \A i \in 1..Len(bodies) - 1 : Tail(bodies)[i] = bodies[i + 1]
  <2>1. Listed(bodies)
    BY DEF Way
  <2> QED BY <2>1, ListTail
<1> DEFINE n == Len(bodies) - 1
           rest == [i \in 0..n |-> path[i + 1]]
<1>3. n \in Nat /\ n + 1 = Len(bodies)
  BY <1>2
<1>4. rest = [i \in 0..n |-> rest[i]] /\ rest[0] = path[1] /\ rest[n] = b
  BY <1>1, <1>3
<1>5. path[1] = Walk(a, Head(bodies)) /\ Proper(path[1])
  <2>1. 1 \in 1..Len(bodies)
    BY <1>3
  <2>2. path[1] = Walk(path[1 - 1], bodies[1]) /\ Proper(path[1])
    BY <2>1, <1>1
  <2>3. path[1 - 1] = a
    BY <1>1
  <2> QED BY <2>2, <2>3, <1>2
<1>6. ASSUME NEW i \in 1..n
      PROVE rest[i] = Walk(rest[i - 1], Tail(bodies)[i]) /\ Proper(rest[i])
  <2>1. i \in 0..n /\ i - 1 \in 0..n /\ i + 1 \in 1..Len(bodies) /\ i + 1 - 1 = i
    BY <1>3
  <2>2. rest[i] = path[i + 1] /\ rest[i - 1] = path[i] /\ Tail(bodies)[i] = bodies[i + 1]
    BY <2>1, <1>2
  <2>3. PICK j \in 1..Len(bodies) : j = i + 1 /\ j - 1 = i
    BY <2>1
  <2>4. path[j] = Walk(path[j - 1], bodies[j]) /\ Proper(path[j])
    BY <1>1
  <2> HIDE DEF rest
  <2> QED BY <2>2, <2>3, <2>4
<1> HIDE DEF rest
<1>7. Len(Tail(bodies)) = n
  BY <1>2
<1> HIDE DEF n
<1> QED BY <1>2, <1>4, <1>5, <1>6, <1>7 DEF Way

\* One way behind another.
LEMMA WayThrough ==
  ASSUME NEW a, NEW b, NEW c, NEW s, NEW t, Way(a, b, s), Way(b, c, t)
  PROVE Way(a, c, s \o t)
<1>1. PICK p :
       /\ p = [i \in 0..Len(s) |-> p[i]]
       /\ p[0] = a /\ p[Len(s)] = b
       /\ \A i \in 1..Len(s) : p[i] = Walk(p[i - 1], s[i]) /\ Proper(p[i])
  BY DEF Way
<1>2. PICK q :
       /\ q = [i \in 0..Len(t) |-> q[i]]
       /\ q[0] = b /\ q[Len(t)] = c
       /\ \A i \in 1..Len(t) : q[i] = Walk(q[i - 1], t[i]) /\ Proper(q[i])
  BY DEF Way
<1>3. /\ Listed(s \o t) /\ Len(s) \in Nat /\ Len(t) \in Nat
      /\ Len(s \o t) = Len(s) + Len(t)
      /\ \A i \in 1..Len(s) : (s \o t)[i] = s[i]
      /\ \A i \in 1..Len(t) : (s \o t)[Len(s) + i] = t[i]
  <2>1. Listed(s) /\ Listed(t)
    BY DEF Way
  <2> QED BY <2>1, ListConcat
<1> DEFINE m == Len(s)
           n == Len(t)
           r == [i \in 0..m + n |-> IF i <= m THEN p[i] ELSE q[i - m]]
<1>4. m \in Nat /\ n \in Nat
  BY <1>3
<1>5. \A i \in 0..m : r[i] = p[i]
  BY <1>4
<1>6. \A i \in 0..n : r[m + i] = q[i]
  <2> TAKE i \in 0..n
  <2>1. m + i \in 0..m + n /\ m + i - m = i
    BY <1>4
  <2>2. CASE i = 0
    <3>1. m + i = m /\ r[m] = p[m]
      BY <2>2, <1>4, <1>5
    <3> HIDE DEF r
    <3> QED BY <3>1, <2>2, <1>1, <1>2
  <2>3. CASE i # 0
    <3>1. ~(m + i <= m)
      BY <2>3, <1>4
    <3> QED BY <3>1, <2>1
  <2> QED BY <2>2, <2>3
<1>7. r = [i \in 0..m + n |-> r[i]] /\ r[0] = a /\ r[m + n] = c
  <2>1. r[0] = p[0] /\ r[m + n] = q[n]
    BY <1>4, <1>5, <1>6
  <2> QED BY <2>1, <1>1, <1>2
<1> HIDE DEF r
<1>8. ASSUME NEW i \in 1..m + n
      PROVE r[i] = Walk(r[i - 1], (s \o t)[i]) /\ Proper(r[i])
  <2>1. CASE i \in 1..m
    <3>1. i \in 0..m /\ i - 1 \in 0..m
      BY <2>1, <1>4
    <3>2. r[i] = p[i] /\ r[i - 1] = p[i - 1] /\ (s \o t)[i] = s[i]
      BY <3>1, <2>1, <1>3, <1>5
    <3> QED BY <3>2, <2>1, <1>1
  <2>2. CASE i \notin 1..m
    <3>1. PICK j \in 1..n : i = m + j
      <4>1. i - m \in 1..n /\ i = m + (i - m)
        BY <2>2, <1>4
      <4> QED BY <4>1
    <3>2. j \in 0..n /\ j - 1 \in 0..n /\ i - 1 = m + (j - 1)
      BY <3>1, <1>4
    <3>3. r[i] = q[j] /\ r[i - 1] = q[j - 1] /\ (s \o t)[i] = t[j]
      BY <3>1, <3>2, <1>3, <1>6
    <3> QED BY <3>3, <1>2
  <2> QED BY <2>1, <2>2
<1>9. Len(s \o t) = m + n
  BY <1>3
<1> HIDE DEF m, n
<1> QED BY <1>3, <1>7, <1>8, <1>9 DEF Way

-----------------------------------------------------------------------------
(* Ways on which a seat is asked for nothing before their end. *)

\* A mirror that asks its player for a turn, and one that asks for the draft.
TurnAsked(st) ==
  st.board.open /\ st.board.prompt # "none" /\ ~st.board.capped /\ st.board.prompt = st.board.side

PickedOut(d) == ~d.awaiting /\ d.bans = 2 * BansPerSide /\ d.picks = 2 * PicksPerSide

DraftAsked(seat, d) ==
  /\ Drafts
  /\ IF PickedOut(d) THEN d.arranged[seat] = <<>>
     ELSE \/ d.awaiting /\ seat = D!SeatAt(d.picks - 1)
          \/ ~d.awaiting /\ d.bans < 2 * BansPerSide /\ seat = D!SeatAt(d.bans)
          \/ ~d.awaiting /\ ~(d.bans < 2 * BansPerSide) /\ seat = D!SeatAt(d.picks)

AskedAt(seat, st) == TurnAsked(st) \/ DraftAsked(seat, st.draft)

\* A decision with more of its batch behind it: the mirror answers nothing in between.
Held(body) == body.kind = "drafted" /\ body.more

\* A way on which the seat is asked for nothing before its end.
HushedWay(seat, a, b, bodies) ==
  /\ Listed(bodies)
  /\ \E path :
       /\ path = [i \in 0..Len(bodies) |-> path[i]]
       /\ path[0] = a /\ path[Len(bodies)] = b
       /\ \A i \in 1..Len(bodies) : path[i] = Walk(path[i - 1], bodies[i])
       /\ \A i \in 1..Len(bodies) - 1 : Held(bodies[i]) \/ ~AskedAt(seat, path[i])

\* Nothing on the wire.
LEMMA HushedNone ==
  ASSUME NEW seat, NEW a
  PROVE HushedWay(seat, a, a, <<>>) /\ \A b : HushedWay(seat, a, b, <<>>) => a = b
<1>1. Listed(<<>>) /\ Len(<<>>) = 0
  BY NoWay
<1>2. DEFINE path == [i \in 0..0 |-> a]
<1>3. path = [i \in 0..Len(<<>>) |-> path[i]] /\ path[0] = a /\ path[Len(<<>>)] = a
  BY <1>1
<1>4. (\A i \in 1..Len(<<>>) : FALSE) /\ (\A i \in 1..Len(<<>>) - 1 : FALSE)
  BY <1>1
<1> HIDE DEF path
<1>5. HushedWay(seat, a, a, <<>>)
  BY <1>1, <1>3, <1>4 DEF HushedWay
<1>6. \A b : HushedWay(seat, a, b, <<>>) => a = b
  BY <1>1 DEF HushedWay
<1> QED BY <1>5, <1>6

\* One body more, read by a mirror that is not asked before it.
LEMMA HushedOn ==
  ASSUME NEW seat, NEW a, NEW b, NEW bodies, HushedWay(seat, a, b, bodies),
         bodies = <<>> \/ Held(bodies[Len(bodies)]) \/ ~AskedAt(seat, b),
         NEW x, NEW c, c = Walk(b, x)
  PROVE HushedWay(seat, a, c, Append(bodies, x))
<1>1. PICK path :
       /\ path = [i \in 0..Len(bodies) |-> path[i]]
       /\ path[0] = a /\ path[Len(bodies)] = b
       /\ \A i \in 1..Len(bodies) : path[i] = Walk(path[i - 1], bodies[i])
       /\ \A i \in 1..Len(bodies) - 1 : Held(bodies[i]) \/ ~AskedAt(seat, path[i])
  BY DEF HushedWay
<1>2. /\ Listed(bodies) /\ Len(bodies) \in Nat
      /\ Listed(Append(bodies, x)) /\ Len(Append(bodies, x)) = Len(bodies) + 1
      /\ \A i \in 1..Len(bodies) : Append(bodies, x)[i] = bodies[i]
      /\ Append(bodies, x)[Len(bodies) + 1] = x
  <2>1. Listed(bodies)
    BY DEF HushedWay
  <2> QED BY <2>1, ListAppend
<1> DEFINE n == Len(bodies)
           long == [i \in 0..n + 1 |-> IF i = n + 1 THEN c ELSE path[i]]
<1>3. n \in Nat
  BY <1>2
<1>4. long = [i \in 0..n + 1 |-> long[i]] /\ long[0] = a /\ long[n + 1] = c
  BY <1>1, <1>3
<1>5. \A i \in 0..n : long[i] = path[i]
  BY <1>3
<1>6. ASSUME NEW i \in 1..n + 1
      PROVE long[i] = Walk(long[i - 1], Append(bodies, x)[i])
  <2>1. CASE i = n + 1
    <3>1. long[i] = c /\ i - 1 = n /\ long[i - 1] = path[n] /\ Append(bodies, x)[i] = x
      BY <2>1, <1>2, <1>3, <1>4, <1>5
    <3> HIDE DEF n, long
    <3> QED BY <3>1, <1>1 DEF n
  <2>2. CASE i # n + 1
    <3>1. i \in 1..n /\ i \in 0..n /\ i - 1 \in 0..n
      BY <2>2, <1>3
    <3>2. long[i] = path[i] /\ long[i - 1] = path[i - 1] /\ Append(bodies, x)[i] = bodies[i]
      BY <3>1, <1>2, <1>5
    <3> HIDE DEF long
    <3> QED BY <3>1, <3>2, <1>1
  <2> QED BY <2>1, <2>2
<1>7. ASSUME NEW i \in 1..n
      PROVE Held(Append(bodies, x)[i]) \/ ~AskedAt(seat, long[i])
  <2>1. i \in 0..n /\ long[i] = path[i] /\ Append(bodies, x)[i] = bodies[i]
    BY <1>2, <1>3, <1>5
  <2>2. CASE i = n
    <3>1. bodies # <<>>
      BY <2>2, <1>3
    <3>2. path[i] = b
      BY <1>1, <2>2
    <3> HIDE DEF long
    <3>3. Held(bodies[i]) \/ ~AskedAt(seat, b)
      BY <2>2, <3>1
    <3> QED BY <2>1, <3>2, <3>3
  <2>3. CASE i # n
    <3>1. i \in 1..n - 1
      BY <2>3, <1>3
    <3> HIDE DEF long
    <3> QED BY <1>1, <2>1, <3>1
  <2> QED BY <2>2, <2>3
<1> HIDE DEF long
<1>8. PICK k, l : k = Append(bodies, x) /\ l = long
  OBVIOUS
<1>9. Listed(k) /\ Len(k) = n + 1 /\ Len(k) - 1 = n
  BY <1>2, <1>8
<1> HIDE DEF n
<1>10. l = [i \in 0..Len(k) |-> l[i]] /\ l[0] = a /\ l[Len(k)] = c
  BY <1>4, <1>8, <1>9
<1>11. \A i \in 1..Len(k) : l[i] = Walk(l[i - 1], k[i])
  BY <1>6, <1>8, <1>9
<1>12. \A i \in 1..Len(k) - 1 : Held(k[i]) \/ ~AskedAt(seat, l[i])
  BY <1>7, <1>8, <1>9
<1>13. HushedWay(seat, a, c, k)
  BY <1>9, <1>10, <1>11, <1>12 DEF HushedWay
<1> QED BY <1>8, <1>13

\* The first body is read.
LEMMA HushedTail ==
  ASSUME NEW seat, NEW a, NEW b, NEW bodies, bodies # <<>>, HushedWay(seat, a, b, bodies)
  PROVE /\ HushedWay(seat, Walk(a, Head(bodies)), b, Tail(bodies))
        /\ Tail(bodies) # <<>> => Held(Head(bodies)) \/ ~AskedAt(seat, Walk(a, Head(bodies)))
<1>1. PICK path :
       /\ path = [i \in 0..Len(bodies) |-> path[i]]
       /\ path[0] = a /\ path[Len(bodies)] = b
       /\ \A i \in 1..Len(bodies) : path[i] = Walk(path[i - 1], bodies[i])
       /\ \A i \in 1..Len(bodies) - 1 : Held(bodies[i]) \/ ~AskedAt(seat, path[i])
  BY DEF HushedWay
<1>2. /\ Listed(Tail(bodies)) /\ Len(bodies) \in Nat \ {0} /\ Len(Tail(bodies)) = Len(bodies) - 1
      /\ Head(bodies) = bodies[1]
      /\ \A i \in 1..Len(bodies) - 1 : Tail(bodies)[i] = bodies[i + 1]
  <2>1. Listed(bodies)
    BY DEF HushedWay
  <2> QED BY <2>1, ListTail
<1> DEFINE n == Len(bodies) - 1
           rest == [i \in 0..n |-> path[i + 1]]
<1>3. n \in Nat /\ n + 1 = Len(bodies)
  BY <1>2
<1>4. rest = [i \in 0..n |-> rest[i]] /\ rest[0] = path[1] /\ rest[n] = b
  BY <1>1, <1>3
<1>5. path[1] = Walk(a, Head(bodies))
  <2>1. 1 \in 1..Len(bodies)
    BY <1>3
  <2>2. path[1] = Walk(path[1 - 1], bodies[1])
    BY <2>1, <1>1
  <2>3. path[1 - 1] = a
    BY <1>1
  <2> QED BY <2>2, <2>3, <1>2
<1>6. ASSUME NEW i \in 1..n
      PROVE rest[i] = Walk(rest[i - 1], Tail(bodies)[i])
  <2>1. i \in 0..n /\ i - 1 \in 0..n /\ i + 1 \in 1..Len(bodies) /\ i + 1 - 1 = i
    BY <1>3
  <2>2. rest[i] = path[i + 1] /\ rest[i - 1] = path[i] /\ Tail(bodies)[i] = bodies[i + 1]
    BY <2>1, <1>2
  <2>3. PICK j \in 1..Len(bodies) : j = i + 1 /\ j - 1 = i
    BY <2>1
  <2>4. path[j] = Walk(path[j - 1], bodies[j])
    BY <1>1
  <2> HIDE DEF rest
  <2> QED BY <2>2, <2>3, <2>4
<1>7. ASSUME NEW i \in 1..n - 1
      PROVE Held(Tail(bodies)[i]) \/ ~AskedAt(seat, rest[i])
  <2>1. i \in 0..n /\ i \in 1..Len(bodies) - 1 /\ i + 1 \in 1..Len(bodies) - 1
    BY <1>3
  <2>2. rest[i] = path[i + 1] /\ Tail(bodies)[i] = bodies[i + 1]
    BY <2>1, <1>2
  <2>3. PICK j \in 1..Len(bodies) - 1 : j = i + 1
    BY <2>1
  <2>4. Held(bodies[j]) \/ ~AskedAt(seat, path[j])
    BY <1>1
  <2> HIDE DEF rest
  <2> QED BY <2>2, <2>3, <2>4
<1>8. ASSUME Tail(bodies) # <<>>
      PROVE Held(Head(bodies)) \/ ~AskedAt(seat, Walk(a, Head(bodies)))
  <2>1. PICK t : t = Tail(bodies)
    OBVIOUS
  <2>2. Len(t) # 0
    BY <1>2, <1>8, <2>1, EmptySeq DEF Listed
  <2>3. 1 \in 1..Len(bodies) - 1
    BY <1>2, <2>1, <2>2
  <2>4. Held(bodies[1]) \/ ~AskedAt(seat, path[1])
    BY <1>1, <2>3
  <2> QED BY <1>2, <1>5, <2>4
<1> HIDE DEF rest
<1>9. Len(Tail(bodies)) = n
  BY <1>2
<1> HIDE DEF n
<1>10. HushedWay(seat, Walk(a, Head(bodies)), b, Tail(bodies))
  BY <1>2, <1>4, <1>5, <1>6, <1>7, <1>9 DEF HushedWay
<1> QED BY <1>8, <1>10

\* One hushed way behind another.
LEMMA HushedThrough ==
  ASSUME NEW seat, NEW a, NEW b, NEW c, NEW s, NEW t,
         HushedWay(seat, a, b, s), HushedWay(seat, b, c, t),
         s = <<>> \/ t = <<>> \/ Held(s[Len(s)]) \/ ~AskedAt(seat, b)
  PROVE HushedWay(seat, a, c, s \o t)
<1>1. PICK p :
       /\ p = [i \in 0..Len(s) |-> p[i]]
       /\ p[0] = a /\ p[Len(s)] = b
       /\ \A i \in 1..Len(s) : p[i] = Walk(p[i - 1], s[i])
       /\ \A i \in 1..Len(s) - 1 : Held(s[i]) \/ ~AskedAt(seat, p[i])
  BY DEF HushedWay
<1>2. PICK q :
       /\ q = [i \in 0..Len(t) |-> q[i]]
       /\ q[0] = b /\ q[Len(t)] = c
       /\ \A i \in 1..Len(t) : q[i] = Walk(q[i - 1], t[i])
       /\ \A i \in 1..Len(t) - 1 : Held(t[i]) \/ ~AskedAt(seat, q[i])
  BY DEF HushedWay
<1>3. /\ Listed(s \o t) /\ Len(s) \in Nat /\ Len(t) \in Nat
      /\ Len(s \o t) = Len(s) + Len(t)
      /\ \A i \in 1..Len(s) : (s \o t)[i] = s[i]
      /\ \A i \in 1..Len(t) : (s \o t)[Len(s) + i] = t[i]
  <2>1. Listed(s) /\ Listed(t)
    BY DEF HushedWay
  <2> QED BY <2>1, ListConcat
<1> DEFINE m == Len(s)
           n == Len(t)
           r == [i \in 0..m + n |-> IF i <= m THEN p[i] ELSE q[i - m]]
<1>4. m \in Nat /\ n \in Nat
  BY <1>3
<1>5. \A i \in 0..m : r[i] = p[i]
  BY <1>4
<1>6. \A i \in 0..n : r[m + i] = q[i]
  <2> TAKE i \in 0..n
  <2>1. m + i \in 0..m + n /\ m + i - m = i
    BY <1>4
  <2>2. CASE i = 0
    <3>1. m + i = m /\ r[m] = p[m]
      BY <2>2, <1>4, <1>5
    <3> HIDE DEF r
    <3> QED BY <3>1, <2>2, <1>1, <1>2
  <2>3. CASE i # 0
    <3>1. ~(m + i <= m)
      BY <2>3, <1>4
    <3> QED BY <3>1, <2>1
  <2> QED BY <2>2, <2>3
<1>7. r = [i \in 0..m + n |-> r[i]] /\ r[0] = a /\ r[m + n] = c
  <2>1. r[0] = p[0] /\ r[m + n] = q[n]
    BY <1>4, <1>5, <1>6
  <2> QED BY <2>1, <1>1, <1>2
<1> HIDE DEF r
<1>8. ASSUME NEW i \in 1..m + n
      PROVE r[i] = Walk(r[i - 1], (s \o t)[i])
  <2>1. CASE i \in 1..m
    <3>1. i \in 0..m /\ i - 1 \in 0..m
      BY <2>1, <1>4
    <3>2. r[i] = p[i] /\ r[i - 1] = p[i - 1] /\ (s \o t)[i] = s[i]
      BY <3>1, <2>1, <1>3, <1>5
    <3> QED BY <3>2, <2>1, <1>1
  <2>2. CASE i \notin 1..m
    <3>1. PICK j \in 1..n : i = m + j
      <4>1. i - m \in 1..n /\ i = m + (i - m)
        BY <2>2, <1>4
      <4> QED BY <4>1
    <3>2. j \in 0..n /\ j - 1 \in 0..n /\ i - 1 = m + (j - 1)
      BY <3>1, <1>4
    <3>3. r[i] = q[j] /\ r[i - 1] = q[j - 1] /\ (s \o t)[i] = t[j]
      BY <3>1, <3>2, <1>3, <1>6
    <3> QED BY <3>3, <1>2
  <2> QED BY <2>1, <2>2
<1>9. ASSUME NEW i \in 1..m + n - 1
      PROVE Held((s \o t)[i]) \/ ~AskedAt(seat, r[i])
  <2>1. CASE i \in 1..m
    <3>1. i \in 0..m /\ r[i] = p[i] /\ (s \o t)[i] = s[i]
      BY <2>1, <1>3, <1>4, <1>5
    <3>2. CASE i = m
      <4>1. s # <<>> /\ t # <<>>
        BY <1>4, <2>1, <3>2
      <4>2. Held(s[m]) \/ ~AskedAt(seat, b)
        BY <4>1
      <4>3. r[i] = b
        BY <1>1, <3>1, <3>2
      <4> QED BY <3>1, <3>2, <4>2, <4>3
    <3>3. CASE i # m
      <4>1. i \in 1..m - 1
        BY <1>4, <2>1, <3>3
      <4> QED BY <1>1, <3>1, <4>1
    <3> QED BY <3>2, <3>3
  <2>2. CASE i \notin 1..m
    <3>1. PICK j \in 1..n - 1 : i = m + j
      <4>1. i - m \in 1..n - 1 /\ i = m + (i - m)
        BY <2>2, <1>4
      <4> QED BY <4>1
    <3>2. j \in 0..n /\ j \in 1..n
      BY <3>1, <1>4
    <3>3. r[i] = q[j] /\ (s \o t)[i] = t[j]
      BY <3>1, <3>2, <1>3, <1>6
    <3> QED BY <3>1, <3>3, <1>2
  <2> QED BY <2>1, <2>2
<1>10. PICK k : k = s \o t
  OBVIOUS
<1>11. Listed(k) /\ Len(k) = m + n /\ Len(k) - 1 = m + n - 1
  BY <1>3, <1>10
<1> HIDE DEF m, n
<1>12. r = [i \in 0..Len(k) |-> r[i]] /\ r[0] = a /\ r[Len(k)] = c
  BY <1>7, <1>11
<1>13. \A i \in 1..Len(k) : r[i] = Walk(r[i - 1], k[i])
  BY <1>8, <1>10, <1>11
<1>14. ASSUME NEW i \in 1..Len(k) - 1
       PROVE Held(k[i]) \/ ~AskedAt(seat, r[i])
  <2>1. i \in 1..m + n - 1
    BY <1>11
  <2> QED BY <1>9, <1>10, <2>1
<1>15. HushedWay(seat, a, c, k)
  BY <1>11, <1>12, <1>13, <1>14 DEF HushedWay
<1> QED BY <1>10, <1>15

\* A batch is read at one go.
LEMMA HushedBatch ==
  ASSUME NEW seat, NEW a, NEW b, NEW bodies, Way(a, b, bodies),
         \A i \in 1..Len(bodies) - 1 : Held(bodies[i])
  PROVE HushedWay(seat, a, b, bodies)
BY DEF Way, HushedWay

\* And so is a body by itself.
LEMMA HushedOne ==
  ASSUME NEW seat, NEW a, NEW b, NEW x, Way(a, b, <<x>>)
  PROVE HushedWay(seat, a, b, <<x>>)
<1>1. \A i \in 1..Len(<<x>>) - 1 : FALSE
  OBVIOUS
<1>2. PICK k : k = <<x>>
  OBVIOUS
<1>3. Way(a, b, k) /\ \A i \in 1..Len(k) - 1 : Held(k[i])
  BY <1>1, <1>2
<1> QED BY <1>2, <1>3, HushedBatch

-----------------------------------------------------------------------------
(* The room as a mirror has it. *)

RoomDraft ==
  [spent |-> spent, taken |-> taken, bans |-> bans, picks |-> picks, awaiting |-> awaiting,
   pending |-> pending, arranged |-> IF D!ArrangedBoth THEN arranged ELSE NobodyArranged,
   entries |-> entries]

RoomBoard(seat) ==
  [open |-> TRUE, prompt |-> Half(asked, home), side |-> SideOf(seat), index |-> index,
   turns |-> turns, capped |-> FALSE, read |-> Len(watched)]

FoughtRecord ==
  [battle : Nat, side : {"ally", "enemy"}, winner : {"ally", "enemy", "none"}]

\* The same battles, from the client's half.
Tallied(seat, list, battles) ==
  /\ list \in Seq(FoughtRecord)
  /\ Len(list) = Len(battles)
  /\ \A i \in 1..Len(battles) :
       /\ Mine(list[i]) <=> battles[i].winner = seat
       /\ Theirs(list[i]) <=> battles[i].winner = Other(seat)

\* Where the room is.
Agree(seat, st) ==
  IF Finished THEN st.closed \/ OverBy(st.fought)
  ELSE /\ ~st.closed
       /\ Tallied(seat, st.fought, played)
       /\ st.draft = RoomDraft
       /\ IF fight THEN st.board = RoomBoard(seat)
          ELSE st.board.prompt = "none" /\ st.board.read = Len(watched)

Whole(bodies) == bodies # <<>> => ~bodies[Len(bodies)].more

\* What a step of the room writes to a seat leads to where the room is then, and asks the
\* seat for nothing on the way if the match goes on.
Arrives(seat, st, came) ==
  /\ \E c : /\ Agree(seat, c)' /\ Way(st, c, Written(seat, came))
            /\ Finished' \/ HushedWay(seat, st, c, Written(seat, came))
  /\ Whole(Written(seat, came))
  /\ Written(seat, came) = <<>> => asked' = asked

\* What a battle comes to is under the cap, at the cap, or won.
LEMMA SettlingsCap ==
  ASSUME NEW t \in Nat, NEW o \in Settlings(t)
  PROVE /\ o.asked # "none" => o.turns <= TurnCap /\ o.winner = "none" /\ ~o.capped
        /\ o.capped => o.turns > TurnCap /\ o.winner = "none"
<1>1. \/ \E k \in 0..MaxSkips, w \in Seat \cup {"none"} :
           o = [turns |-> t + k, asked |-> "none", capped |-> FALSE, winner |-> w]
      \/ \E k \in { n \in 0..MaxSkips : t + n + 1 <= TurnCap }, s \in Seat :
           o = [turns |-> t + k + 1, asked |-> s, capped |-> FALSE, winner |-> "none"]
      \/ \E k \in { n \in 0..MaxSkips : t + n + 1 > TurnCap } :
           o = [turns |-> t + k + 1, asked |-> "none", capped |-> TRUE, winner |-> "none"]
  BY DEF Settlings
<1> QED BY <1>1

\* A draft that is done is over for a mirror that has it.
LEMMA DoneIsOver ==
  /\ D!Done => DraftOver(RoomDraft)
  /\ D!Done' => DraftOver(RoomDraft')
BY DEF D!Done, D!Picked, D!ArrangedBoth, D!HasArranged, DraftOver, RoomDraft, Seat

\* A mirror is not asked just before a battle starts.
LEMMA BeforeStart ==
  ASSUME IInv', ~Finished', fight', NEW seat \in Seat, NEW mid, mid.board.prompt = "none",
         NEW y, y.kind = "start", NEW c, c = Walk(mid, y), Agree(seat, c)'
  PROVE ~AskedAt(seat, mid)
<1>1. c.draft = mid.draft
  BY DEF Walk, Opens
<1>2. c.draft = RoomDraft'
  BY DEF Agree
<1>3. Drafts => D!Done'
  BY DEF IInv, Fights
<1>4. Drafts => DraftOver(mid.draft)
  BY <1>1, <1>2, <1>3, DoneIsOver
<1>5. ~DraftAsked(seat, mid.draft)
  BY <1>4 DEF DraftAsked, DraftOver, PickedOut
<1> QED BY <1>5 DEF AskedAt, TurnAsked

\* One and one are two.
LEMMA Pair ==
  ASSUME NEW x, NEW y
  PROVE <<x>> \o <<y>> = <<x, y>> /\ <<x>> \o <<>> = <<x>>
<1> DEFINE S == {x, y}
<1>1. <<x>> \in Seq(S) /\ <<y>> \in Seq(S) /\ <<x, y>> \in Seq(S) /\ x \in S /\ y \in S
  OBVIOUS
<1>2. Len(<<x>>) = 1 /\ Len(<<y>>) = 1 /\ Len(<<x, y>>) = 2
  OBVIOUS
<1>3. \A i \in 1..2 : <<x, y>>[i] = IF i <= 1 THEN <<x>>[i] ELSE <<y>>[i - 1]
  <2> TAKE i \in 1..2
  <2>1. i = 1 \/ i = 2
    OBVIOUS
  <2> QED BY <2>1
<1> DEFINE a == <<x>>
           b == <<y>>
           c == <<x, y>>
           d == a \o b
<1> HIDE DEF S
<1>5. \A i \in 1..2 : c[i] = IF i <= 1 THEN a[i] ELSE b[i - 1]
  BY <1>3
<1>6. Len(a) = 1 /\ Len(b) = 1 /\ Len(c) = 2
  BY <1>2
<1>7. a \in Seq(S) /\ b \in Seq(S) /\ c \in Seq(S)
  BY <1>1
<1> HIDE DEF a, b, c
<1>8. /\ d \in Seq(S) /\ Len(d) = 2
      /\ \A i \in 1..2 : d[i] = IF i <= 1 THEN a[i] ELSE b[i - 1]
  <2>1. /\ d \in Seq(S) /\ Len(d) = Len(a) + Len(b)
        /\ \A i \in 1..Len(a) + Len(b) : d[i] = IF i <= Len(a) THEN a[i] ELSE b[i - Len(a)]
    BY <1>7, ConcatProperties
  <2> HIDE DEF d
  <2> QED BY <1>6, <2>1
<1> HIDE DEF d
<1>9. d = c
  BY <1>5, <1>6, <1>7, <1>8, SeqEqual
<1> QED BY <1>1, <1>9 DEF a, b, c, d

\* What is behind a list in the list with one or two more.
LEMMA News ==
  ASSUME NEW S, NEW s \in Seq(S), NEW x \in S, NEW y \in S
  PROVE /\ SubSeq(s, Len(s) + 1, Len(s)) = <<>>
        /\ SubSeq(Append(s, x), Len(s) + 1, Len(Append(s, x))) = <<x>>
        /\ SubSeq(Append(Append(s, x), y), Len(s) + 1, Len(Append(Append(s, x), y))) = <<x, y>>
<1>1. SubSeq(s, Len(s) + 1, Len(s)) = <<>>
  BY SubSeqEmpty
<1>2. SubSeq(Append(s, x), Len(s) + 1, Len(Append(s, x))) = <<x>>
  <2> DEFINE t == Append(s, x)
  <2>1. t \in Seq(S) /\ Len(s) \in Nat /\ Len(t) = Len(s) + 1 /\ t[Len(s) + 1] = x
    OBVIOUS
  <2> HIDE DEF t
  <2>2. SubSeq(t, Len(s) + 1, Len(s) + 1) = <<t[Len(s) + 1]>> \o SubSeq(t, Len(s) + 2, Len(s) + 1)
    BY <2>1, SubSeqRecursiveFirst
  <2>3. SubSeq(t, Len(s) + 2, Len(s) + 1) = <<>>
    BY <2>1, SubSeqEmpty
  <2>4. <<x>> \o <<>> = <<x>>
    OBVIOUS
  <2>5. SubSeq(t, Len(s) + 1, Len(t)) = <<x>>
    BY <2>1, <2>2, <2>3, <2>4
  <2> QED BY <2>5 DEF t
<1>3. SubSeq(Append(Append(s, x), y), Len(s) + 1, Len(Append(Append(s, x), y))) = <<x, y>>
  <2> DEFINE t == Append(Append(s, x), y)
  <2>1. /\ t \in Seq(S) /\ Len(s) \in Nat /\ Len(t) = Len(s) + 2
        /\ t[Len(s) + 1] = x /\ t[Len(s) + 2] = y
    <3> DEFINE u == Append(s, x)
    <3>1. u \in Seq(S) /\ Len(s) \in Nat /\ Len(u) = Len(s) + 1 /\ u[Len(s) + 1] = x
      OBVIOUS
    <3>2. t = Append(u, y)
      OBVIOUS
    <3> HIDE DEF u, t
    <3> QED BY <3>1, <3>2
  <2> HIDE DEF t
  <2>2. SubSeq(t, Len(s) + 1, Len(s) + 2) = <<t[Len(s) + 1]>> \o SubSeq(t, Len(s) + 2, Len(s) + 2)
    BY <2>1, SubSeqRecursiveFirst
  <2>3. SubSeq(t, Len(s) + 2, Len(s) + 2) = <<t[Len(s) + 2]>> \o SubSeq(t, Len(s) + 3, Len(s) + 2)
    BY <2>1, SubSeqRecursiveFirst
  <2>4. SubSeq(t, Len(s) + 3, Len(s) + 2) = <<>>
    BY <2>1, SubSeqEmpty
  <2>5. <<y>> \o <<>> = <<y>> /\ <<x>> \o <<y>> = <<x, y>>
    BY Pair
  <2>6. SubSeq(t, Len(s) + 1, Len(t)) = <<x, y>>
    BY <2>1, <2>2, <2>3, <2>4, <2>5
  <2> QED BY <2>6 DEF t
<1> QED BY <1>1, <1>2, <1>3

\* What is written to a seat, body by body.
LEMMA WrittenBodies ==
  ASSUME NEW seat \in Seat, NEW came, sent \in [Seat -> Seq(Body)]
  PROVE /\ sent'[seat] = sent[seat] => Written(seat, came) = <<>>
        /\ \A x \in Body : sent'[seat] = Append(sent[seat], x) =>
             Written(seat, came) = Filled(x, came)
        /\ \A x, y \in Body : sent'[seat] = Append(Append(sent[seat], x), y) =>
             Written(seat, came) = Filled(x, came) \o Filled(y, came)
<1> DEFINE s == sent[seat]
           news == SubSeq(sent'[seat], Len(sent[seat]) + 1, Len(sent'[seat]))
<1>1. s \in Seq(Body)
  OBVIOUS
<1>2. ASSUME sent'[seat] = s
      PROVE Written(seat, came) = <<>>
  <2>1. ClosedBody \in Body
    BY DEF ClosedBody, Body
  <2>2. news = <<>>
    BY <1>1, <1>2, <2>1, News
  <2> HIDE DEF news
  <2> QED BY <2>2 DEF Written, news
<1>3. ASSUME NEW x \in Body, sent'[seat] = Append(s, x)
      PROVE Written(seat, came) = Filled(x, came)
  <2>1. news = <<x>>
    BY <1>1, <1>3, News
  <2>2. Written(seat, came) = IF news = <<>> THEN <<>>
                              ELSE IF Len(news) = 1 THEN Filled(news[1], came)
                              ELSE Filled(news[1], came) \o Filled(news[2], came)
    BY DEF Written
  <2> HIDE DEF news
  <2> QED BY <2>1, <2>2
<1>4. ASSUME NEW x \in Body, NEW y \in Body, sent'[seat] = Append(Append(s, x), y)
      PROVE Written(seat, came) = Filled(x, came) \o Filled(y, came)
  <2>1. news = <<x, y>>
    BY <1>1, <1>4, News
  <2>2. Written(seat, came) = IF news = <<>> THEN <<>>
                              ELSE IF Len(news) = 1 THEN Filled(news[1], came)
                              ELSE Filled(news[1], came) \o Filled(news[2], came)
    BY DEF Written
  <2> HIDE DEF news
  <2> QED BY <2>1, <2>2
<1> HIDE DEF s, news
<1> QED BY <1>2, <1>3, <1>4 DEF s

Closing == [Blank EXCEPT !.kind = "closed"]

\* The four kinds of body, as they are written.
LEMMA FilledBodies ==
  ASSUME NEW came
  PROVE /\ \A i : Filled(TurnBody(i), came) = <<came>>
        /\ \A n : Filled(DraftedBody(n), came) = Decided(n)
        /\ Filled(ClosedBody, came) = <<Closing>>
BY DEF Closing, Filled, TurnBody, DraftedBody, ClosedBody

LEMMA FilledStart ==
  ASSUME NEW came, NEW i, NEW side, NEW x, x = Opened(side)
  PROVE Filled(StartBody(i, side), came) = <<x>>
BY DEF Filled, StartBody

\* A walk of one and of two.
LEMMA WalkOne ==
  ASSUME NEW a, NEW x, NEW b, b = Walk(a, x), Proper(b)
  PROVE Way(a, b, <<x>>)
<1>1. Way(a, a, <<>>) /\ Append(<<>>, x) = <<x>>
  BY NoWay
<1>2. Way(a, b, Append(<<>>, x))
  BY <1>1, WayOn
<1> QED BY <1>1, <1>2

LEMMA WalkTwo ==
  ASSUME NEW a, NEW x, NEW b, b = Walk(a, x), Proper(b),
         NEW y, NEW c, c = Walk(b, y), Proper(c)
  PROVE Way(a, c, <<x>> \o <<y>>) /\ <<x>> \o <<y>> = <<x, y>>
<1>1. Way(a, b, <<x>>) /\ Way(b, c, <<y>>)
  BY WalkOne
<1>2. Way(a, c, <<x>> \o <<y>>)
  BY <1>1, WayThrough
<1> QED BY <1>2, Pair

-----------------------------------------------------------------------------
(* The score, from either side of the board. *)

\* One battle more.
LEMMA TallyOneMore ==
  ASSUME NEW seat \in Seat, NEW list, NEW battles \in Seq(BattleResult),
         Tallied(seat, list, battles),
         NEW b \in BattleResult, NEW h \in Seat, NEW i \in Nat,
         NEW one, one = [battle |-> i, side |-> SideUnder(h, seat), winner |-> Half(b.winner, h)]
  PROVE Tallied(seat, Append(list, one), Append(battles, b))
<1>1. b.winner \in Seat \cup {"none"}
  BY DEF BattleResult
<1>2. Seat = {"host", "guest"} /\ Other("host") = "guest" /\ Other("guest") = "host"
  BY DEF Seat, D!Seat, Other, D!Other
<1>3. one \in FoughtRecord
  <2>1. SideUnder(h, seat) \in {"ally", "enemy"}
    BY Sides
  <2>2. Half(b.winner, h) \in {"ally", "enemy", "none"}
    BY Sides DEF Half
  <2> QED BY <2>1, <2>2 DEF FoughtRecord
<1>4. (Mine(one) <=> b.winner = seat) /\ (Theirs(one) <=> b.winner = Other(seat))
  <2>1. CASE b.winner = "none"
    BY <2>1, <1>2 DEF Mine, Theirs, Half
  <2>2. CASE b.winner = "host"
    BY <2>2, <1>2 DEF Mine, Theirs, Half, SideUnder
  <2>3. CASE b.winner = "guest"
    BY <2>3, <1>2 DEF Mine, Theirs, Half, SideUnder
  <2> QED BY <1>1, <1>2, <2>1, <2>2, <2>3
<1> DEFINE longer == Append(list, one)
           more == Append(battles, b)
<1>5. /\ list \in Seq(FoughtRecord) /\ Len(list) = Len(battles) /\ Len(battles) \in Nat
      /\ \A j \in 1..Len(battles) :
           /\ Mine(list[j]) <=> battles[j].winner = seat
           /\ Theirs(list[j]) <=> battles[j].winner = Other(seat)
  BY DEF Tallied
<1>6. /\ longer \in Seq(FoughtRecord) /\ Len(longer) = Len(battles) + 1 /\ Len(more) = Len(battles) + 1
      /\ longer[Len(battles) + 1] = one /\ more[Len(battles) + 1] = b
      /\ \A j \in 1..Len(battles) : longer[j] = list[j] /\ more[j] = battles[j]
  <2>1. /\ longer \in Seq(FoughtRecord) /\ Len(longer) = Len(list) + 1
        /\ longer[Len(list) + 1] = one /\ \A j \in 1..Len(list) : longer[j] = list[j]
    BY <1>3, <1>5
  <2>2. /\ Len(more) = Len(battles) + 1
        /\ more[Len(battles) + 1] = b /\ \A j \in 1..Len(battles) : more[j] = battles[j]
    OBVIOUS
  <2> HIDE DEF longer, more
  <2> QED BY <1>5, <2>1, <2>2
<1> HIDE DEF longer, more
<1>7. \A j \in 1..Len(more) :
        /\ Mine(longer[j]) <=> more[j].winner = seat
        /\ Theirs(longer[j]) <=> more[j].winner = Other(seat)
  <2> TAKE j \in 1..Len(more)
  <2>1. j \in 1..Len(battles) \/ j = Len(battles) + 1
    BY <1>5, <1>6
  <2>2. CASE j \in 1..Len(battles)
    <3>1. longer[j] = list[j] /\ more[j] = battles[j]
      BY <2>2, <1>6
    <3> QED BY <2>2, <3>1, <1>5
  <2>3. CASE j = Len(battles) + 1
    <3>1. longer[j] = one /\ more[j] = b
      BY <2>3, <1>6
    <3> QED BY <3>1, <1>4
  <2> QED BY <2>1, <2>2, <2>3
<1> QED BY <1>6, <1>7 DEF Tallied, longer, more

\* No battles, the same from both sides.
LEMMA TallyNone ==
  ASSUME NEW seat \in Seat
  PROVE Tallied(seat, <<>>, <<>>) /\ ~OverBy(<<>>)
<1>1. <<>> \in Seq(FoughtRecord) /\ Len(<<>>) = 0 /\ DOMAIN <<>> = {}
  OBVIOUS
<1>2. Tallied(seat, <<>>, <<>>)
  BY <1>1 DEF Tallied
<1>3. { i \in DOMAIN <<>> : Mine(<<>>[i]) } = {} /\ { i \in DOMAIN <<>> : Theirs(<<>>[i]) } = {}
  BY <1>1
<1>4. Count(<<>>, Mine) = 0 /\ Count(<<>>, Theirs) = 0
  BY <1>3, FS_EmptySet DEF Count
<1>5. ~OverBy(<<>>)
  BY <1>1, <1>4, Halves DEF OverBy
<1> QED BY <1>2, <1>5

\* Mirror.over's score is the room's.
LEMMA SameScore ==
  ASSUME NEW seat \in Seat, NEW list, NEW battles \in Seq(BattleResult),
         Tallied(seat, list, battles), NEW wins,
         \A s \in Seat : wins[s] = Cardinality({ i \in DOMAIN battles : battles[i].winner = s })
  PROVE OverBy(list) <=> SeriesOver(battles, wins)
<1>1. /\ list \in Seq(FoughtRecord) /\ Len(list) = Len(battles)
      /\ \A j \in 1..Len(battles) :
           /\ Mine(list[j]) <=> battles[j].winner = seat
           /\ Theirs(list[j]) <=> battles[j].winner = Other(seat)
  BY DEF Tallied
<1>2. DOMAIN list = 1..Len(battles) /\ DOMAIN battles = 1..Len(battles)
  BY <1>1
<1>3. { i \in DOMAIN list : Mine(list[i]) } = { i \in DOMAIN battles : battles[i].winner = seat }
  BY <1>1, <1>2
<1>4. { i \in DOMAIN list : Theirs(list[i]) }
        = { i \in DOMAIN battles : battles[i].winner = Other(seat) }
  BY <1>1, <1>2
<1>5. Other(seat) \in Seat /\ \A s \in Seat : s = seat \/ s = Other(seat)
  BY DEF Seat, D!Seat, Other, D!Other
<1>6. Count(list, Mine) = wins[seat] /\ Count(list, Theirs) = wins[Other(seat)]
  BY <1>3, <1>4, <1>5 DEF Count
<1> QED BY <1>1, <1>5, <1>6 DEF OverBy, SeriesOver

-----------------------------------------------------------------------------
(* What each step of the room writes, and where it leads. *)

\* What the invariant of the room says while a battle is open.
LEMMA InABattle ==
  ASSUME IInv, fight
  PROVE /\ ~Finished /\ home \in Seat /\ index \in Nat /\ turns \in Nat
        /\ Drafts => D!Done
        /\ asked \in Seat
        /\ Len(watched) \in Nat /\ watched \in Seq(Body)
        /\ sent \in [Seat -> Seq(Body)]
        /\ played \in Seq(BattleResult)
<1>1. ~Finished /\ home \in Seat /\ (Drafts => D!Done) /\ asked \in Seat
  BY DEF IInv, Fights, TypeOK
<1>2. /\ index \in Nat /\ turns \in Nat /\ watched \in Seq(Body)
      /\ sent \in [Seat -> Seq(Body)] /\ played \in Seq(BattleResult)
  BY DEF IInv, TypeOK
<1> QED BY <1>1, <1>2

\* The fields of a board that was moved on.
LEMMA BoardMoves ==
  ASSUME NEW open, NEW side, NEW i, NEW was, NEW t, NEW c, NEW n,
         NEW r, r = [open |-> open, prompt |-> was, side |-> side, index |-> i, turns |-> t,
                     capped |-> c, read |-> n],
         NEW asks, NEW total, NEW cap, NEW m,
         NEW b, b = [r EXCEPT !.turns = total, !.prompt = asks, !.read = m, !.capped = cap]
  PROVE b = [open |-> open, prompt |-> asks, side |-> side, index |-> i, turns |-> total,
             capped |-> cap, read |-> m]
OBVIOUS

\* A mirror that has the room's battle, behind a decision it is sent.
LEMMA BoardWalked ==
  ASSUME NEW seat, NEW st, st.board = RoomBoard(seat), turns \in Nat, Len(watched) \in Nat,
         NEW total \in Nat, NEW came, came.walked = total - turns, NEW b, b = Ahead(st, came)
  PROVE \E cap \in BOOLEAN :
          /\ cap <=> total > TurnCap
          /\ b = [open |-> TRUE, prompt |-> came.asks, side |-> SideOf(seat), index |-> index,
                  turns |-> total, capped |-> cap, read |-> Len(watched) + 1]
<1>1. st.board = [open |-> TRUE, prompt |-> Half(asked, home), side |-> SideOf(seat),
                  index |-> index, turns |-> turns, capped |-> FALSE, read |-> Len(watched)]
  BY DEF RoomBoard
<1>2. PICK asks, side, i, t, n :
        asks = Half(asked, home) /\ side = SideOf(seat) /\ i = index /\ t = turns /\ n = Len(watched)
  OBVIOUS
<1>3. /\ st.board = [open |-> TRUE, prompt |-> asks, side |-> side, index |-> i, turns |-> t,
                     capped |-> FALSE, read |-> n]
      /\ n \in Nat /\ t \in Nat /\ came.walked = total - t
  BY <1>1, <1>2
<1>4. st.board.turns = t /\ st.board.capped = FALSE /\ st.board.read = n
  BY <1>3
<1>5. t + (total - t) = total
  BY <1>3
<1>6. st.board.turns + came.walked = total
  BY <1>3, <1>4, <1>5
<1> DEFINE over == st.board.capped \/ CapOf(st.board.turns + came.walked)
<1>7. b = [st.board EXCEPT !.turns = st.board.turns + came.walked, !.prompt = came.asks,
                           !.read = st.board.read + 1, !.capped = over]
  BY DEF Ahead
<1>8. over <=> total > TurnCap
  BY <1>4, <1>6 DEF CapOf
<1>9. over \in BOOLEAN
  OBVIOUS
<1> HIDE DEF over
<1>10. PICK cap \in BOOLEAN : cap = over
  BY <1>9
<1>11. b = [open |-> TRUE, prompt |-> came.asks, side |-> side, index |-> i,
            turns |-> total, capped |-> cap, read |-> n + 1]
  <2>1. PICK r : r = st.board
    OBVIOUS
  <2>2. r = [open |-> TRUE, prompt |-> asks, side |-> side, index |-> i, turns |-> t,
             capped |-> FALSE, read |-> n]
    BY <1>3, <2>1
  <2>3. b = [r EXCEPT !.turns = total, !.prompt = came.asks, !.read = n + 1, !.capped = cap]
    BY <1>4, <1>6, <1>7, <1>10, <2>1
  <2> QED BY <2>2, <2>3, BoardMoves
<1>12. cap <=> total > TurnCap
  BY <1>8, <1>10
<1> WITNESS cap \in BOOLEAN
<1> QED BY <1>2, <1>11, <1>12

\* A decision that opens no new battle: the room asks for the next.
LEMMA TurnGoesOn ==
  ASSUME IInv, IInv', fight, NEW seat \in Seat, NEW to, Agree(seat, to),
         NEW came \in CameTo, NEW o \in Settlings(turns), o.asked # "none",
         turns' = o.turns, asked' = o.asked,
         sent' = Told(TurnBody(index)), watched' = Append(watched, TurnBody(index)),
         UNCHANGED <<seated, played, standing, result, fight, index, home, draftCursor, drafting>>
  PROVE Arrives(seat, to, came) /\ Written(seat, came) # <<>>
<1>1. /\ ~Finished /\ home \in Seat /\ index \in Nat /\ turns \in Nat
      /\ Drafts => D!Done
      /\ Len(watched) \in Nat /\ watched \in Seq(Body) /\ sent \in [Seat -> Seq(Body)]
  BY InABattle
<1>2. o.turns \in Nat /\ o.turns <= TurnCap
  BY <1>1, SettlingsType, SettlingsCap
<1>3. came = [Blank EXCEPT !.kind = "turn", !.battle = index, !.walked = o.turns - turns,
                           !.asks = Half(asked', home)]
  BY DEF CameTo
<1>4. /\ came.kind = "turn" /\ came.walked = o.turns - turns /\ came.asks = Half(asked', home)
      /\ came.over = FALSE /\ came.more = FALSE
  BY <1>3 DEF Blank
<1>5. /\ ~to.closed /\ Tallied(seat, to.fought, played) /\ to.draft = RoomDraft
      /\ to.board = RoomBoard(seat)
  BY <1>1 DEF Agree
<1>6. PICK b : b = Ahead(to, came)
  OBVIOUS
<1>7. b = [open |-> TRUE, prompt |-> Half(asked', home), side |-> SideOf(seat),
           index |-> index, turns |-> o.turns, capped |-> FALSE, read |-> Len(watched) + 1]
  <2>1. PICK cap \in BOOLEAN :
          /\ cap <=> o.turns > TurnCap
          /\ b = [open |-> TRUE, prompt |-> came.asks, side |-> SideOf(seat), index |-> index,
                  turns |-> o.turns, capped |-> cap, read |-> Len(watched) + 1]
    BY <1>1, <1>2, <1>4, <1>5, <1>6, BoardWalked
  <2>2. cap = FALSE
    BY <1>2, <2>1, RoomAssumption
  <2> QED BY <1>4, <2>1, <2>2
<1>8. b.capped = FALSE
  BY <1>7
<1>9. PICK c : c = Walk(to, came)
  OBVIOUS
<1>10. c = [board |-> b, fought |-> to.fought, closed |-> to.closed, draft |-> to.draft]
  <2>1. c = Goes(to, came)
    BY <1>4, <1>6, <1>8, <1>9 DEF Walk
  <2> QED BY <2>1, <1>6 DEF Goes
<1>11. c.board = RoomBoard(seat)'
  <2>1. Len(watched') = Len(watched) + 1 /\ home' = home /\ index' = index /\ turns' = o.turns
    BY <1>1
  <2> QED BY <1>7, <1>10, <2>1 DEF RoomBoard, SideOf
<1>12. c.draft = RoomDraft'
  BY <1>5, <1>10 DEF RoomDraft, drafting, D!ArrangedBoth, D!HasArranged
<1>13. Agree(seat, c)'
  <2>1. ~c.closed /\ Tallied(seat, c.fought, played') /\ fight' = fight /\ ~Finished'
    BY <1>1, <1>5, <1>10 DEF Finished
  <2> QED BY <2>1, <1>11, <1>12 DEF Agree
<1>14. Proper(c)
  <2>1. Drafts => DraftOver(c.draft)
    BY <1>1, <1>5, <1>10, DoneIsOver
  <2> QED BY <2>1 DEF Proper
<1>15. Written(seat, came) = <<came>>
  <2>1. sent'[seat] = Append(sent[seat], TurnBody(index)) /\ TurnBody(index) \in Body
    BY <1>1, Bodies DEF Told
  <2>2. Written(seat, came) = Filled(TurnBody(index), came)
    BY <1>1, <2>1, WrittenBodies
  <2> QED BY <2>2, FilledBodies
<1>16. Way(to, c, Written(seat, came))
  BY <1>9, <1>14, <1>15, WalkOne
<1>17. Whole(Written(seat, came)) /\ Written(seat, came) # <<>>
  BY <1>4, <1>15 DEF Whole
<1>18. HushedWay(seat, to, c, Written(seat, came))
  BY <1>15, <1>16, HushedOne
<1> QED BY <1>13, <1>16, <1>17, <1>18 DEF Arrives

\* A battle that opens is the room's for a mirror that was told of it.
LEMMA StartAgrees ==
  ASSUME IInv, NEW seat \in Seat, NEW st, ~st.closed, Tallied(seat, st.fought, played'),
         st.draft = RoomDraft', ~Finished', Drafts => D!Done',
         NEW told, NEW record, NEW i \in Nat, Begin(i, told, record),
         record \in Seq(Body), st.board.read = Len(record), index' = i,
         NEW c, c = Walk(st, Opened(SideUnder(home', seat)))
  PROVE /\ Agree(seat, c)' /\ Proper(c) /\ home' \in Seat
        /\ sent'[seat] = Append(told[seat], StartBody(i, SideUnder(home', seat)))
<1>1. PICK o \in Openings : Begin(i, told, record)!(o)
  BY DEF Begin
<1>2. o \in Settlings(0) /\ o.asked # "none"
  BY DEF Openings
<1>3. o.turns <= TurnCap /\ o.turns \in Nat
  BY <1>2, SettlingsCap, SettlingsType
<1>4. /\ fight' = TRUE /\ home' = HomeFor(i) /\ turns' = o.turns
      /\ sent'[seat] = Append(told[seat], StartBody(i, SideUnder(home', seat)))
      /\ watched' = Append(record, StartBody(i, SideUnder(HomeFor(i), "host")))
  BY <1>1
<1> DEFINE body == Opened(SideUnder(home', seat))
           cap == turns' > TurnCap
<1>5. PICK x : x = body
  OBVIOUS
<1>6. /\ x.kind = "start" /\ x.battle = index' /\ x.side = SideUnder(home', seat)
      /\ x.walked = turns' /\ x.asks = Half(asked', home')
  BY <1>5 DEF Opened, Blank
<1> HIDE DEF body
<1>7. cap = FALSE
  BY <1>3, <1>4, RoomAssumption
<1>8. c = Opens(st, x)
  BY <1>5, <1>6 DEF Walk, body
<1>9. c = [board |-> [open |-> TRUE, prompt |-> Half(asked', home'), side |-> SideUnder(home', seat),
                      index |-> index', turns |-> turns', capped |-> cap,
                      read |-> Len(record) + 1],
           fought |-> st.fought, closed |-> st.closed, draft |-> st.draft]
  BY <1>6, <1>8 DEF Opens
<1> HIDE DEF cap
<1>10. Len(watched') = Len(record) + 1
  <2>1. StartBody(i, SideUnder(HomeFor(i), "host")) \in Body
    BY Sides, Bodies
  <2> QED BY <1>4, <2>1
<1>12. c.board = RoomBoard(seat)'
  <2>1. c.board = [open |-> TRUE, prompt |-> Half(asked', home'), side |-> SideUnder(home', seat),
                   index |-> index', turns |-> turns', capped |-> cap, read |-> Len(watched')]
    BY <1>9, <1>10
  <2>2. c.board = [open |-> TRUE, prompt |-> Half(asked', home'), side |-> SideUnder(home', seat),
                   index |-> index', turns |-> turns', capped |-> FALSE, read |-> Len(watched')]
    BY <1>7, <2>1
  <2> QED BY <2>2 DEF RoomBoard, SideOf
<1>13. Agree(seat, c)'
  BY <1>4, <1>9, <1>12 DEF Agree
<1>14. Proper(c)
  <2>1. Drafts => DraftOver(c.draft)
    BY <1>9, DoneIsOver
  <2> QED BY <2>1 DEF Proper
<1>15. home' \in Seat
  BY <1>4, Homes
<1> QED BY <1>4, <1>13, <1>14, <1>15

\* A decision that ends a battle: the series ends, drafts again or goes on.
LEMMA TurnCloses ==
  ASSUME IInv, IInv', fight, NEW seat \in Seat, NEW to, Agree(seat, to),
         NEW came \in CameTo, NEW o \in Settlings(turns), o.asked = "none",
         Close(o, Told(TurnBody(index)), Append(watched, TurnBody(index)))
  PROVE Arrives(seat, to, came) /\ Written(seat, came) # <<>>
<1> DEFINE told == Told(TurnBody(index))
           record == Append(watched, TurnBody(index))
           bt == [battle |-> index, home |-> home, winner |-> o.winner, capped |-> o.capped]
<1>1. /\ ~Finished /\ home \in Seat /\ index \in Nat /\ turns \in Nat
      /\ Len(watched) \in Nat /\ watched \in Seq(Body) /\ sent \in [Seat -> Seq(Body)]
      /\ played \in Seq(BattleResult) /\ (Drafts => D!Done)
  BY InABattle
<1>2. o.turns \in Nat /\ o.winner \in Seat \cup {"none"} /\ o.capped \in BOOLEAN
  BY <1>1, SettlingsType
<1>3. /\ TurnBody(index) \in Body /\ told \in [Seat -> Seq(Body)]
      /\ told[seat] = Append(sent[seat], TurnBody(index))
      /\ record \in Seq(Body) /\ Len(record) = Len(watched) + 1
  BY <1>1, Bodies DEF Told
<1>4. /\ played' = Append(played, bt) /\ bt \in BattleResult /\ played' \in Seq(BattleResult)
      /\ \A s \in Seat : standing'[s] =
           Cardinality({ i \in DOMAIN played' : played'[i].winner = s })
  BY <1>1, <1>2 DEF Close, BattleResult, IInv, TypeOK, VerdictIsTheScore
<1>5. played' # played /\ played'[Len(played')] = bt
  <2> HIDE DEF bt
  <2>1. Len(played') = Len(played) + 1 /\ played'[Len(played) + 1] = bt /\ Len(played) \in Nat
    BY <1>1, <1>4
  <2> QED BY <2>1
<1>6. PICK p \in Ended :
        came = [Blank EXCEPT !.kind = "turn", !.battle = index, !.walked = p.turns - turns,
                             !.over = ~p.capped, !.winner = Half(p.winner, home)]
  BY <1>5 DEF CameTo
<1>7. /\ p \in Settlings(turns) /\ p.asked = "none" /\ p.capped = o.capped /\ p.winner = o.winner
      /\ p.turns \in Nat /\ p.capped \in BOOLEAN
  <2>1. bt.capped = o.capped /\ bt.winner = o.winner
    OBVIOUS
  <2>2. p \in Settlings(turns) /\ p.asked = "none" /\ p.capped = bt.capped /\ p.winner = bt.winner
    <3> HIDE DEF bt
    <3> QED BY <1>5 DEF Ended
  <2> HIDE DEF bt
  <2> QED BY <1>1, <2>1, <2>2, SettlingsType
<1> DEFINE ended == ~p.capped
<1>8. ended \in BOOLEAN /\ (ended <=> ~p.capped)
  OBVIOUS
<1>9. /\ came.kind = "turn" /\ came.walked = p.turns - turns /\ came.over = ended
      /\ came.winner = Half(o.winner, home) /\ came.more = FALSE
  <2>1. came = [Blank EXCEPT !.kind = "turn", !.battle = index, !.walked = p.turns - turns,
                             !.over = ended, !.winner = Half(o.winner, home)]
    BY <1>6, <1>7
  <2> HIDE DEF ended, bt
  <2> QED BY <2>1 DEF Blank
<1> HIDE DEF ended, bt, told, record
<1>10. /\ ~to.closed /\ Tallied(seat, to.fought, played) /\ to.draft = RoomDraft
       /\ to.board = RoomBoard(seat)
  BY <1>1 DEF Agree
<1>11. PICK b : b = Ahead(to, came)
  OBVIOUS
<1>12. PICK cap \in BOOLEAN :
         /\ cap <=> p.turns > TurnCap
         /\ b = [open |-> TRUE, prompt |-> came.asks, side |-> SideOf(seat), index |-> index,
                 turns |-> p.turns, capped |-> cap, read |-> Len(watched) + 1]
  BY <1>1, <1>7, <1>9, <1>10, <1>11, BoardWalked
<1>13. came.over \/ b.capped
  BY <1>7, <1>8, <1>9, <1>12, SettlingsCap, <1>1
<1>14. PICK one : one = [battle |-> index, side |-> SideUnder(home, seat),
                         winner |-> Half(bt.winner, home)]
  OBVIOUS
<1>15. One(to, came) = one
  <2>1. bt.winner = o.winner
    BY DEF bt
  <2>2. to.board.index = index /\ to.board.side = SideUnder(home, seat)
    BY <1>10 DEF RoomBoard, SideOf
  <2> QED BY <1>9, <1>14, <2>1, <2>2 DEF One
<1>16. PICK s1 : s1 = Walk(to, came)
  OBVIOUS
<1>17. s1 = [board |-> [b EXCEPT !.prompt = "none"], fought |-> Append(to.fought, one),
             closed |-> to.closed,
             draft |-> IF Drafts /\ ~OverBy(Append(to.fought, one)) THEN NewDraft ELSE to.draft]
  <2>1. s1 = Settles(to, came)
    BY <1>9, <1>11, <1>13, <1>16 DEF Walk
  <2> QED BY <2>1, <1>11, <1>15 DEF Settles
<1>18. s1.fought = Append(to.fought, one) /\ ~s1.closed
       /\ s1.draft = IF Drafts /\ ~OverBy(s1.fought) THEN NewDraft ELSE to.draft
  BY <1>10, <1>17
<1>19. s1.board.prompt = "none" /\ s1.board.read = Len(watched) + 1
  <2>1. PICK x : x = s1.board
    OBVIOUS
  <2>2. x = [b EXCEPT !.prompt = "none"]
    BY <1>17, <2>1
  <2>3. x.prompt = "none" /\ x.read = Len(watched) + 1
    BY <1>12, <2>2
  <2> QED BY <2>1, <2>3
<1>20. Tallied(seat, s1.fought, played')
  BY <1>1, <1>4, <1>10, <1>14, <1>18, TallyOneMore
<1>21. OverBy(s1.fought) <=> SeriesOver(played', standing')
  BY <1>4, <1>20, SameScore
<1>22. Proper(s1)
  BY <1>19 DEF Proper
<1>23. Way(to, s1, <<came>>)
  BY <1>16, <1>22, WalkOne
<1>24. CASE SeriesOver(played', standing')
  <2>1. Finished' /\ asked' = "none" /\ sent' = told
    BY <1>4, <1>24 DEF Close, Finished, told, bt
  <2>2. Agree(seat, s1)'
    BY <1>21, <1>24, <2>1 DEF Agree
  <2>3. Written(seat, came) = <<came>>
    BY <1>1, <1>3, <2>1, WrittenBodies, FilledBodies
  <2> QED BY <1>9, <1>23, <2>1, <2>2, <2>3 DEF Arrives, Whole
<1>25. CASE ~SeriesOver(played', standing') /\ Drafts
  <2>1. /\ result' = result /\ fight' = FALSE /\ sent' = told /\ watched' = record /\ D!Renew
    BY <1>4, <1>25 DEF Close, told, record, bt
  <2>2. s1.draft = RoomDraft'
    <3>1. s1.draft = NewDraft
      BY <1>18, <1>21, <1>25
    <3>2. ~D!ArrangedBoth'
      BY <2>1 DEF D!Renew, D!ArrangedBoth, D!HasArranged, D!Seat
    <3>3. RoomDraft' = NewDraft
      BY <2>1, <3>2 DEF RoomDraft, NewDraft, D!Renew, Seat
    <3> QED BY <3>1, <3>3
  <2>3. ~Finished'
    BY <1>1, <2>1 DEF Finished
  <2>4. Agree(seat, s1)'
    BY <1>3, <1>18, <1>19, <1>20, <2>1, <2>2, <2>3 DEF Agree
  <2>5. Written(seat, came) = <<came>>
    BY <1>1, <1>3, <2>1, WrittenBodies, FilledBodies
  <2>6. HushedWay(seat, to, s1, <<came>>)
    BY <1>23, HushedOne
  <2> QED BY <1>9, <1>23, <2>4, <2>5, <2>6 DEF Arrives, Whole
<1>26. CASE ~SeriesOver(played', standing') /\ ~Drafts
  <2>1. /\ result' = result /\ Begin(index + 1, told, record) /\ UNCHANGED drafting
    BY <1>4, <1>26 DEF Close, told, record, bt
  <2>2. index' = index + 1 /\ ~Finished' /\ index + 1 \in Nat
    BY <1>1, <2>1 DEF Begin, Finished
  <2>3. s1.draft = RoomDraft'
    BY <1>10, <1>18, <1>26, <2>1 DEF RoomDraft, drafting, D!ArrangedBoth, D!HasArranged
  <2>4. PICK x : x = Opened(SideUnder(home', seat))
    OBVIOUS
  <2>5. PICK c : c = Walk(s1, x)
    OBVIOUS
  <2>6. /\ Agree(seat, c)' /\ Proper(c) /\ home' \in Seat
        /\ sent'[seat] = Append(told[seat], StartBody(index + 1, SideUnder(home', seat)))
    BY <1>3, <1>18, <1>19, <1>20, <1>26, <2>1, <2>2, <2>3, <2>4, <2>5, StartAgrees
  <2>7. Written(seat, came) = <<came>> \o <<x>>
    <3>1. StartBody(index + 1, SideUnder(home', seat)) \in Body
      BY <2>2, Bodies, Sides
    <3>2. Written(seat, came) = Filled(TurnBody(index), came)
                                \o Filled(StartBody(index + 1, SideUnder(home', seat)), came)
      <4>1. PICK u : u = StartBody(index + 1, SideUnder(home', seat))
        OBVIOUS
      <4>2. sent'[seat] = Append(Append(sent[seat], TurnBody(index)), u) /\ u \in Body
        BY <1>3, <2>6, <3>1, <4>1
      <4>3. Written(seat, came) = Filled(TurnBody(index), came) \o Filled(u, came)
        BY <1>1, <1>3, <4>2, WrittenBodies
      <4> QED BY <4>1, <4>3
    <3>3. Filled(TurnBody(index), came) = <<came>>
      BY FilledBodies
    <3>4. Filled(StartBody(index + 1, SideUnder(home', seat)), came) = <<x>>
      BY <2>4, FilledStart
    <3> QED BY <3>2, <3>3, <3>4
  <2>8. Way(to, c, Written(seat, came)) /\ Written(seat, came) = <<came, x>>
    BY <1>16, <1>22, <2>5, <2>6, <2>7, WalkTwo
  <2>9. Whole(Written(seat, came)) /\ Written(seat, came) # <<>>
    <3>1. x.more = FALSE
      BY <2>4 DEF Opened, Blank
    <3> QED BY <2>8, <3>1 DEF Whole
  <2>10. HushedWay(seat, to, c, Written(seat, came))
    <3>1. x.kind = "start" /\ fight'
      BY <2>1, <2>4 DEF Opened, Blank, Begin
    <3>2. ~AskedAt(seat, s1)
      BY <1>19, <2>2, <2>5, <2>6, <3>1, BeforeStart
    <3>3. PICK k : k = <<came>>
      OBVIOUS
    <3>4. HushedWay(seat, to, s1, k)
      BY <1>23, <3>3, HushedOne
    <3>5. Append(k, x) = k \o <<x>>
      BY <3>4, ListAppend DEF HushedWay
    <3>6. HushedWay(seat, to, c, Append(k, x))
      BY <2>5, <3>2, <3>4, HushedOn
    <3> QED BY <2>7, <3>3, <3>5, <3>6
  <2> QED BY <2>6, <2>8, <2>9, <2>10 DEF Arrives
<1> QED BY <1>24, <1>25, <1>26

\* A decision taken from a seat, or passed for it, is always told.
LEMMA AnswerTells ==
  ASSUME IInv, IInv', asked \in Seat, Resolved, NEW seat \in Seat, NEW to, Agree(seat, to),
         NEW came \in CameTo
  PROVE Arrives(seat, to, came) /\ Written(seat, came) # <<>>
<1>1. fight
  BY Seats DEF IInv, Fights
<1>2. turns \in Nat /\ sent \in [Seat -> Seq(Body)] /\ index \in Nat /\ Len(watched) \in Nat
      /\ watched \in Seq(Body)
  BY <1>1, InABattle
<1>3. PICK o \in Settlings(turns) :
       \/ /\ o.asked # "none"
          /\ turns' = o.turns
          /\ asked' = o.asked
          /\ sent' = Told(TurnBody(index))
          /\ watched' = Append(watched, TurnBody(index))
          /\ UNCHANGED <<seated, played, standing, result, fight, index, home,
                         draftCursor, drafting>>
       \/ /\ o.asked = "none"
          /\ Close(o, Told(TurnBody(index)), Append(watched, TurnBody(index)))
  BY DEF Resolved
<1>4. CASE o.asked # "none"
  BY <1>1, <1>3, <1>4, TurnGoesOn
<1>5. CASE o.asked = "none"
  BY <1>1, <1>3, <1>5, TurnCloses
<1> QED BY <1>4, <1>5

\* A step that tells a seat nothing.
LEMMA Untold ==
  ASSUME sent \in [Seat -> Seq(Body)], NEW seat \in Seat, sent'[seat] = sent[seat],
         NEW to, Agree(seat, to)', asked' = asked, NEW came
  PROVE Arrives(seat, to, came)
<1>1. Written(seat, came) = <<>>
  BY WrittenBodies
<1>2. Way(to, to, <<>>)
  BY NoWay
<1>3. HushedWay(seat, to, to, <<>>)
  BY HushedNone
<1> QED BY <1>1, <1>2, <1>3 DEF Arrives, Whole

\* A match that ends without being played out is closed for the seat that is told so.
LEMMA ClosingTells ==
  ASSUME sent \in [Seat -> Seq(Body)], NEW seat \in Seat,
         sent'[seat] = Append(sent[seat], ClosedBody), Finished', NEW to, NEW came
  PROVE Arrives(seat, to, came)
<1>1. Written(seat, came) = <<Closing>>
  <2>1. ClosedBody \in Body
    BY DEF ClosedBody, Body
  <2> QED BY <2>1, WrittenBodies, FilledBodies
<1>2. PICK x : x = Closing
  OBVIOUS
<1>3. x.kind = "closed" /\ x.more = FALSE
  BY <1>2 DEF Closing, Blank
<1>4. PICK c : c = Walk(to, x)
  OBVIOUS
<1>5. c.closed = TRUE /\ c.board = [to.board EXCEPT !.open = FALSE, !.prompt = "none"]
  BY <1>3, <1>4 DEF Walk
<1>6. Agree(seat, c)'
  BY <1>5 DEF Agree
<1>7. Proper(c)
  <2>1. PICK b, was : was = to.board /\ b = c.board
    OBVIOUS
  <2>2. b = [was EXCEPT !.open = FALSE, !.prompt = "none"]
    BY <1>5, <2>1
  <2>3. ~(b.open /\ b.prompt # "none")
    BY <2>2
  <2> QED BY <2>1, <2>3 DEF Proper
<1>8. Way(to, c, <<x>>)
  BY <1>4, <1>7, WalkOne
<1>9. Whole(<<x>>) /\ <<x>> # <<>>
  BY <1>3 DEF Whole
<1> QED BY <1>1, <1>2, <1>6, <1>8, <1>9 DEF Arrives

\* Somebody sits down: nobody is told before the match opens, and then everybody is.
LEMMA JoinTells ==
  ASSUME IInv, IInv', NEW hello, Join(hello), NEW seat \in Seat, NEW to, Agree(seat, to),
         NEW came
  PROVE Arrives(seat, to, came)
<1>1. FreeSeats # {} /\ ~BothTaken
  BY LastSeat DEF Join, Gate
<1>2. ~fight /\ ~Finished /\ played = <<>> /\ asked = "none"
  BY <1>1, Gathering
<1>3. sent \in [Seat -> Seq(Body)] /\ watched \in Seq(Body)
  BY DEF IInv, TypeOK
<1>4. UNCHANGED <<played, standing, result, draftCursor, drafting>>
  BY DEF Join
<1>5. ~to.closed /\ Tallied(seat, to.fought, played) /\ to.draft = RoomDraft
      /\ to.board.prompt = "none" /\ to.board.read = Len(watched)
  BY <1>2 DEF Agree
<1>6. to.draft = RoomDraft'
  BY <1>4, <1>5 DEF RoomDraft, drafting, D!ArrangedBoth, D!HasArranged
<1>7. ~Finished'
  BY <1>2, <1>4 DEF Finished
<1>8. CASE Cardinality(FreeSeats) = 1 /\ ~Drafts
  <2>1. Begin(1, sent, watched) /\ index' = 1
    BY <1>8 DEF Join, Begin
  <2>2. PICK x : x = Opened(SideUnder(home', seat))
    OBVIOUS
  <2>3. PICK c : c = Walk(to, x)
    OBVIOUS
  <2>4. /\ Agree(seat, c)' /\ Proper(c) /\ home' \in Seat
        /\ sent'[seat] = Append(sent[seat], StartBody(1, SideUnder(home', seat)))
    BY <1>3, <1>4, <1>5, <1>6, <1>7, <1>8, <2>1, <2>2, <2>3, StartAgrees
  <2>5. Written(seat, came) = <<x>>
    <3>1. StartBody(1, SideUnder(home', seat)) \in Body
      BY Bodies, Sides
    <3>2. Written(seat, came) = Filled(StartBody(1, SideUnder(home', seat)), came)
      BY <1>3, <2>4, <3>1, WrittenBodies
    <3> QED BY <2>2, <3>2, FilledStart
  <2>6. Way(to, c, <<x>>)
    BY <2>3, <2>4, WalkOne
  <2>7. x.more = FALSE
    BY <2>2 DEF Opened, Blank
  <2>8. Whole(<<x>>) /\ <<x>> # <<>>
    BY <2>7 DEF Whole
  <2>9. HushedWay(seat, to, c, <<x>>)
    BY <2>6, HushedOne
  <2> QED BY <2>4, <2>5, <2>6, <2>8, <2>9 DEF Arrives
<1>9. CASE ~(Cardinality(FreeSeats) = 1 /\ ~Drafts)
  <2>1. UNCHANGED <<fight, index, home, turns, asked, sent, watched>>
    BY <1>9 DEF Join
  <2>2. Agree(seat, to)'
    BY <1>2, <1>4, <1>5, <1>6, <1>7, <2>1 DEF Agree
  <2> QED BY <1>3, <2>1, <2>2, Untold
<1> QED BY <1>8, <1>9

\* Somebody gets up.
LEMMA LeftTells ==
  ASSUME IInv, IInv', NEW seat \in Seat, NEW s \in Seat, s # seat, Left(s),
         NEW to, Agree(seat, to), NEW came
  PROVE Arrives(seat, to, came)
<1>1. sent \in [Seat -> Seq(Body)] /\ seat = Other(s)
  BY Seats DEF IInv, TypeOK
<1>2. UNCHANGED <<played, standing, index, home, turns, minted, draftCursor, drafting>>
      /\ ~Finished
  BY DEF Left
<1>3. CASE ~DraftOpen /\ ~fight /\ played = <<>> /\ UNCHANGED <<result, fight, asked, sent, watched>>
  <2>1. to.draft = RoomDraft'
    BY <1>2 DEF Agree, RoomDraft, drafting, D!ArrangedBoth, D!HasArranged
  <2>2. Agree(seat, to)'
    BY <1>2, <1>3, <2>1 DEF Agree, Finished
  <2> QED BY <1>1, <1>3, <2>2, Untold
<1>4. CASE /\ result' = [verdict |-> "abandoned", winner |-> "none", departed |-> s]
           /\ sent' = [sent EXCEPT ![Other(s)] = Append(@, ClosedBody)]
  <2>1. Finished' /\ sent'[seat] = Append(sent[seat], ClosedBody)
    BY <1>1, <1>4 DEF Finished
  <2> QED BY <1>1, <2>1, ClosingTells
<1> QED BY <1>3, <1>4 DEF Left

\* The draft is given up.
LEMMA DraftTimedOutTells ==
  ASSUME IInv, NEW seat \in Seat, NEW s \in Seat, DraftTimedOut(s), NEW to, NEW came
  PROVE Arrives(seat, to, came)
<1>1. sent \in [Seat -> Seq(Body)]
  BY DEF IInv, TypeOK
<1>2. Finished' /\ sent'[seat] = Append(sent[seat], ClosedBody)
  BY DEF DraftTimedOut, Finished, Told
<1> QED BY <1>1, <1>2, ClosingTells

\* A list of one and a list of two, by their places.
LEMMA Places ==
  ASSUME NEW f
  PROVE /\ f = [i \in 1..1 |-> f[i]] => f = <<f[1]>>
        /\ f = [i \in 1..2 |-> f[i]] => f = <<f[1], f[2]>>
<1>1. ASSUME f = [i \in 1..1 |-> f[i]]
      PROVE f = <<f[1]>>
  <2> DEFINE S == {f[1]}
             t == <<f[1]>>
  <2>1. \A i \in 1..1 : f[i] \in S
    OBVIOUS
  <2>2. t \in Seq(S) /\ Len(t) = 1 /\ t[1] = f[1]
    OBVIOUS
  <2> HIDE DEF S, t
  <2>3. f \in [1..1 -> S]
    BY <1>1, <2>1
  <2>4. f \in Seq(S) /\ Len(f) = 1
    <3>1. 1 \in Nat /\ f \in UNION {[1..n -> S] : n \in Nat}
      BY <2>3
    <3>2. f \in Seq(S)
      BY <3>1, SeqDef
    <3>3. Len(f) \in Nat /\ 1..Len(f) = 1..1
      BY <2>3, <3>2, LenProperties
    <3>4. Len(f) = 1
      <4>1. PICK m \in Nat : m = Len(f)
        BY <3>3
      <4>2. \A j : j \in 1..m <=> j \in 1..1
        BY <3>3, <4>1
      <4>3. 1 \in 1..m
        BY <4>2
      <4>4. m \in 1..1
        BY <4>2, <4>3
      <4> QED BY <4>1, <4>3, <4>4
    <3> QED BY <3>2, <3>4
  <2>5. \A i \in 1..1 : f[i] = t[i]
    BY <2>2
  <2>6. f = t
    BY <2>2, <2>4, <2>5, SeqEqual
  <2> QED BY <2>6 DEF t
<1>2. ASSUME f = [i \in 1..2 |-> f[i]]
      PROVE f = <<f[1], f[2]>>
  <2> DEFINE S == {f[1], f[2]}
             t == <<f[1], f[2]>>
  <2>1. \A i \in 1..2 : f[i] \in S
    <3> TAKE i \in 1..2
    <3>1. i = 1 \/ i = 2
      OBVIOUS
    <3> QED BY <3>1
  <2>2. t \in Seq(S) /\ Len(t) = 2 /\ t[1] = f[1] /\ t[2] = f[2]
    OBVIOUS
  <2> HIDE DEF S, t
  <2>3. f \in [1..2 -> S]
    BY <1>2, <2>1
  <2>4. f \in Seq(S) /\ Len(f) = 2
    <3>1. 2 \in Nat /\ f \in UNION {[1..n -> S] : n \in Nat}
      BY <2>3
    <3>2. f \in Seq(S)
      BY <3>1, SeqDef
    <3>3. Len(f) \in Nat /\ 1..Len(f) = 1..2
      BY <2>3, <3>2, LenProperties
    <3>4. Len(f) = 2
      <4>1. PICK m \in Nat : m = Len(f)
        BY <3>3
      <4>2. \A j : j \in 1..m <=> j \in 1..2
        BY <3>3, <4>1
      <4>3. 2 \in 1..m
        BY <4>2
      <4>4. m \in 1..2
        BY <4>2, <4>3
      <4> QED BY <4>1, <4>3, <4>4
    <3> QED BY <3>2, <3>4
  <2>5. \A i \in 1..2 : f[i] = t[i]
    <3> TAKE i \in 1..2
    <3>1. i = 1 \/ i = 2
      OBVIOUS
    <3> QED BY <2>2, <3>1
  <2>6. f = t
    BY <2>2, <2>4, <2>5, SeqEqual
  <2> QED BY <2>6 DEF t
<1> QED BY <1>1, <1>2

\* The decisions a step recorded, in their order; the last has nothing behind it.
LEMMA DecidedBodies ==
  ASSUME NEW n \in Nat, NEW i \in 1..n
  PROVE /\ Decided(n)[i].kind = "drafted"
        /\ Decided(n)[i].entry = entries'[Len(entries') - n + i]
        /\ Decided(n)[i].more <=> i < n
<1> DEFINE behind == i < n
<1>1. behind \in BOOLEAN
  OBVIOUS
<1>2. Decided(n)[i] = [Blank EXCEPT !.kind = "drafted", !.more = behind,
                                    !.entry = entries'[Len(entries') - n + i]]
  BY DEF Decided
<1>3. PICK m \in BOOLEAN : m = behind
  BY <1>1
<1> HIDE DEF behind
<1>4. PICK x, e : x = Decided(n)[i] /\ e = entries'[Len(entries') - n + i]
  OBVIOUS
<1>5. x = [Blank EXCEPT !.kind = "drafted", !.more = m, !.entry = e]
  BY <1>2, <1>3, <1>4
<1>6. x.kind = "drafted" /\ x.entry = e /\ (x.more <=> m)
  BY <1>5 DEF Blank
<1> QED BY <1>3, <1>4, <1>6 DEF behind

\* What a recorded decision makes of the room's draft, it makes of a mirror's.
LEMMA RecordedWalks ==
  ASSUME NEW e, e = D!Entry(e.seat, e.step, e.what), e.step \in {"ban", "pick", "loadout"},
         D!Apply(e)
  PROVE RoomDraft' = Stepping(RoomDraft, e) /\ entries' = Append(entries, e)
<1> PICK d : d = RoomDraft
  OBVIOUS
<1>1. /\ d.spent = spent /\ d.taken = taken /\ d.bans = bans /\ d.picks = picks
      /\ d.awaiting = awaiting /\ d.pending = pending /\ d.entries = entries
      /\ d.arranged = IF D!ArrangedBoth THEN arranged ELSE NobodyArranged
  BY DEF RoomDraft
<1>2. arranged' = arranged => d.arranged = IF D!ArrangedBoth' THEN arranged' ELSE NobodyArranged
  BY <1>1 DEF D!ArrangedBoth, D!HasArranged
<1>3. CASE e.step = "ban"
  <2>1. /\ UNCHANGED <<taken, picks, awaiting, pending, arranged>>
        /\ bans' = bans + 1 /\ entries' = Append(entries, e)
        /\ spent' = IF e.what = Nobody THEN spent
                    ELSE spent \cup {[character |-> e.what, seat |-> e.seat, step |-> "ban"]}
    BY <1>3 DEF D!Apply, D!Ban, D!SkipBan
  <2>2. RoomDraft' = Banned(d, e)
    BY <1>1, <1>2, <2>1 DEF RoomDraft, Banned, Recording
  <2> QED BY <1>3, <2>1, <2>2 DEF Stepping
<1>4. CASE e.step = "pick"
  <2>1. /\ UNCHANGED <<bans, arranged>>
        /\ picks' = picks + 1 /\ entries' = Append(entries, e)
        /\ awaiting' = TRUE /\ pending' = e.what
        /\ taken' = [taken EXCEPT ![e.seat] =
                       Append(@, [character |-> e.what, stage |-> NoStage])]
        /\ spent' = spent \cup {[character |-> e.what, seat |-> e.seat, step |-> "pick"]}
    BY <1>4 DEF D!Apply, D!Pick
  <2>2. RoomDraft' = PickedBy(d, e)
    BY <1>1, <1>2, <2>1 DEF RoomDraft, PickedBy, Recording
  <2> QED BY <1>4, <2>1, <2>2 DEF Stepping
<1>5. CASE e.step = "loadout"
  <2>1. /\ UNCHANGED <<spent, bans, picks, pending, arranged>>
        /\ entries' = Append(entries, e) /\ awaiting' = FALSE
        /\ taken' = [taken EXCEPT ![e.seat][Len(taken[e.seat])].stage = Resolve[pending][e.what]]
    BY <1>5 DEF D!Apply, D!Loadout
  <2>2. RoomDraft' = Equipped(d, e)
    BY <1>1, <1>2, <2>1 DEF RoomDraft, Equipped, Recording
  <2> QED BY <1>5, <2>1, <2>2 DEF Stepping
<1> QED BY <1>3, <1>4, <1>5

\* A decision on the wire, while no turn is asked for.
LEMMA DraftedWalks ==
  ASSUME NEW st, st.board.prompt = "none", NEW x, x.kind = "drafted", NEW s, s = Walk(st, x)
  PROVE /\ s.board = st.board /\ s.fought = st.fought /\ s.closed = st.closed
        /\ s.draft = Stepping(st.draft, x.entry)
        /\ Proper(s)
<1>1. s = [board |-> st.board, fought |-> st.fought, closed |-> st.closed,
           draft |-> Stepping(st.draft, x.entry)]
  BY DEF Walk
<1>2. /\ s.board = st.board /\ s.fought = st.fought /\ s.closed = st.closed
      /\ s.draft = Stepping(st.draft, x.entry)
  BY <1>1
<1>3. Proper(s)
  BY <1>2 DEF Proper
<1> QED BY <1>2, <1>3

\* An arrangement the other seat has not made yet is kept back.
LEMMA KeptBack ==
  ASSUME NEW seat \in Seat, NEW slots, D!Arrange(seat, slots), ~D!HasArranged(Other(seat))
  PROVE RoomDraft' = RoomDraft /\ entries' = entries /\ ~D!Done'
<1>1. entries' = entries /\ UNCHANGED <<spent, taken, bans, picks, awaiting, pending, abandoned>>
  BY DEF D!Arrange, Other
<1>2. ~D!ArrangedBoth /\ ~D!ArrangedBoth'
  <2>1. Other(seat) \in Seat /\ Other(seat) # seat
    BY Seats
  <2>2. arranged'[Other(seat)] = arranged[Other(seat)]
    <3>1. arranged' = [arranged EXCEPT ![seat] = slots]
      BY DEF D!Arrange
    <3> QED BY <2>1, <3>1
  <2> QED BY <2>1, <2>2 DEF D!ArrangedBoth, D!HasArranged, Seat
<1> QED BY <1>1, <1>2 DEF RoomDraft, D!Done

\* With the second arrangement both are told, the host's first.
LEMMA BothTold ==
  ASSUME NEW seat \in Seat, NEW slots, D!Arrange(seat, slots), D!HasArranged(Other(seat)),
         RecordTyped,
         NEW e1, e1 = D!Entry("host", "arrange", arranged'["host"]),
         NEW e2, e2 = D!Entry("guest", "arrange", arranged'["guest"])
  PROVE /\ RoomDraft' = Stepping(Stepping(RoomDraft, e1), e2)
        /\ entries' = entries \o <<e1, e2>>
<1>1. /\ entries' = entries \o <<e1, e2>>
      /\ arranged' = [arranged EXCEPT ![seat] = slots] /\ slots \in D!Arrangements
      /\ ~D!HasArranged(seat)
      /\ UNCHANGED <<spent, taken, bans, picks, awaiting, pending, abandoned>>
  BY DEF D!Arrange, Other
<1>2. /\ Seat = {"host", "guest"} /\ Other(seat) \in Seat /\ Other(seat) # seat
      /\ Other("host") = "guest" /\ Other("guest") = "host"
  BY Seats DEF Other, D!Other
<1>3. slots # <<>>
  <2>1. DOMAIN slots = 1..PicksPerSide /\ 1 \in 1..PicksPerSide
    BY <1>1, RoomAssumption DEF D!Arrangements
  <2>2. DOMAIN <<>> = {}
    OBVIOUS
  <2> QED BY <2>1, <2>2
<1>4. /\ arranged' = [s \in Seat |-> arranged'[s]]
      /\ arranged'["host"] # <<>> /\ arranged'["guest"] # <<>>
  <2>1. arranged = [s \in Seat |-> arranged[s]]
    BY DEF RecordTyped
  <2>2. arranged' = [s \in Seat |-> IF s = seat THEN slots ELSE arranged[s]]
    BY <1>1, <2>1
  <2>3. arranged'[seat] = slots /\ arranged'[Other(seat)] = arranged[Other(seat)]
    BY <1>2, <2>2
  <2>4. arranged'[Other(seat)] # <<>>
    BY <2>3 DEF D!HasArranged
  <2> QED BY <1>2, <1>3, <2>2, <2>3, <2>4
<1>5. D!ArrangedBoth' /\ ~D!ArrangedBoth
  BY <1>1, <1>2, <1>4 DEF D!ArrangedBoth, D!HasArranged, Seat
<1>6. PICK a : a = arranged'
  OBVIOUS
<1>7. /\ a = [s \in Seat |-> a[s]] /\ a["host"] # <<>>
      /\ e1.seat = "host" /\ e1.step = "arrange" /\ e1.what = a["host"]
      /\ e2.seat = "guest" /\ e2.step = "arrange" /\ e2.what = a["guest"]
  BY <1>4, <1>6 DEF D!Entry
<1>8. PICK d : d = RoomDraft
  OBVIOUS
<1>9. /\ d.spent = spent /\ d.taken = taken /\ d.bans = bans /\ d.picks = picks
      /\ d.awaiting = awaiting /\ d.pending = pending /\ d.entries = entries
      /\ d.arranged = NobodyArranged
  BY <1>5, <1>8 DEF RoomDraft
<1>10. PICK d1 : d1 = Stepping(d, e1)
  OBVIOUS
<1>11. d1 = Settled(d, e1)
  BY <1>7, <1>10 DEF Stepping
<1>12. /\ d1.spent = spent /\ d1.taken = taken /\ d1.bans = bans /\ d1.picks = picks
       /\ d1.awaiting = awaiting /\ d1.pending = pending /\ d1.entries = entries
       /\ d1.arranged = [s \in Seat |-> IF s = "host" THEN a["host"] ELSE <<>>]
  <2>1. Placed(d, e1) = [NobodyArranged EXCEPT !["host"] = a["host"]]
    BY <1>7, <1>9 DEF Placed
  <2>2. Placed(d, e1) = [s \in Seat |-> IF s = "host" THEN a["host"] ELSE <<>>]
    BY <2>1 DEF NobodyArranged
  <2>3. ~(d.arranged[Other(e1.seat)] # <<>>)
    BY <1>2, <1>7, <1>9 DEF NobodyArranged
  <2> QED BY <1>9, <1>11, <2>2, <2>3 DEF Settled
<1>13. PICK d2 : d2 = Stepping(d1, e2)
  OBVIOUS
<1>14. d2 = Settled(d1, e2)
  BY <1>7, <1>13 DEF Stepping
<1>15. Placed(d1, e2) = a
  <2>1. Placed(d1, e2) = [d1.arranged EXCEPT !["guest"] = a["guest"]]
    BY <1>7 DEF Placed
  <2>2. Placed(d1, e2) = [s \in Seat |-> IF s = "guest" THEN a["guest"]
                                         ELSE IF s = "host" THEN a["host"] ELSE <<>>]
    BY <1>12, <2>1
  <2>3. \A s \in Seat : Placed(d1, e2)[s] = a[s]
    BY <1>2, <2>2
  <2>4. Placed(d1, e2) = [s \in Seat |-> Placed(d1, e2)[s]]
    BY <2>2
  <2> QED BY <1>7, <2>3, <2>4
<1>16. Both(a) = <<e1, e2>>
  BY <1>6 DEF Both
<1>17. d1.arranged[Other(e2.seat)] # <<>>
  BY <1>2, <1>7, <1>12
<1>18. d2 = [spent |-> spent, taken |-> taken, bans |-> bans, picks |-> picks,
             awaiting |-> awaiting, pending |-> pending, arranged |-> a,
             entries |-> entries \o <<e1, e2>>]
  BY <1>12, <1>14, <1>15, <1>16, <1>17 DEF Settled
<1>19. RoomDraft' = d2
  BY <1>1, <1>5, <1>6, <1>18 DEF RoomDraft
<1> QED BY <1>1, <1>8, <1>10, <1>13, <1>19

\* What a decision puts on the wire, before the battle it may open.
Recorded(to, s, n) ==
  /\ s.board = to.board /\ s.fought = to.fought /\ s.closed = to.closed
  /\ s.draft = RoomDraft'
  /\ Way(to, s, Decided(n))
  /\ \E x : /\ x.more = FALSE
            /\ Decided(n) = <<x>> \/ \E y : Held(y) /\ Decided(n) = <<y, x>>

\* One decision is recorded as it is taken.
LEMMA OneRecorded ==
  ASSUME entries \in Seq(D!EntryRecord), NEW to, to.board.prompt = "none", to.draft = RoomDraft,
         NEW e, e = D!Entry(e.seat, e.step, e.what), e.step \in {"ban", "pick", "loadout"},
         D!Apply(e)
  PROVE Len(entries') = Len(entries) + 1 /\ \E s : Recorded(to, s, 1)
<1>1. RoomDraft' = Stepping(RoomDraft, e) /\ entries' = Append(entries, e)
  BY RecordedWalks
<1>2. Listed(entries)
  BY DEF Listed
<1>3. /\ Len(entries) \in Nat /\ Len(entries') = Len(entries) + 1
      /\ entries'[Len(entries) + 1] = e
  BY <1>1, <1>2, ListAppend
<1>4. PICK f : f = Decided(1)
  OBVIOUS
<1>5. f = [i \in 1..1 |-> f[i]]
  BY <1>4 DEF Decided
<1>6. PICK x : x = f[1]
  OBVIOUS
<1>7. x.kind = "drafted" /\ x.entry = e /\ ~x.more
  <2>1. 1 \in 1..1 /\ 1 \in Nat /\ ~(1 < 1) /\ Len(entries') - 1 + 1 = Len(entries) + 1
    BY <1>3
  <2>2. /\ Decided(1)[1].kind = "drafted"
        /\ Decided(1)[1].entry = entries'[Len(entries') - 1 + 1]
        /\ Decided(1)[1].more <=> 1 < 1
    BY <2>1, DecidedBodies
  <2> QED BY <1>3, <1>4, <1>6, <2>1, <2>2
<1>8. f = <<x>>
  BY <1>5, <1>6, Places
<1>9. PICK s : s = Walk(to, x)
  OBVIOUS
<1>10. /\ s.board = to.board /\ s.fought = to.fought /\ s.closed = to.closed
       /\ s.draft = Stepping(to.draft, x.entry) /\ Proper(s)
  BY <1>7, <1>9, DraftedWalks
<1>11. Way(to, s, <<x>>)
  BY <1>9, <1>10, WalkOne
<1>12. x.more = FALSE
  BY <1>7, <1>4, <1>6 DEF Decided
<1>13. Recorded(to, s, 1)
  BY <1>1, <1>4, <1>7, <1>8, <1>10, <1>11, <1>12 DEF Recorded
<1> QED BY <1>3, <1>13

\* Two arrangements are recorded together.
LEMMA TwoRecorded ==
  ASSUME RecordTyped, NEW to, to.board.prompt = "none", to.draft = RoomDraft,
         NEW seat \in Seat, NEW slots, D!Arrange(seat, slots), D!HasArranged(Other(seat))
  PROVE Len(entries') = Len(entries) + 2 /\ \E s : Recorded(to, s, 2)
<1>1. PICK e1, e2 : /\ e1 = D!Entry("host", "arrange", arranged'["host"])
                    /\ e2 = D!Entry("guest", "arrange", arranged'["guest"])
  OBVIOUS
<1>2. RoomDraft' = Stepping(Stepping(RoomDraft, e1), e2) /\ entries' = entries \o <<e1, e2>>
  BY <1>1, BothTold
<1>3. Listed(entries) /\ Listed(<<e1, e2>>) /\ Len(<<e1, e2>>) = 2
  <2>1. entries \in Seq(D!EntryRecord) /\ <<e1, e2>> \in Seq({e1, e2})
    BY DEF RecordTyped
  <2> QED BY <2>1 DEF Listed
<1>4. /\ Len(entries) \in Nat /\ Len(entries') = Len(entries) + 2
      /\ \A i \in 1..2 : entries'[Len(entries) + i] = <<e1, e2>>[i]
  <2>1. PICK t : t = <<e1, e2>>
    OBVIOUS
  <2>2. Listed(t) /\ Len(t) = 2 /\ entries' = entries \o t
    BY <1>2, <1>3, <2>1
  <2>3. /\ Len(entries) \in Nat /\ Len(entries') = Len(entries) + 2
        /\ \A i \in 1..2 : entries'[Len(entries) + i] = t[i]
    <3>1. /\ Len(entries) \in Nat /\ Len(entries \o t) = Len(entries) + Len(t)
          /\ \A i \in 1..Len(t) : (entries \o t)[Len(entries) + i] = t[i]
      <4>1. PICK r : r = entries
        OBVIOUS
      <4>2. Listed(r) /\ Listed(t)
        BY <1>3, <2>2, <4>1
      <4>3. /\ Len(r) \in Nat /\ Len(r \o t) = Len(r) + Len(t)
            /\ \A i \in 1..Len(t) : (r \o t)[Len(r) + i] = t[i]
        BY <4>2, ListConcat
      <4> QED BY <4>1, <4>3
    <3> QED BY <2>2, <3>1
  <2> QED BY <2>1, <2>3
<1>5. entries'[Len(entries) + 1] = e1 /\ entries'[Len(entries) + 2] = e2
  BY <1>4
<1>6. PICK f : f = Decided(2)
  OBVIOUS
<1>7. f = [i \in 1..2 |-> f[i]]
  BY <1>6 DEF Decided
<1>8. PICK y, x : y = f[1] /\ x = f[2]
  OBVIOUS
<1>9. /\ y.kind = "drafted" /\ y.entry = e1 /\ Held(y)
      /\ x.kind = "drafted" /\ x.entry = e2 /\ ~x.more
  <2>1. /\ 1 \in 1..2 /\ 2 \in 1..2 /\ 2 \in Nat /\ ~(2 < 2) /\ 1 < 2
        /\ Len(entries') - 2 + 1 = Len(entries) + 1 /\ Len(entries') - 2 + 2 = Len(entries) + 2
    BY <1>4
  <2>2. /\ Decided(2)[1].kind = "drafted" /\ Decided(2)[2].kind = "drafted"
        /\ Decided(2)[1].entry = entries'[Len(entries') - 2 + 1]
        /\ Decided(2)[2].entry = entries'[Len(entries') - 2 + 2]
        /\ Decided(2)[1].more <=> 1 < 2
        /\ Decided(2)[2].more <=> 2 < 2
    BY <2>1, DecidedBodies
  <2> QED BY <1>5, <1>6, <1>8, <2>1, <2>2 DEF Held
<1>10. f = <<y, x>>
  BY <1>7, <1>8, Places
<1>11. PICK s1 : s1 = Walk(to, y)
  OBVIOUS
<1>12. /\ s1.board = to.board /\ s1.fought = to.fought /\ s1.closed = to.closed
       /\ s1.draft = Stepping(to.draft, y.entry) /\ Proper(s1)
  BY <1>9, <1>11, DraftedWalks
<1>13. PICK s : s = Walk(s1, x)
  OBVIOUS
<1>14. /\ s.board = s1.board /\ s.fought = s1.fought /\ s.closed = s1.closed
       /\ s.draft = Stepping(s1.draft, x.entry) /\ Proper(s)
  BY <1>9, <1>12, <1>13, DraftedWalks
<1>15. Way(to, s, <<y>> \o <<x>>) /\ <<y>> \o <<x>> = <<y, x>>
  BY <1>11, <1>12, <1>13, <1>14, WalkTwo
<1>16. x.more = FALSE
  BY <1>9, <1>6, <1>8 DEF Decided
<1>17. Recorded(to, s, 2)
  BY <1>2, <1>6, <1>9, <1>10, <1>12, <1>14, <1>15, <1>16 DEF Recorded
<1> QED BY <1>4, <1>17

\* A decision that is recorded is told, and the battle it opens behind it.
LEMMA RecordedTells ==
  ASSUME IInv, IInv', NEW seat \in Seat, NEW to, Agree(seat, to), ~Finished, ~fight, Drafts,
         NEW n \in Nat, NEW s, Recorded(to, s, n),
         UNCHANGED <<played, standing, result, minted>>,
         IF D!Done' THEN Begin(index + 1, Told(DraftedBody(n)), watched)
         ELSE /\ sent' = Told(DraftedBody(n))
              /\ UNCHANGED <<seated, fight, index, home, turns, asked, watched>>,
         NEW came
  PROVE Arrives(seat, to, came)
<1>1. /\ ~to.closed /\ Tallied(seat, to.fought, played) /\ to.draft = RoomDraft
      /\ to.board.prompt = "none" /\ to.board.read = Len(watched)
  BY DEF Agree
<1>2. /\ ~s.closed /\ Tallied(seat, s.fought, played') /\ s.draft = RoomDraft'
      /\ s.board.prompt = "none" /\ s.board.read = Len(watched)
  BY <1>1 DEF Recorded
<1>3. ~Finished'
  BY DEF Finished
<1>4. /\ sent \in [Seat -> Seq(Body)] /\ index \in Nat /\ watched \in Seq(Body)
      /\ DraftedBody(n) \in Body
  BY Bodies DEF IInv, TypeOK
<1>5. Told(DraftedBody(n))[seat] = Append(sent[seat], DraftedBody(n))
  BY DEF Told
<1>6. Filled(DraftedBody(n), came) = Decided(n)
  BY FilledBodies
<1>7. PICK x : /\ x.more = FALSE
               /\ Decided(n) = <<x>> \/ \E y : Held(y) /\ Decided(n) = <<y, x>>
  BY DEF Recorded
<1>8. Way(to, s, Decided(n)) /\ HushedWay(seat, to, s, Decided(n))
  <2>1. Way(to, s, Decided(n))
    BY DEF Recorded
  <2>2. PICK f : f = Decided(n)
    OBVIOUS
  <2>3. ASSUME NEW i \in 1..Len(f) - 1
        PROVE Held(f[i])
    <3>1. f # <<x>>
      <4>1. f = <<x>> => Len(f) = 1
        OBVIOUS
      <4>2. f = <<x>> => Len(f) - 1 = 0
        BY <4>1
      <4>3. ~(i \in 1..0)
        OBVIOUS
      <4> QED BY <4>2, <4>3
    <3>2. PICK y : Held(y) /\ f = <<y, x>>
      BY <1>7, <2>2, <3>1
    <3>3. Len(f) = 2 /\ f[1] = y
      BY <3>2
    <3>4. i = 1
      BY <3>3
    <3> QED BY <3>2, <3>3, <3>4
  <2>4. HushedWay(seat, to, s, f)
    BY <2>1, <2>2, <2>3, HushedBatch
  <2> QED BY <2>1, <2>2, <2>4
<1>9. CASE ~D!Done'
  <2>1. sent' = Told(DraftedBody(n)) /\ UNCHANGED <<fight, index, home, turns, asked, watched>>
    BY <1>9
  <2>2. Agree(seat, s)'
    BY <1>2, <1>3, <2>1 DEF Agree
  <2>3. Written(seat, came) = Decided(n)
    BY <1>4, <1>5, <1>6, <2>1, WrittenBodies
  <2>4. Whole(Decided(n)) /\ Decided(n) # <<>>
    <3>1. PICK f : f = Decided(n)
      OBVIOUS
    <3>2. CASE f = <<x>>
      <4>1. Len(f) = 1 /\ f[1] = x /\ f # <<>>
        BY <3>2
      <4>2. Whole(f)
        BY <1>7, <4>1 DEF Whole
      <4> QED BY <3>1, <4>1, <4>2
    <3>3. CASE \E y : Held(y) /\ f = <<y, x>>
      <4>1. Len(f) = 2 /\ f[2] = x /\ f # <<>>
        BY <3>3
      <4>2. Whole(f)
        BY <1>7, <4>1 DEF Whole
      <4> QED BY <3>1, <4>1, <4>2
    <3> QED BY <1>7, <3>1, <3>2, <3>3
  <2> QED BY <1>8, <2>1, <2>2, <2>3, <2>4 DEF Arrives
<1>10. CASE D!Done'
  <2>1. Begin(index + 1, Told(DraftedBody(n)), watched) /\ index' = index + 1 /\ index + 1 \in Nat
    <3>1. Begin(index + 1, Told(DraftedBody(n)), watched)
      BY <1>10
    <3>2. PICK i, told : i = index + 1 /\ told = Told(DraftedBody(n))
      OBVIOUS
    <3>3. Begin(i, told, watched)
      BY <3>1, <3>2
    <3>4. index' = i
      BY <3>3 DEF Begin
    <3>5. index + 1 \in Nat
      BY <1>4
    <3> QED BY <3>1, <3>2, <3>4, <3>5
  <2>2. PICK z : z = Opened(SideUnder(home', seat))
    OBVIOUS
  <2>3. PICK c : c = Walk(s, z)
    OBVIOUS
  <2>4. PICK told : told = Told(DraftedBody(n))
    OBVIOUS
  <2>5. /\ Agree(seat, c)' /\ Proper(c) /\ home' \in Seat
        /\ sent'[seat] = Append(told[seat], StartBody(index + 1, SideUnder(home', seat)))
    BY <1>2, <1>3, <1>4, <1>10, <2>1, <2>2, <2>3, <2>4, StartAgrees
  <2>6. PICK u : u = StartBody(index + 1, SideUnder(home', seat))
    OBVIOUS
  <2>7. u \in Body /\ sent'[seat] = Append(Append(sent[seat], DraftedBody(n)), u)
    BY <1>5, <2>1, <2>4, <2>5, <2>6, Bodies, Sides
  <2>8. Written(seat, came) = Decided(n) \o <<z>>
    <3>1. Written(seat, came) = Filled(DraftedBody(n), came) \o Filled(u, came)
      BY <1>4, <2>7, WrittenBodies
    <3>2. Filled(u, came) = <<z>>
      BY <2>2, <2>6, FilledStart
    <3> QED BY <1>6, <3>1, <3>2
  <2>9. Way(to, c, Decided(n) \o <<z>>)
    <3>1. Way(s, c, <<z>>)
      BY <2>3, <2>5, WalkOne
    <3> QED BY <1>8, <3>1, WayThrough
  <2>10. Whole(Decided(n) \o <<z>>) /\ Decided(n) \o <<z>> # <<>>
    <3>1. z.more = FALSE
      BY <2>2 DEF Opened, Blank
    <3>2. Listed(Decided(n))
      BY <1>8 DEF Way
    <3>3. PICK f, g : f = Decided(n) /\ g = f \o <<z>>
      OBVIOUS
    <3>4. g = Append(f, z) /\ Len(g) = Len(f) + 1 /\ g[Len(f) + 1] = z /\ g # <<>>
      BY <3>2, <3>3, ListAppend
    <3>5. Whole(g)
      BY <3>1, <3>4 DEF Whole
    <3> QED BY <3>3, <3>4, <3>5
  <2>11. HushedWay(seat, to, c, Decided(n) \o <<z>>)
    <3>1. z.kind = "start" /\ fight'
      BY <2>1, <2>2 DEF Opened, Blank, Begin
    <3>2. ~AskedAt(seat, s)
      BY <1>2, <1>3, <2>3, <2>5, <3>1, BeforeStart
    <3>3. PICK k : k = Decided(n)
      OBVIOUS
    <3>4. HushedWay(seat, to, s, k)
      BY <1>8, <3>3
    <3>5. Append(k, z) = k \o <<z>>
      BY <3>4, ListAppend DEF HushedWay
    <3>6. HushedWay(seat, to, c, Append(k, z))
      BY <2>3, <3>2, <3>4, HushedOn
    <3> QED BY <3>3, <3>5, <3>6
  <2> QED BY <2>5, <2>8, <2>9, <2>10, <2>11 DEF Arrives
<1> QED BY <1>9, <1>10

\* A decision of the draft.
LEMMA DecideTells ==
  ASSUME IInv, IInv', NEW s \in Seat, NEW decision \in Decisions(s), Decide(s, decision),
         draftCursor = Len(entries), NEW seat \in Seat, NEW to, Agree(seat, to), NEW came
  PROVE Arrives(seat, to, came)
<1>1. /\ Drafts /\ ~Finished /\ ~fight
      /\ D!Apply(decision) /\ decision.step # "timeout"
      /\ UNCHANGED <<played, standing, result, minted>>
  BY DEF Decide, DraftOpen, IInv, Fights
<1>2. /\ decision = D!Entry(decision.seat, decision.step, decision.what) /\ decision.seat = s
      /\ decision.step \in {"ban", "pick", "loadout", "arrange"}
  BY DEF Decisions, D!Entry
<1>3. RecordTyped /\ entries \in Seq(D!EntryRecord) /\ Len(entries) \in Nat
      /\ sent \in [Seat -> Seq(Body)] /\ asked = "none"
  BY <1>1 DEF IInv, RecordTyped, TypeOK, Fights
<1>4. /\ ~to.closed /\ Tallied(seat, to.fought, played) /\ to.draft = RoomDraft
      /\ to.board.prompt = "none" /\ to.board.read = Len(watched)
  BY <1>1 DEF Agree
<1>5. ASSUME NEW n \in Nat \ {0}, Len(entries') = Len(entries) + n, NEW st, Recorded(to, st, n)
      PROVE Arrives(seat, to, came)
  <2>1. Len(entries') > draftCursor /\ Len(entries') - draftCursor = n
    BY <1>3, <1>5
  <2>2. IF D!Done' THEN Begin(index + 1, Told(DraftedBody(n)), watched)
        ELSE /\ sent' = Told(DraftedBody(n))
             /\ UNCHANGED <<seated, fight, index, home, turns, asked, watched>>
    BY <2>1 DEF Decide
  <2> QED BY <1>1, <1>5, <2>2, RecordedTells
<1>6. CASE decision.step \in {"ban", "pick", "loadout"}
  <2>1. Len(entries') = Len(entries) + 1 /\ \E st : Recorded(to, st, 1)
    BY <1>1, <1>2, <1>3, <1>4, <1>6, OneRecorded
  <2> QED BY <1>5, <2>1
<1>7. CASE decision.step = "arrange"
  <2>1. D!Arrange(s, decision.what)
    BY <1>1, <1>2, <1>7 DEF D!Apply
  <2>2. CASE D!HasArranged(Other(s))
    <3>1. Len(entries') = Len(entries) + 2 /\ \E st : Recorded(to, st, 2)
      BY <1>3, <1>4, <2>1, <2>2, TwoRecorded
    <3> QED BY <1>5, <3>1
  <2>3. CASE ~D!HasArranged(Other(s))
    <3>1. RoomDraft' = RoomDraft /\ entries' = entries /\ ~D!Done'
      BY <2>1, <2>3, KeptBack
    <3>2. ~(Len(entries') > draftCursor)
      BY <1>3, <3>1
    <3>3. sent' = sent /\ UNCHANGED <<seated, fight, index, home, turns, asked, watched>>
      BY <3>1, <3>2 DEF Decide
    <3>4. Agree(seat, to)'
      BY <1>1, <1>4, <3>1, <3>3 DEF Agree, Finished
    <3> QED BY <1>3, <3>3, <3>4, Untold
  <2> QED BY <2>2, <2>3
<1> QED BY <1>2, <1>6, <1>7

-----------------------------------------------------------------------------
(* The record, as it is handed to a client that comes back. *)

\* A body with all its fields, and nothing behind it.
Bodied(x) ==
  x = [kind |-> x.kind, battle |-> x.battle, side |-> x.side, walked |-> x.walked,
       asks |-> x.asks, over |-> x.over, winner |-> x.winner, entry |-> x.entry, more |-> FALSE]

ResumedFor(seat) ==
  [i \in DOMAIN course |->
     IF course[i].kind = "start" THEN [course[i] EXCEPT !.side = SideOf(seat)] ELSE course[i]]

\* A fresh mirror that reads the record is where the room is.
CourseWay(seat) ==
  /\ Listed(course)
  /\ \A i \in 1..Len(course) : Bodied(course[i])
  /\ \E to : Agree(seat, to) /\ Way(FreshStage, to, ResumedFor(seat))

\* What a step of a room without a draft, in its first battle, notes in the record.
Noted(seat, came) ==
  ~Drafts /\ index' <= 1 /\ ~Finished' =>
    /\ index <= 1 /\ ~Finished
    /\ \/ watched' = watched /\ home' = home /\ Written(seat, came) = <<>>
       \/ \E i, side : /\ ~BothTaken
                       /\ watched' = Append(watched, StartBody(i, side))
                       /\ StartBody(i, side) \in Body
                       /\ Written(seat, came) = <<Opened(SideUnder(home', seat))>>
       \/ \E i : /\ watched' = Append(watched, TurnBody(i)) /\ TurnBody(i) \in Body
                 /\ home' = home
                 /\ Written(seat, came) = <<came>>

\* What is sent goes into the record as long as a client may come back for it.
Kept(came) ==
  course' = IF back.times = Returns THEN <<>>
            ELSE LET news == SubSeq(watched', Len(watched) + 1, Len(watched'))
                 IN course \o [i \in DOMAIN news |-> Head(Filled(news[i], came))]

LEMMA CourseKept ==
  ASSUME watched \in Seq(Body), Listed(course), NEW came, Kept(came), back.times # Returns
  PROVE /\ watched' = watched => course' = course
        /\ \A x \in Body : \A w : watched' = Append(watched, x) /\ Filled(x, came) = <<w>> =>
             course' = Append(course, w)
<1> DEFINE news == SubSeq(watched', Len(watched) + 1, Len(watched'))
           noted == [i \in DOMAIN news |-> Head(Filled(news[i], came))]
<1>1. course' = course \o noted
  BY DEF Kept
<1>2. ASSUME watched' = watched
      PROVE course' = course
  <2>1. ClosedBody \in Body
    BY DEF ClosedBody, Body
  <2>2. news = <<>>
    BY <1>2, <2>1, News
  <2>3. DOMAIN <<>> = 1..0
    OBVIOUS
  <2>4. noted = <<>>
    <3>1. PICK n : n = news
      OBVIOUS
    <3>2. noted = [i \in DOMAIN n |-> Head(Filled(n[i], came))]
      BY <3>1
    <3> HIDE DEF news, noted
    <3>3. DOMAIN n = 1..0
      BY <2>2, <2>3, <3>1
    <3>4. noted \in [1..0 -> {}]
      BY <3>2, <3>3
    <3>5. <<>> \in [1..0 -> {}]
      OBVIOUS
    <3> QED BY <3>4, <3>5
  <2> HIDE DEF news, noted
  <2>5. course \o <<>> = course
    <3>1. PICK S : course \in Seq(S)
      BY DEF Listed
    <3> QED BY <3>1, ConcatEmptySeq
  <2> QED BY <1>1, <2>4, <2>5
<1>3. ASSUME NEW x \in Body, NEW w, watched' = Append(watched, x), Filled(x, came) = <<w>>
      PROVE course' = Append(course, w)
  <2>1. news = <<x>>
    BY <1>3, News
  <2>2. noted = <<w>>
    <3>1. PICK n : n = news
      OBVIOUS
    <3>2. noted = [i \in DOMAIN n |-> Head(Filled(n[i], came))]
      BY <3>1
    <3> HIDE DEF news, noted
    <3>3. DOMAIN n = 1..1 /\ n[1] = x
      BY <2>1, <3>1
    <3>4. noted = [i \in 1..1 |-> noted[i]] /\ noted[1] = Head(Filled(x, came))
      BY <3>2, <3>3
    <3>5. Head(Filled(x, came)) = w
      BY <1>3
    <3> QED BY <3>4, <3>5, Places
  <2> HIDE DEF news, noted
  <2>3. Append(course, w) = course \o <<w>>
    BY ListAppend
  <2> QED BY <1>1, <2>2, <2>3
<1> QED BY <1>2, <1>3

LEMMA IntervalSame ==
  ASSUME NEW m \in Nat, NEW n \in Nat, 1..m = 1..n
  PROVE m = n
<1>1. \A j : j \in 1..m <=> j \in 1..n
  OBVIOUS
<1>2. m \in 1..m <=> m \in 1..n
  BY <1>1
<1>3. n \in 1..m <=> n \in 1..n
  BY <1>1
<1> QED BY <1>2, <1>3

\* A list is its places.
LEMMA ListSame ==
  ASSUME NEW s, Listed(s), NEW n \in Nat, Len(s) = n, NEW f, f = [i \in 1..n |-> f[i]],
         \A i \in 1..n : f[i] = s[i]
  PROVE f = s
<1>1. PICK S : s \in Seq(S)
  BY DEF Listed
<1>2. s \in [1..n -> S]
  BY <1>1, LenProperties
<1>3. s = [i \in 1..n |-> s[i]]
  BY <1>2
<1> QED BY <1>3

LEMMA ListDomain ==
  ASSUME NEW s, Listed(s)
  PROVE DOMAIN s = 1..Len(s) /\ Len(s) \in Nat
BY LenProperties DEF Listed

\* The fields of a start.
LEMMA OpenedFields ==
  ASSUME NEW side, NEW x, x = Opened(side)
  PROVE x = [kind |-> "start", battle |-> index', side |-> side, walked |-> turns',
             asks |-> Half(asked', home'), over |-> FALSE, winner |-> "none", entry |-> <<>>,
             more |-> FALSE]
<1>1. PICK b : b = Blank
  OBVIOUS
<1>2. b = [kind |-> "none", battle |-> 0, side |-> "none", walked |-> 0, asks |-> "none",
           over |-> FALSE, winner |-> "none", entry |-> <<>>, more |-> FALSE]
  BY <1>1 DEF Blank
<1>3. PICK asks, i, t : asks = Half(asked', home') /\ i = index' /\ t = turns'
  OBVIOUS
<1>4. x = [b EXCEPT !.kind = "start", !.battle = i, !.side = side, !.walked = t, !.asks = asks]
  BY <1>1, <1>3 DEF Opened
<1>5. x = [kind |-> "start", battle |-> i, side |-> side, walked |-> t, asks |-> asks,
           over |-> FALSE, winner |-> "none", entry |-> <<>>, more |-> FALSE]
  BY <1>2, <1>4
<1> QED BY <1>3, <1>5

\* What a step notes for the client is what it writes to it.
LEMMA CourseGrows ==
  ASSUME watched \in Seq(Body), NEW seat \in Seat, NEW came, Bodied(came), came.kind = "turn",
         Kept(came), back.times # Returns, CourseWay(seat), ~BothTaken => course = <<>>,
         Noted(seat, came), ~Drafts, index' <= 1, ~Finished',
         \A to : Agree(seat, to) => Arrives(seat, to, came)
  PROVE CourseWay(seat)'
<1>1. PICK to : Agree(seat, to) /\ Way(FreshStage, to, ResumedFor(seat))
  BY DEF CourseWay
<1>2. PICK c : Agree(seat, c)' /\ Way(to, c, Written(seat, came))
  BY <1>1 DEF Arrives
<1>3. Listed(course) /\ \A i \in 1..Len(course) : Bodied(course[i])
  BY DEF CourseWay
<1>4. ASSUME NEW w, Bodied(w), Written(seat, came) = <<w>>, NEW v, course' = Append(course, v),
             Bodied(v), w = IF v.kind = "start" THEN [v EXCEPT !.side = SideUnder(home', seat)]
                            ELSE v,
             home' = home \/ course = <<>>
      PROVE CourseWay(seat)'
  <2>1. /\ Listed(course') /\ Len(course) \in Nat /\ Len(course') = Len(course) + 1
        /\ \A i \in 1..Len(course) : course'[i] = course[i]
        /\ course'[Len(course) + 1] = v
    <3>1. PICK k : k = course
      OBVIOUS
    <3>2. Listed(k) /\ course' = Append(k, v)
      BY <1>3, <1>4, <3>1
    <3>3. /\ Listed(Append(k, v)) /\ Len(k) \in Nat /\ Len(Append(k, v)) = Len(k) + 1
          /\ \A i \in 1..Len(k) : Append(k, v)[i] = k[i]
          /\ Append(k, v)[Len(k) + 1] = v
      BY ONLY <3>2, ListAppend
    <3> QED BY <3>1, <3>2, <3>3
  <2>2. \A i \in 1..Len(course') : Bodied(course'[i])
    BY <1>3, <1>4, <2>1
  <2>3. Way(FreshStage, c, Append(ResumedFor(seat), w))
    <3>1. PICK r : r = ResumedFor(seat)
      OBVIOUS
    <3>2. Listed(r)
      BY <1>1, <3>1 DEF Way
    <3>3. r \o <<w>> = Append(r, w)
      BY <3>2, ListAppend
    <3>4. Way(FreshStage, c, r \o <<w>>)
      BY <1>1, <1>2, <1>4, <3>1, WayThrough
    <3> QED BY <3>1, <3>3, <3>4
  <2>4. ResumedFor(seat)' = Append(ResumedFor(seat), w)
    <3>1. PICK r, q, n : r = ResumedFor(seat) /\ q = ResumedFor(seat)' /\ n = Len(course)
      OBVIOUS
    <3>2. /\ Listed(r) /\ n \in Nat /\ Listed(course')
          /\ DOMAIN course = 1..n /\ DOMAIN course' = 1..n + 1
      <4>1. Listed(r)
        BY <1>1, <3>1 DEF Way
      <4>2. DOMAIN course = 1..Len(course)
        BY <1>3, ListDomain
      <4>3. DOMAIN course' = 1..Len(course')
        BY <2>1, ListDomain
      <4> QED BY <2>1, <3>1, <4>1, <4>2, <4>3
    <3>3. /\ r = [i \in 1..n |-> IF course[i].kind = "start"
                                 THEN [course[i] EXCEPT !.side = SideOf(seat)] ELSE course[i]]
          /\ q = [i \in 1..n + 1 |->
                    IF course'[i].kind = "start"
                    THEN [course'[i] EXCEPT !.side = SideUnder(home', seat)] ELSE course'[i]]
      BY <3>1, <3>2 DEF ResumedFor, SideOf
    <3>4. Len(r) = n
      <4>1. DOMAIN r = 1..Len(r) /\ Len(r) \in Nat
        BY <3>2, ListDomain
      <4>2. 1..Len(r) = 1..n
        BY <3>3, <4>1
      <4> QED BY <3>2, <4>1, <4>2, IntervalSame
    <3>5. PICK a : a = Append(r, w)
      OBVIOUS
    <3>6. /\ Listed(a) /\ Len(a) = n + 1 /\ a[n + 1] = w
          /\ \A i \in 1..n : a[i] = r[i]
      <4>1. Listed(r)
        BY <3>2
      <4>2. PICK x : x = w
        OBVIOUS
      <4>3. /\ Listed(Append(r, x)) /\ Len(Append(r, x)) = Len(r) + 1
            /\ \A i \in 1..Len(r) : Append(r, x)[i] = r[i]
            /\ Append(r, x)[Len(r) + 1] = x
        BY ONLY <4>1, ListAppend
      <4> QED BY <3>4, <3>5, <4>2, <4>3
    <3>7. ASSUME NEW i \in 1..n + 1
          PROVE q[i] = a[i]
      <4>1. CASE i = n + 1
        <5>1. course'[i] = v
          BY <2>1, <3>1, <4>1
        <5>2. q[i] = IF v.kind = "start" THEN [v EXCEPT !.side = SideUnder(home', seat)] ELSE v
          BY <3>3, <5>1
        <5> QED BY <1>4, <3>6, <4>1, <5>2
      <4>2. CASE i \in 1..n
        <5>1. course'[i] = course[i]
          BY <2>1, <3>1, <4>2
        <5>2. course # <<>>
          <6>1. DOMAIN <<>> = 1..0
            OBVIOUS
          <6>2. ~(i \in 1..0)
            BY <3>2
          <6> QED BY <3>2, <4>2, <6>1, <6>2
        <5>3. SideOf(seat) = SideUnder(home', seat)
          BY <1>4, <5>2 DEF SideOf
        <5>4. PICK x, side : x = course[i] /\ side = SideOf(seat)
          OBVIOUS
        <5>5. q[i] = IF x.kind = "start" THEN [x EXCEPT !.side = side] ELSE x
          BY <3>3, <5>1, <5>3, <5>4
        <5>6. r[i] = IF x.kind = "start" THEN [x EXCEPT !.side = side] ELSE x
          BY <3>3, <4>2, <5>4
        <5> QED BY <3>6, <4>2, <5>5, <5>6
      <4> QED BY <3>2, <4>1, <4>2
    <3>8. q = [i \in 1..n + 1 |-> q[i]]
      BY <3>3
    <3>9. q = a
      BY <3>2, <3>6, <3>7, <3>8, ListSame
    <3> QED BY <3>1, <3>5, <3>9
  <2> QED BY <1>2, <2>1, <2>2, <2>3, <2>4 DEF CourseWay
<1>5. CASE watched' = watched /\ home' = home /\ Written(seat, came) = <<>>
  <2>1. course' = course /\ c = to
    BY <1>2, <1>3, <1>5, CourseKept, WayEmpty
  <2>2. ResumedFor(seat)' = ResumedFor(seat)
    BY <1>5, <2>1 DEF ResumedFor, SideOf
  <2> QED BY <1>1, <1>2, <1>3, <2>1, <2>2 DEF CourseWay
<1>6. CASE \E i, side : /\ ~BothTaken
                        /\ watched' = Append(watched, StartBody(i, side))
                        /\ StartBody(i, side) \in Body
                        /\ Written(seat, came) = <<Opened(SideUnder(home', seat))>>
  <2>1. PICK i, side : /\ ~BothTaken
                       /\ watched' = Append(watched, StartBody(i, side))
                       /\ StartBody(i, side) \in Body
                       /\ Written(seat, came) = <<Opened(SideUnder(home', seat))>>
    BY <1>6
  <2>2. PICK v, w, half : /\ v = Opened(side) /\ w = Opened(SideUnder(home', seat))
                          /\ half = SideUnder(home', seat)
    OBVIOUS
  <2>3. /\ v = [kind |-> "start", battle |-> index', side |-> side, walked |-> turns',
                asks |-> Half(asked', home'), over |-> FALSE, winner |-> "none", entry |-> <<>>,
                more |-> FALSE]
        /\ w = [kind |-> "start", battle |-> index', side |-> half, walked |-> turns',
                asks |-> Half(asked', home'), over |-> FALSE, winner |-> "none", entry |-> <<>>,
                more |-> FALSE]
    BY <2>2, OpenedFields
  <2>4. Bodied(v) /\ Bodied(w) /\ v.kind = "start"
    BY <2>3 DEF Bodied
  <2>5. w = [v EXCEPT !.side = half]
    <3>1. PICK j, t, asks : j = index' /\ t = turns' /\ asks = Half(asked', home')
      OBVIOUS
    <3>2. /\ v = [kind |-> "start", battle |-> j, side |-> side, walked |-> t, asks |-> asks,
                  over |-> FALSE, winner |-> "none", entry |-> <<>>, more |-> FALSE]
          /\ w = [kind |-> "start", battle |-> j, side |-> half, walked |-> t, asks |-> asks,
                  over |-> FALSE, winner |-> "none", entry |-> <<>>, more |-> FALSE]
      BY <2>3, <3>1
    <3>3. PICK z : z = [v EXCEPT !.side = half]
      OBVIOUS
    <3>4. z = [kind |-> "start", battle |-> j, side |-> half, walked |-> t, asks |-> asks,
               over |-> FALSE, winner |-> "none", entry |-> <<>>, more |-> FALSE]
      BY <3>2, <3>3
    <3>5. z = w
      BY <3>2, <3>4
    <3> QED BY <3>3, <3>5
  <2>6. Filled(StartBody(i, side), came) = <<v>>
    BY <2>2, FilledStart
  <2>7. course' = Append(course, v)
    BY <1>3, <2>1, <2>6, CourseKept
  <2>8. course = <<>>
    BY <2>1
  <2> QED BY <1>4, <2>1, <2>2, <2>4, <2>5, <2>7, <2>8
<1>7. CASE \E i : /\ watched' = Append(watched, TurnBody(i)) /\ TurnBody(i) \in Body
                  /\ home' = home
                  /\ Written(seat, came) = <<came>>
  <2>1. PICK i : /\ watched' = Append(watched, TurnBody(i)) /\ TurnBody(i) \in Body
                 /\ home' = home
                 /\ Written(seat, came) = <<came>>
    BY <1>7
  <2>2. Filled(TurnBody(i), came) = <<came>>
    BY FilledBodies
  <2>3. course' = Append(course, came)
    BY <1>3, <2>1, <2>2, CourseKept
  <2>4. came = IF came.kind = "start" THEN [came EXCEPT !.side = SideUnder(home', seat)] ELSE came
    OBVIOUS
  <2> QED BY <1>4, <2>1, <2>3, <2>4
<1> QED BY <1>5, <1>6, <1>7 DEF Noted

\* What a decision comes to is a body of its own.
LEMMA CameBodied ==
  ASSUME NEW came \in CameTo
  PROVE Bodied(came) /\ came.kind = "turn" /\ came.more = FALSE
<1>1. PICK b : b = Blank
  OBVIOUS
<1>2. b = [kind |-> "none", battle |-> 0, side |-> "none", walked |-> 0, asks |-> "none",
           over |-> FALSE, winner |-> "none", entry |-> <<>>, more |-> FALSE]
  BY <1>1 DEF Blank
<1>3. CASE played' = played
  <2>1. PICK i, t, asks : i = index /\ t = turns' - turns /\ asks = Half(asked', home)
    OBVIOUS
  <2>2. came = [b EXCEPT !.kind = "turn", !.battle = i, !.walked = t, !.asks = asks]
    BY <1>1, <1>3, <2>1 DEF CameTo
  <2>3. came = [kind |-> "turn", battle |-> i, side |-> "none", walked |-> t, asks |-> asks,
                over |-> FALSE, winner |-> "none", entry |-> <<>>, more |-> FALSE]
    BY <1>2, <2>2
  <2> QED BY <2>3 DEF Bodied
<1>4. CASE played' # played
  <2>1. PICK o \in Ended :
          came = [Blank EXCEPT !.kind = "turn", !.battle = index, !.walked = o.turns - turns,
                               !.over = ~o.capped, !.winner = Half(o.winner, home)]
    BY <1>4 DEF CameTo
  <2> DEFINE over == ~o.capped
  <2>2. over \in BOOLEAN
    OBVIOUS
  <2>3. PICK ov \in BOOLEAN : ov = over
    BY <2>2
  <2>4. came = [b EXCEPT !.kind = "turn", !.battle = index, !.walked = o.turns - turns,
                         !.over = over, !.winner = Half(o.winner, home)]
    BY <1>1, <2>1
  <2> HIDE DEF over
  <2>5. PICK i, t, winner : i = index /\ t = o.turns - turns /\ winner = Half(o.winner, home)
    OBVIOUS
  <2>6. came = [b EXCEPT !.kind = "turn", !.battle = i, !.walked = t, !.over = ov,
                         !.winner = winner]
    BY <2>3, <2>4, <2>5
  <2>7. came = [kind |-> "turn", battle |-> i, side |-> "none", walked |-> t, asks |-> "none",
                over |-> ov, winner |-> winner, entry |-> <<>>, more |-> FALSE]
    BY <1>2, <2>6
  <2> QED BY <2>7 DEF Bodied
<1> QED BY <1>3, <1>4

\* A decision in the first battle is noted as it is told; a second battle is another's.
LEMMA AnswerNotes ==
  ASSUME IInv, asked \in Seat, Resolved, NEW seat \in Seat, NEW came
  PROVE Noted(seat, came)
<1>1. fight
  BY Seats DEF IInv, Fights
<1>2. /\ sent \in [Seat -> Seq(Body)] /\ index \in Nat /\ ~Finished /\ TurnBody(index) \in Body
      /\ index = Len(played) + 1 /\ Len(played) \in Nat
  BY <1>1, InABattle, Bodies, Unfinished DEF IInv, Indexed
<1>3. SUFFICES ASSUME ~Drafts, index' <= 1, ~Finished'
               PROVE Noted(seat, came)
  BY DEF Noted
<1>4. PICK o \in Settlings(turns) :
       \/ /\ o.asked # "none"
          /\ sent' = Told(TurnBody(index))
          /\ watched' = Append(watched, TurnBody(index))
          /\ UNCHANGED <<index, home>>
       \/ /\ o.asked = "none"
          /\ Close(o, Told(TurnBody(index)), Append(watched, TurnBody(index)))
  BY DEF Resolved
<1>5. CASE /\ sent' = Told(TurnBody(index))
           /\ watched' = Append(watched, TurnBody(index))
           /\ UNCHANGED <<index, home>>
  <2>1. Written(seat, came) = <<came>>
    <3>1. sent'[seat] = Append(sent[seat], TurnBody(index))
      BY <1>5 DEF Told
    <3>2. Written(seat, came) = Filled(TurnBody(index), came)
      BY <1>2, <3>1, WrittenBodies
    <3> QED BY <3>2, FilledBodies
  <2> QED BY <1>2, <1>3, <1>5, <2>1 DEF Noted
<1>6. CASE Close(o, Told(TurnBody(index)), Append(watched, TurnBody(index)))
  <2>1. Finished' \/ index' = index + 1
    BY <1>3, <1>6 DEF Close, Begin, Finished
  <2> QED BY <1>2, <1>3, <2>1
<1> QED BY <1>4, <1>5, <1>6

LEMMA JoinNotes ==
  ASSUME IInv, NEW hello, Join(hello), NEW seat \in Seat, NEW came
  PROVE Noted(seat, came)
<1>1. FreeSeats # {} /\ ~BothTaken
  BY LastSeat DEF Join, Gate
<1>2. ~Finished /\ index = 0 /\ sent \in [Seat -> Seq(Body)]
  BY <1>1, Gathering DEF IInv, TypeOK
<1>3. CASE Cardinality(FreeSeats) = 1 /\ ~Drafts
  <2>1. Begin(1, sent, watched)
    BY <1>3 DEF Join
  <2>2. PICK i, side : i = 1 /\ side = SideUnder(HomeFor(1), "host")
    OBVIOUS
  <2>3. watched' = Append(watched, StartBody(i, side)) /\ StartBody(i, side) \in Body
    BY <2>1, <2>2, Bodies, Sides DEF Begin
  <2>4. Written(seat, came) = <<Opened(SideUnder(home', seat))>>
    <3>1. PICK u, x : u = StartBody(1, SideUnder(home', seat)) /\ x = Opened(SideUnder(home', seat))
      OBVIOUS
    <3>2. sent'[seat] = Append(sent[seat], u)
      BY <2>1, <3>1 DEF Begin
    <3>3. u \in Body
      BY <3>1, Bodies, Sides
    <3>4. Written(seat, came) = Filled(u, came)
      BY <1>2, <3>2, <3>3, WrittenBodies
    <3>5. Filled(u, came) = <<x>>
      BY <3>1, FilledStart
    <3> QED BY <3>1, <3>4, <3>5
  <2> QED BY <1>1, <1>2, <2>3, <2>4 DEF Noted
<1>4. CASE ~(Cardinality(FreeSeats) = 1 /\ ~Drafts)
  <2>1. UNCHANGED <<home, sent, watched>>
    BY <1>4 DEF Join
  <2>2. Written(seat, came) = <<>>
    BY <1>2, <2>1, WrittenBodies
  <2> QED BY <1>2, <2>1, <2>2 DEF Noted
<1> QED BY <1>3, <1>4

LEMMA LeftNotes ==
  ASSUME IInv, NEW s \in Seat, Left(s), NEW seat \in Seat, NEW came
  PROVE Noted(seat, came)
<1>1. sent \in [Seat -> Seq(Body)] /\ ~Finished /\ UNCHANGED <<index, home>>
  BY DEF IInv, TypeOK, Left
<1>2. CASE UNCHANGED <<result, fight, asked, sent, watched>>
  <2>1. Written(seat, came) = <<>>
    BY <1>1, <1>2, WrittenBodies
  <2> QED BY <1>1, <1>2, <2>1 DEF Noted
<1>3. CASE result' = [verdict |-> "abandoned", winner |-> "none", departed |-> s]
  <2>1. Finished'
    BY <1>3 DEF Finished
  <2> QED BY <2>1 DEF Noted
<1> QED BY <1>2, <1>3 DEF Left

-----------------------------------------------------------------------------
(* What the mirror makes of a body it reads. *)

\* The mirror's draft steps as the room's.
LEMMA MirrorDecides ==
  ASSUME NEW e, MD!Acceptable(e), MD!Apply(e)
  PROVE MirrorDraft' = Stepping(MirrorDraft, e) /\ mAbandoned' = mAbandoned
<1> PICK d : d = MirrorDraft
  OBVIOUS
<1>1. /\ d.spent = mSpent /\ d.taken = mTaken /\ d.bans = mBans /\ d.picks = mPicks
      /\ d.awaiting = mAwaiting /\ d.pending = mPending /\ d.entries = mEntries
      /\ d.arranged = mArranged
  BY DEF MirrorDraft
<1>2. e.step \in {"ban", "pick", "loadout", "arrange"}
  BY DEF MD!Acceptable
<1>3. CASE e.step = "ban"
  <2>1. /\ UNCHANGED <<mTaken, mPicks, mAwaiting, mPending, mArranged, mAbandoned>>
        /\ mBans' = mBans + 1 /\ mEntries' = Append(mEntries, D!Entry(e.seat, e.step, e.what))
        /\ mSpent' = IF e.what = Nobody THEN mSpent
                     ELSE mSpent \cup {[character |-> e.what, seat |-> e.seat, step |-> "ban"]}
    BY <1>3 DEF MD!Apply, MD!Ban, MD!SkipBan, MD!Entry, D!Entry
  <2>2. MirrorDraft' = Banned(d, e)
    BY <1>1, <2>1 DEF MirrorDraft, Banned, Recording
  <2> QED BY <1>3, <2>1, <2>2 DEF Stepping
<1>4. CASE e.step = "pick"
  <2>1. /\ UNCHANGED <<mBans, mArranged, mAbandoned>>
        /\ mPicks' = mPicks + 1 /\ mEntries' = Append(mEntries, D!Entry(e.seat, e.step, e.what))
        /\ mAwaiting' = TRUE /\ mPending' = e.what
        /\ mTaken' = [mTaken EXCEPT ![e.seat] =
                        Append(@, [character |-> e.what, stage |-> NoStage])]
        /\ mSpent' = mSpent \cup {[character |-> e.what, seat |-> e.seat, step |-> "pick"]}
    BY <1>4 DEF MD!Apply, MD!Pick, MD!Entry, D!Entry
  <2>2. MirrorDraft' = PickedBy(d, e)
    BY <1>1, <2>1 DEF MirrorDraft, PickedBy, Recording
  <2> QED BY <1>4, <2>1, <2>2 DEF Stepping
<1>5. CASE e.step = "loadout"
  <2>1. /\ UNCHANGED <<mSpent, mBans, mPicks, mPending, mArranged, mAbandoned>>
        /\ mEntries' = Append(mEntries, D!Entry(e.seat, e.step, e.what)) /\ mAwaiting' = FALSE
        /\ mTaken' = [mTaken EXCEPT ![e.seat][Len(mTaken[e.seat])].stage =
                        Resolve[mPending][e.what]]
    BY <1>5 DEF MD!Apply, MD!Loadout, MD!Entry, D!Entry
  <2>2. MirrorDraft' = Equipped(d, e)
    BY <1>1, <2>1 DEF MirrorDraft, Equipped, Recording
  <2> QED BY <1>5, <2>1, <2>2 DEF Stepping
<1>6. CASE e.step = "arrange"
  <2>1. /\ UNCHANGED <<mSpent, mTaken, mBans, mPicks, mAwaiting, mPending, mAbandoned>>
        /\ mArranged' = Placed(d, e)
        /\ mEntries' = IF mArranged[Other(e.seat)] # <<>> THEN mEntries \o Both(Placed(d, e))
                       ELSE mEntries
    <3>1. MD!Arrange(e.seat, e.what)
      BY <1>6 DEF MD!Apply
    <3>2. mArranged' = Placed(d, e)
      BY <1>1, <3>1 DEF MD!Arrange, Placed
    <3>3. Other(e.seat) = MD!Other(e.seat)
      BY DEF Other, D!Other, MD!Other
    <3>4. Both(Placed(d, e)) = <<MD!Entry("host", "arrange", mArranged'["host"]),
                                 MD!Entry("guest", "arrange", mArranged'["guest"])>>
      BY <3>2 DEF Both, MD!Entry, D!Entry
    <3> QED BY <3>1, <3>2, <3>3, <3>4 DEF MD!Arrange, MD!HasArranged
  <2>2. MirrorDraft' = Settled(d, e)
    BY <1>1, <2>1 DEF MirrorDraft, Settled
  <2> QED BY <1>6, <2>1, <2>2 DEF Stepping
<1> QED BY <1>2, <1>3, <1>4, <1>5, <1>6

\* A new draft is new for the mirror as well.
LEMMA MirrorRenews ==
  ASSUME MD!Renew
  PROVE MirrorDraft' = NewDraft /\ mAbandoned' = "none"
BY DEF MD!Renew, MirrorDraft, NewDraft, NobodyArranged, Seat, D!Seat, MD!Seat

\* A mirror that is not stopped by a body walks on.
Walks(body) ==
  /\ MirrorStage' = Walk(MirrorStage, body)
  /\ mAbandoned' = mAbandoned \/ mAbandoned' = "none"
  /\ IF body.kind = "drafted" /\ body.more
     THEN choosing' = "nothing" /\ UNCHANGED <<link, board, fought, closure>>
     ELSE Stepped

\* One that is stays where it was, and leaves.
Stops ==
  link' = "left" /\ choosing' = "nothing" /\ UNCHANGED <<board, fought, closure, mirrorDraft>>

LEMMA StartWalks ==
  ASSUME NEW body, Start(body)
  PROVE Walks(body)
<1> DEFINE over == body.walked > TurnCap
<1>1. over \in BOOLEAN
  OBVIOUS
<1>2. PICK cap \in BOOLEAN : cap = over
  BY <1>1
<1>3. board' = [open |-> TRUE, prompt |-> body.asks, side |-> body.side, index |-> body.battle,
                turns |-> body.walked, capped |-> over, read |-> board.read + 1]
  BY DEF Start
<1>4. Opens(MirrorStage, body) =
        [board |-> [open |-> TRUE, prompt |-> body.asks, side |-> body.side,
                    index |-> body.battle, turns |-> body.walked, capped |-> over,
                    read |-> MirrorStage.board.read + 1],
         fought |-> MirrorStage.fought, closed |-> MirrorStage.closed,
         draft |-> MirrorStage.draft]
  BY DEF Opens
<1> HIDE DEF over
<1>5. /\ MirrorStage.board = board /\ MirrorStage.fought = fought
      /\ MirrorStage.closed = closure /\ MirrorStage.draft = MirrorDraft
  BY DEF MirrorStage
<1>6. UNCHANGED <<fought, closure, mirrorDraft>> /\ body.kind = "start" /\ Stepped
  BY DEF Start
<1>7. MirrorDraft' = MirrorDraft /\ mAbandoned' = mAbandoned
  BY <1>6 DEF MirrorDraft, mirrorDraft
<1>8. MirrorStage' = [board |-> board', fought |-> fought, closed |-> closure,
                      draft |-> MirrorDraft]
  BY <1>6, <1>7 DEF MirrorStage
<1>9. MirrorStage' = Opens(MirrorStage, body)
  BY <1>2, <1>3, <1>4, <1>5, <1>8
<1> QED BY <1>6, <1>7, <1>9 DEF Walks, Walk

LEMMA ClosedWalks ==
  ASSUME NEW body, Closed(body)
  PROVE Walks(body)
<1>1. /\ MirrorStage.board = board /\ MirrorStage.fought = fought
      /\ MirrorStage.closed = closure /\ MirrorStage.draft = MirrorDraft
  BY DEF MirrorStage
<1>2. /\ closure' = TRUE /\ board' = [board EXCEPT !.open = FALSE, !.prompt = "none"]
      /\ UNCHANGED <<fought, mirrorDraft>> /\ body.kind = "closed" /\ Stepped
  BY DEF Closed
<1>3. MirrorDraft' = MirrorDraft /\ mAbandoned' = mAbandoned
  BY <1>2 DEF MirrorDraft, mirrorDraft
<1>4. MirrorStage' = [board |-> board', fought |-> fought, closed |-> TRUE,
                      draft |-> MirrorDraft]
  BY <1>2, <1>3 DEF MirrorStage
<1>5. MirrorStage' = Walk(MirrorStage, body)
  BY <1>1, <1>2, <1>4 DEF Walk
<1> QED BY <1>2, <1>3, <1>5 DEF Walks

LEMMA RefusalWalks ==
  ASSUME NEW body, Refusal(body)
  PROVE Walks(body)
<1>1. /\ UNCHANGED <<board, fought, closure, mirrorDraft>> /\ body.kind = "refused" /\ Stepped
  BY DEF Refusal
<1>2. MirrorDraft' = MirrorDraft /\ mAbandoned' = mAbandoned
  BY <1>1 DEF MirrorDraft, mirrorDraft
<1>3. MirrorStage' = MirrorStage
  BY <1>1, <1>2 DEF MirrorStage
<1>4. MirrorStage' = Walk(MirrorStage, body)
  BY <1>1, <1>3 DEF Walk
<1> QED BY <1>1, <1>2, <1>4 DEF Walks

LEMMA DraftedWalksOn ==
  ASSUME NEW body, Drafted(body)
  PROVE Walks(body) \/ Stops
<1>1. CASE ~MD!Acceptable(body.entry)
  BY <1>1 DEF Drafted, Fails, Stops
<1>2. CASE MD!Acceptable(body.entry)
  <2>1. /\ body.kind = "drafted" /\ MD!Apply(body.entry) /\ UNCHANGED <<board, fought, closure>>
        /\ IF body.more THEN choosing' = "nothing" /\ UNCHANGED link ELSE Stepped
    BY <1>2 DEF Drafted
  <2>2. MirrorDraft' = Stepping(MirrorDraft, body.entry) /\ mAbandoned' = mAbandoned
    BY <1>2, <2>1, MirrorDecides
  <2>3. /\ MirrorStage.board = board /\ MirrorStage.fought = fought
        /\ MirrorStage.closed = closure /\ MirrorStage.draft = MirrorDraft
    BY DEF MirrorStage
  <2>4. MirrorStage' = [board |-> board, fought |-> fought, closed |-> closure,
                        draft |-> Stepping(MirrorDraft, body.entry)]
    BY <2>1, <2>2 DEF MirrorStage
  <2>5. MirrorStage' = Walk(MirrorStage, body)
    BY <2>1, <2>3, <2>4 DEF Walk
  <2> QED BY <2>1, <2>2, <2>5 DEF Walks
<1> QED BY <1>1, <1>2

LEMMA TurnWalks ==
  ASSUME NEW body, Turn(body)
  PROVE Walks(body) \/ Stops
<1> DEFINE total == board.turns + body.walked
           ahead == [board EXCEPT !.turns = total, !.prompt = body.asks, !.read = board.read + 1,
                                  !.capped = board.capped \/ CapOf(total)]
           one == [battle |-> board.index, side |-> board.side, winner |-> body.winner]
<1>1. /\ body.kind = "turn"
      /\ IF ~board.open THEN Fails("no battle open")
         ELSE IF Cut(body) THEN Fails("diverged")
         ELSE /\ UNCHANGED <<closure, failed>>
              /\ IF body.over \/ ahead.capped THEN Settle(ahead, fought, one)
                 ELSE board' = ahead /\ UNCHANGED <<fought, mirrorDraft>>
              /\ Stepped
  BY DEF Turn
<1>2. /\ MirrorStage.board = board /\ MirrorStage.fought = fought
      /\ MirrorStage.closed = closure /\ MirrorStage.draft = MirrorDraft
  BY DEF MirrorStage
<1>3. ahead = Ahead(MirrorStage, body) /\ one = One(MirrorStage, body)
  <2>1. PICK st : st = MirrorStage
    OBVIOUS
  <2>2. st.board = board
    BY <1>2, <2>1
  <2>3. ahead = Ahead(st, body)
    BY <2>2 DEF Ahead
  <2>4. one = One(st, body)
    BY <2>2 DEF One
  <2> QED BY <2>1, <2>3, <2>4
<1>4. PICK a, o : a = ahead /\ o = one
  OBVIOUS
<1> HIDE DEF total, ahead, one
<1>5. CASE \E why : Fails(why)
  BY <1>5 DEF Fails, Stops
<1>6. CASE /\ UNCHANGED <<closure, failed>>
           /\ IF body.over \/ a.capped THEN Settle(a, fought, o)
              ELSE board' = a /\ UNCHANGED <<fought, mirrorDraft>>
           /\ Stepped
  <2>1. CASE body.over \/ a.capped
    <3>1. /\ fought' = Append(fought, o) /\ board' = [a EXCEPT !.prompt = "none"]
          /\ IF Drafts /\ ~OverBy(fought') THEN MD!Renew ELSE UNCHANGED mirrorDraft
      BY <1>6, <2>1 DEF Settle
    <3>2. /\ MirrorDraft' = IF Drafts /\ ~OverBy(Append(fought, o)) THEN NewDraft ELSE MirrorDraft
          /\ mAbandoned' = mAbandoned \/ mAbandoned' = "none"
      <4>1. CASE Drafts /\ ~OverBy(fought')
        BY <3>1, <4>1, MirrorRenews
      <4>2. CASE ~(Drafts /\ ~OverBy(fought'))
        BY <3>1, <4>2 DEF MirrorDraft, mirrorDraft
      <4> QED BY <4>1, <4>2
    <3>3. MirrorStage' = [board |-> [a EXCEPT !.prompt = "none"], fought |-> Append(fought, o),
                          closed |-> closure,
                          draft |-> IF Drafts /\ ~OverBy(Append(fought, o)) THEN NewDraft
                                    ELSE MirrorDraft]
      BY <1>6, <3>1, <3>2 DEF MirrorStage
    <3>4. MirrorStage' = Settles(MirrorStage, body)
      BY <1>2, <1>3, <1>4, <3>3 DEF Settles
    <3>5. Walk(MirrorStage, body) = Settles(MirrorStage, body)
      BY <1>1, <1>3, <1>4, <2>1 DEF Walk
    <3> QED BY <1>1, <1>6, <3>2, <3>4, <3>5 DEF Walks
  <2>2. CASE ~(body.over \/ a.capped)
    <3>1. board' = a /\ UNCHANGED <<fought, mirrorDraft>>
      BY <1>6, <2>2
    <3>2. MirrorDraft' = MirrorDraft /\ mAbandoned' = mAbandoned
      BY <3>1 DEF MirrorDraft, mirrorDraft
    <3>3. MirrorStage' = [board |-> a, fought |-> fought, closed |-> closure,
                          draft |-> MirrorDraft]
      BY <1>6, <3>1, <3>2 DEF MirrorStage
    <3>4. MirrorStage' = Goes(MirrorStage, body)
      BY <1>2, <1>3, <1>4, <3>3 DEF Goes
    <3>5. Walk(MirrorStage, body) = Goes(MirrorStage, body)
      BY <1>1, <1>3, <1>4, <2>2 DEF Walk
    <3> QED BY <1>1, <1>6, <3>2, <3>4, <3>5 DEF Walks
  <2> QED BY <2>1, <2>2
<1> QED BY <1>1, <1>4, <1>5, <1>6

\* A body is walked through, or it is the last one.
LEMMA ReceiveWalks ==
  ASSUME Receive
  PROVE Walks(Head(down)) \/ Stops
BY StartWalks, TurnWalks, DraftedWalksOn, ClosedWalks, RefusalWalks DEF Receive

\* The mirror of a welcome.
LEMMA FreshMirror ==
  ASSUME NewMirror
  PROVE MirrorStage' = FreshStage /\ mAbandoned' = "none" /\ ~MirrorOver' /\ link' = "joined"
<1>1. MirrorDraft' = NewDraft /\ mAbandoned' = "none"
  BY MirrorRenews DEF NewMirror
<1>2. board' = NoBoard /\ fought' = <<>> /\ closure' = FALSE /\ link' = "joined"
  BY DEF NewMirror
<1>3. ~OverBy(<<>>)
  BY TallyNone, Seats
<1>4. ~MirrorOver'
  BY <1>2, <1>3 DEF MirrorOver
<1> QED BY <1>1, <1>2, <1>4 DEF MirrorStage, FreshStage

-----------------------------------------------------------------------------
(* The invariant. *)

\* A client has a seat from the welcome on, and nothing on the wire before it.
Connected ==
  /\ link \in {"away", "joined", "lost", "left"}
  /\ me \in Seat \cup {"none"} /\ (link = "away" <=> me = "none")
  /\ link = "away" => down = <<>> /\ up = <<>>
  /\ back.times \in Nat /\ back.times <= Returns /\ (link = "lost" => back.times < Returns)
  /\ mAbandoned = "none"

\* Before both seats are taken there is nothing to tell.
Lobby == ~BothTaken => watched = <<>> /\ RoomDraft = NewDraft /\ course = <<>>

\* The seats are sent a draft's decisions as they are recorded.
Cursor == ~Finished => draftCursor = Len(entries)

Answers == Listed(up) /\ \A i \in 1..Len(up) : up[i].act \/ up[i].what \in Decisions(me)

Playing == link = "joined" => ~MirrorOver

\* Everything on the wire leads the mirror to where the room is.
OnTheWay ==
  \A seat \in Seat : seat = me /\ link = "joined" /\ Sound =>
    Whole(down) /\ \E to : Agree(seat, to) /\ Way(MirrorStage, to, down)

Orderly == Sound => Proper(MirrorStage)

Prompted ==
  Current /\ asked = me => choosing = "turn" \/ \E i \in 1..Len(up) : up[i].act

\* The record leads a fresh mirror there, while the first battle of a room without a
\* draft lasts.
OnRecord ==
  \A seat \in Seat :
    seat = me /\ back.times # Returns /\ ~Drafts /\ index <= 1 /\ ~Finished => CourseWay(seat)

MInv ==
  /\ IInv /\ Connected /\ Lobby /\ Cursor /\ Answers
  /\ Playing /\ OnTheWay /\ Orderly /\ Prompted /\ OnRecord

\* What the room may do beside one seat's client.
RoomActs(seat) ==
  \/ asked \in Seat /\ Resolved
  \/ \E hello : Join(hello)
  \/ \E s \in Seat \ {seat} : Left(s)
  \/ \E s \in Seat : DraftTimedOut(s)
  \/ \E s \in Seat : \E decision \in Decisions(s) : Decide(s, decision)

LEMMA RoomTells ==
  ASSUME IInv, IInv', Cursor, NEW seat \in Seat, NEW came \in CameTo, RoomActs(seat)
  PROVE (\A to : Agree(seat, to) => Arrives(seat, to, came)) /\ Noted(seat, came)
<1>1. CASE asked \in Seat /\ Resolved
  BY <1>1, AnswerTells, AnswerNotes
<1>2. CASE \E hello : Join(hello)
  BY <1>2, JoinTells, JoinNotes
<1>3. CASE \E s \in Seat \ {seat} : Left(s)
  BY <1>3, LeftTells, LeftNotes
<1>4. CASE \E s \in Seat : DraftTimedOut(s)
  <2>1. Noted(seat, came)
    BY <1>4 DEF Noted, DraftTimedOut, DraftOpen
  <2> QED BY <1>4, <2>1, DraftTimedOutTells
<1>5. CASE \E s \in Seat : \E decision \in Decisions(s) : Decide(s, decision)
  <2>1. Noted(seat, came) /\ draftCursor = Len(entries)
    BY <1>5 DEF Noted, Decide, DraftOpen, Cursor
  <2> QED BY <1>5, <2>1, DecideTells
<1> QED BY <1>1, <1>2, <1>3, <1>4, <1>5 DEF RoomActs

\* Nobody is told anything while the room gathers.
LEMMA StillGathering ==
  ASSUME IInv, IInv', [Next]_vars, ~BothTaken'
  PROVE ~BothTaken /\ watched' = watched /\ RoomDraft' = RoomDraft
<1>1. CASE UNCHANGED vars
  BY <1>1 DEF vars, match, logs, drafting, BothTaken, RoomDraft, D!ArrangedBoth, D!HasArranged
<1>2. CASE \E hello \in Hellos : Join(hello)
  <2>1. PICK hello : Join(hello)
    BY <1>2
  <2>2. FreeSeats # {} /\ ~BothTaken
    BY <2>1, LastSeat DEF Join, Gate
  <2>3. Cardinality(FreeSeats) # 1
    <3>1. SUFFICES ASSUME Cardinality(FreeSeats) = 1
                   PROVE FALSE
      OBVIOUS
    <3>2. FreeSeat \in FreeSeats /\ \A s \in Seat : s # FreeSeat => seated[s].taken
      BY <2>2, <3>1, LastSeat
    <3>3. \A s \in Seat : seated'[s].taken
      <4>1. seated \in [Seat -> [taken : BOOLEAN, token : Nat, squad : {"none", "ready"}]]
        BY DEF IInv, TypeOK
      <4>2. seated' = [seated EXCEPT ![FreeSeat] =
               [taken |-> TRUE, token |-> IF IssuesTokens THEN minted + 1 ELSE 0,
                squad |-> IF Drafts THEN "none" ELSE "ready"]]
        BY <2>1 DEF Join
      <4> QED BY <3>2, <4>1, <4>2
    <3> QED BY <3>3 DEF BothTaken
  <2>4. watched' = watched /\ UNCHANGED drafting
    BY <2>1, <2>3 DEF Join
  <2> QED BY <2>2, <2>4 DEF RoomDraft, drafting, D!ArrangedBoth, D!HasArranged
<1>3. ASSUME NEW s \in Seat, Left(s)
      PROVE ~BothTaken /\ watched' = watched /\ RoomDraft' = RoomDraft
  <2>1. CASE ~DraftOpen /\ ~fight /\ UNCHANGED watched
    <3>1. ~BothTaken
      BY <1>3, <2>1 DEF Left, IInv, Fights, DraftOpen
    <3> QED BY <1>3, <2>1, <3>1 DEF Left, RoomDraft, drafting, D!ArrangedBoth, D!HasArranged
  <2>2. CASE (DraftOpen \/ fight \/ played # <<>>) /\ UNCHANGED seated
    <3>1. BothTaken
      BY <2>2 DEF IInv, Fights, DraftOpen
    <3> QED BY <2>2, <3>1 DEF BothTaken
  <2> QED BY <1>3, <2>1, <2>2 DEF Left
<1>4. ASSUME NEW s \in Seat, asked = s, Resolved
      PROVE FALSE
  <2>1. fight /\ BothTaken
    BY <1>4, Seats DEF IInv, Fights
  <2>2. \A t \in Seat : seated'[t].taken = seated[t].taken
    BY <1>4, ResolvedGoesOn
  <2> QED BY <2>1, <2>2 DEF BothTaken
<1>5. ASSUME NEW s \in Seat, NEW decision \in Decisions(s), Decide(s, decision)
      PROVE FALSE
  <2>1. BothTaken /\ seated \in [Seat -> [taken : BOOLEAN, token : Nat, squad : {"none", "ready"}]]
    BY <1>5 DEF Decide, DraftOpen, IInv, TypeOK
  <2>2. seated' = seated \/ seated' = [t \in Seat |-> [seated[t] EXCEPT !.squad = "ready"]]
    BY <1>5 DEF Decide
  <2>3. \A t \in Seat : seated'[t].taken = seated[t].taken
    BY <2>1, <2>2
  <2> QED BY <2>1, <2>3 DEF BothTaken
<1>6. ASSUME NEW s \in Seat, DraftTimedOut(s)
      PROVE FALSE
  BY <1>6 DEF DraftTimedOut, DraftOpen, BothTaken
<1> QED BY <1>1, <1>2, <1>3, <1>4, <1>5, <1>6 DEF Next, Answer, TurnTimedOut

\* The seats' place in the draft's record.
LEMMA CursorKept ==
  ASSUME IInv, Cursor, [Next]_vars
  PROVE Cursor'
<1>1. CASE UNCHANGED vars
  BY <1>1 DEF vars, match, logs, drafting, Cursor, Finished
<1>2. CASE \E hello \in Hellos : Join(hello)
  <2>1. ~BothTaken
    BY <1>2, LastSeat DEF Join, Gate
  <2>2. ~Finished
    BY <2>1, Gathering
  <2> QED BY <1>2, <2>2 DEF Join, Cursor, drafting
<1>3. ASSUME NEW s \in Seat, Left(s)
      PROVE Cursor'
  BY <1>3 DEF Left, Cursor, drafting
<1>4. ASSUME NEW s \in Seat, asked = s, Resolved
      PROVE Cursor'
  <2>1. ~Finished
    BY <1>4, ResolvedGoesOn
  <2>2. UNCHANGED <<draftCursor, entries>> \/ (draftCursor' = 0 /\ entries' = <<>>)
    BY <1>4 DEF Resolved, Close, drafting, D!Renew
  <2> QED BY <2>1, <2>2 DEF Cursor
<1>5. ASSUME NEW s \in Seat, NEW decision \in Decisions(s), Decide(s, decision)
      PROVE Cursor'
  BY <1>5 DEF Decide, Cursor
<1>6. ASSUME NEW s \in Seat, DraftTimedOut(s)
      PROVE Cursor'
  BY <1>6 DEF DraftTimedOut, Cursor, Finished
<1> QED BY <1>1, <1>2, <1>3, <1>4, <1>5, <1>6 DEF Next, Answer, TurnTimedOut

-----------------------------------------------------------------------------
(* Every step keeps it. *)

\* What a step notes in the record.
LEMMA Notes ==
  ASSUME MirrorNext
  PROVE course' = course \/ ((\E came \in CameTo : Kept(came)) /\ back' = back)
BY DEF MirrorNext, Enter, Receive, Choose, Drop, Return, Deliver, Opponent, Missed, Clock, Sends,
       Kept, history

\* A client that has said something has a seat, and the oldest thing it said is an
\* act or a decision of its own.
LEMMA SaidByThem ==
  ASSUME Connected, Answers, up # <<>>
  PROVE /\ me \in Seat /\ Listed(Tail(up))
        /\ Head(up).act \/ Head(up).what \in Decisions(me)
        /\ \A i \in 1..Len(Tail(up)) : Tail(up)[i] = up[i + 1] /\ i + 1 \in 1..Len(up)
        /\ \A i \in 1..Len(up) : i # 1 => i - 1 \in 1..Len(Tail(up)) /\ Tail(up)[i - 1] = up[i]
        /\ Head(up) = up[1]
<1>1. Listed(up) /\ \A i \in 1..Len(up) : up[i].act \/ up[i].what \in Decisions(me)
  BY DEF Answers
<1>2. /\ Listed(Tail(up)) /\ Len(up) \in Nat \ {0} /\ Len(Tail(up)) = Len(up) - 1
      /\ Head(up) = up[1]
      /\ \A i \in 1..Len(up) - 1 : Tail(up)[i] = up[i + 1]
  BY <1>1, ListTail
<1>3. me \in Seat
  BY DEF Connected
<1>4. 1 \in 1..Len(up)
  BY <1>2
<1>5. Head(up).act \/ Head(up).what \in Decisions(me)
  BY <1>1, <1>2, <1>4
<1>6. ASSUME NEW i \in 1..Len(up), i # 1
      PROVE i - 1 \in 1..Len(Tail(up)) /\ Tail(up)[i - 1] = up[i]
  <2>1. PICK j : j = i - 1
    OBVIOUS
  <2>2. j \in 1..Len(up) - 1 /\ j + 1 = i
    BY <1>2, <1>6, <2>1
  <2> QED BY <1>2, <2>1, <2>2
<1>7. ASSUME NEW i \in 1..Len(Tail(up))
      PROVE Tail(up)[i] = up[i + 1] /\ i + 1 \in 1..Len(up)
  BY <1>2
<1> QED BY <1>2, <1>3, <1>5, <1>6, <1>7

\* A step of the client and its room is a step of the room, or none of it.
LEMMA RoomSteps ==
  ASSUME Connected, Answers, MirrorNext
  PROVE [Next]_vars
<1>1. Greeting \in Hellos
  BY RoomAssumption DEF Greeting, Hellos
<1>2. CASE Enter
  BY <1>1, <1>2 DEF Enter, Next
<1>3. CASE Receive \/ Choose \/ Drop \/ Return
  BY <1>3 DEF Receive, Choose, Drop, Return
<1>4. CASE Deliver
  <2>1. me \in Seat /\ (Head(up).act \/ Head(up).what \in Decisions(me))
    BY <1>4, SaidByThem DEF Deliver
  <2>2. \/ UNCHANGED vars
        \/ Answer(me)
        \/ ~Head(up).act /\ Decide(me, Head(up).what)
    BY <1>4 DEF Deliver
  <2> QED BY <2>1, <2>2 DEF Next
<1>5. CASE \E seat \in Seat : Clock(seat)
  BY <1>5 DEF Clock, TimedOut, Next
<1>6. CASE Opponent
  BY <1>1, <1>6 DEF Opponent, Next
<1>7. CASE Missed
  <2>1. me \in Seat
    BY <1>7 DEF Missed, Connected
  <2> QED BY <1>7, <2>1 DEF Missed, Next
<1> QED BY <1>2, <1>3, <1>4, <1>5, <1>6, <1>7 DEF MirrorNext

\* What holds of the room whatever its client does.
LEMMA RoomKeeps ==
  ASSUME IInv, Connected, Lobby, Cursor, Answers, MirrorNext
  PROVE IInv' /\ Lobby' /\ Cursor'
<1>1. [Next]_vars
  BY RoomSteps
<1>2. IInv'
  BY <1>1, StepKeeps
<1>3. Cursor'
  BY <1>1, CursorKept
<1>4. ASSUME ~BothTaken'
      PROVE watched' = <<>> /\ RoomDraft' = NewDraft /\ course' = <<>>
  <2>1. ~BothTaken /\ watched' = watched /\ RoomDraft' = RoomDraft
    BY <1>1, <1>2, <1>4, StillGathering
  <2>2. watched = <<>> /\ RoomDraft = NewDraft /\ course = <<>>
    BY <2>1 DEF Lobby
  <2>3. watched \in Seq(Body) /\ Listed(course)
    BY <2>2, NoWay DEF IInv, TypeOK
  <2>4. ASSUME NEW came, Kept(came)
        PROVE course' = <<>>
    <3>1. CASE back.times = Returns
      BY <2>4, <3>1 DEF Kept
    <3>2. CASE back.times # Returns
      BY <2>1, <2>2, <2>3, <2>4, <3>2, CourseKept
    <3> QED BY <3>1, <3>2
  <2> QED BY <2>1, <2>2, <2>4, Notes
<1>5. Lobby'
  <2>1. NewDraft' = NewDraft
    BY DEF NewDraft, NobodyArranged
  <2> QED BY <1>4, <2>1 DEF Lobby
<1> QED BY <1>2, <1>3, <1>5

\* Of two lists that break off nowhere, one behind the other.
LEMMA WholeOn ==
  ASSUME NEW s, NEW t, Listed(s), Listed(t), Whole(s), Whole(t)
  PROVE Whole(s \o t)
<1>1. /\ Len(s) \in Nat /\ Len(t) \in Nat /\ Len(s \o t) = Len(s) + Len(t)
      /\ \A i \in 1..Len(s) : (s \o t)[i] = s[i]
      /\ \A i \in 1..Len(t) : (s \o t)[Len(s) + i] = t[i]
  BY ListConcat
<1>2. PICK k, m, n : k = s \o t /\ m = Len(s) /\ n = Len(t)
  OBVIOUS
<1>3. SUFFICES ASSUME k # <<>>
               PROVE ~k[m + n].more
  BY <1>1, <1>2 DEF Whole
<1>4. CASE n # 0
  <2>1. t # <<>>
    BY <1>2, <1>4
  <2>2. k[m + n] = t[n] /\ ~t[n].more
    BY <1>1, <1>2, <1>4, <2>1 DEF Whole
  <2> QED BY <2>2
<1>5. CASE n = 0
  <2>1. t = <<>>
    BY <1>2, <1>5, EmptySeq DEF Listed
  <2>2. k = s
    BY <1>2, <2>1 DEF Listed
  <2> QED BY <1>2, <1>3, <1>5, <2>2, <1>1 DEF Whole
<1> QED BY <1>4, <1>5

\* A step of the room that nothing of the client has a part in, but what it said.
LEMMA BesideKeeps ==
  ASSUME MInv, IInv', Lobby', Cursor', Stays, UNCHANGED back, Sends,
         link # "away" => RoomActs(me), link = "away" => UNCHANGED up, Answers',
         (\E i \in 1..Len(up) : up[i].act) =>
           (\E i \in 1..Len(up') : up'[i].act) \/ (asked \in Seat /\ Resolved)
  PROVE MInv'
<1>1. PICK came \in CameTo :
        /\ Kept(came)
        /\ down' = IF link' = "joined" THEN down \o Written(me', came) ELSE down
  BY DEF Sends, Kept
<1>2. /\ UNCHANGED <<link, me, choosing, board, fought, closure, failed, mirrorDraft>>
      /\ MirrorStage' = MirrorStage /\ Sound' = Sound /\ mAbandoned' = mAbandoned
  BY DEF Stays, mirrorDraft, MirrorStage, MirrorDraft, Sound
<1>3. Connected'
  BY <1>1, <1>2 DEF MInv, Connected
<1>4. Playing'
  BY <1>2 DEF MInv, Playing, MirrorOver
<1>5. Orderly'
  BY <1>2 DEF MInv, Orderly
<1>6. ASSUME NEW seat \in Seat, seat = me
      PROVE /\ \A to : Agree(seat, to) => Arrives(seat, to, came)
            /\ Noted(seat, came)
  <2>1. RoomActs(seat)
    BY <1>6, Seats DEF MInv, Connected
  <2> QED BY <2>1, RoomTells DEF MInv
<1>7. ASSUME NEW seat \in Seat, seat = me', link' = "joined", Sound'
      PROVE /\ Whole(down') /\ \E c : Agree(seat, c)' /\ Way(MirrorStage', c, down')
            /\ down' = <<>> => down = <<>> /\ asked' = asked /\ ~(asked \in Seat /\ Resolved)
  <2>1. PICK to : Agree(seat, to) /\ Way(MirrorStage, to, down) /\ Whole(down)
    BY <1>2, <1>7 DEF MInv, OnTheWay
  <2>2. Arrives(seat, to, came)
    BY <1>2, <1>6, <1>7, <2>1
  <2>3. PICK w : w = Written(seat, came)
    OBVIOUS
  <2>4. PICK c : Agree(seat, c)' /\ Way(to, c, w) /\ Whole(w) /\ (w = <<>> => asked' = asked)
    BY <2>2, <2>3 DEF Arrives
  <2>5. down' = down \o w
    BY <1>1, <1>7, <2>3
  <2>6. Listed(down) /\ Listed(w)
    BY <2>1, <2>4 DEF Way
  <2>7. Whole(down')
    BY <2>1, <2>4, <2>5, <2>6, WholeOn
  <2>8. Way(MirrorStage', c, down')
    BY <1>2, <2>1, <2>4, <2>5, WayThrough
  <2>9. ASSUME down' = <<>>
        PROVE down = <<>> /\ w = <<>>
    <3>1. PICK k, a, b : k = down /\ a = Len(k) /\ b = Len(w)
      OBVIOUS
    <3>2. Listed(k) /\ a \in Nat /\ b \in Nat /\ Len(k \o w) = a + b /\ k \o w = <<>>
      BY <2>5, <2>6, <2>9, <3>1, ListConcat
    <3>3. a = 0 /\ b = 0
      BY <3>2
    <3> QED BY <2>6, <3>1, <3>2, <3>3, EmptySeq DEF Listed
  <2>10. ASSUME asked \in Seat, Resolved
         PROVE w # <<>>
    BY <2>1, <2>3, <2>10, AnswerTells DEF MInv
  <2> QED BY <2>4, <2>7, <2>8, <2>9, <2>10
<1>8. OnTheWay'
  BY <1>7 DEF OnTheWay
<1>9. Prompted'
  <2>1. SUFFICES ASSUME Current', asked' = me'
                 PROVE choosing' = "turn" \/ \E i \in 1..Len(up') : up'[i].act
    BY DEF Prompted
  <2>2. me' \in Seat /\ link' = "joined" /\ Sound' /\ down' = <<>>
    BY <1>3, <2>1 DEF Current, Connected
  <2>3. down = <<>> /\ asked' = asked /\ ~(asked \in Seat /\ Resolved)
    BY <1>7, <2>2
  <2>4. Current /\ asked = me
    BY <1>2, <2>1, <2>2, <2>3 DEF Current
  <2> QED BY <1>2, <2>3, <2>4 DEF MInv, Prompted
<1>10. ASSUME NEW seat \in Seat, seat = me', back'.times # Returns, ~Drafts, index' <= 1,
              ~Finished'
       PROVE CourseWay(seat)'
  <2>1. Noted(seat, came) /\ \A to : Agree(seat, to) => Arrives(seat, to, came)
    BY <1>2, <1>6, <1>10
  <2>2. index <= 1 /\ ~Finished
    BY <1>10, <2>1 DEF Noted
  <2>3. CourseWay(seat) /\ back.times # Returns
    BY <1>2, <1>10, <2>2 DEF MInv, OnRecord
  <2>4. watched \in Seq(Body) /\ (~BothTaken => course = <<>>)
    BY DEF MInv, IInv, TypeOK, Lobby
  <2> QED BY <1>1, <1>10, <2>1, <2>3, <2>4, CameBodied, CourseGrows
<1>11. OnRecord'
  BY <1>10 DEF OnRecord
<1> QED BY <1>3, <1>4, <1>5, <1>8, <1>9, <1>11 DEF MInv

\* A room that goes on is one a mirror may ask a turn in.
LEMMA AgreeProper ==
  ASSUME IInv, ~Finished, NEW seat \in Seat, NEW to, Agree(seat, to)
  PROVE Proper(to)
<1>1. /\ to.draft = RoomDraft
      /\ IF fight THEN to.board = RoomBoard(seat)
         ELSE to.board.prompt = "none" /\ to.board.read = Len(watched)
  BY DEF Agree
<1>2. CASE fight
  <2>1. Drafts => DraftOver(to.draft)
    BY <1>1, <1>2, InABattle, DoneIsOver
  <2> QED BY <2>1 DEF Proper
<1>3. CASE ~fight
  BY <1>1, <1>3 DEF Proper
<1> QED BY <1>2, <1>3

\* The room turns a step of the client's down: what it says changes nothing.
LEMMA RefusedKeeps ==
  ASSUME MInv, IInv', Lobby', Cursor', Stays, UNCHANGED <<vars, course, back>>,
         (Finished /\ down' = down) \/ (~Finished /\ Answered(Refused)),
         link # "away", Answers'
  PROVE MInv'
<1>1. /\ UNCHANGED <<link, me, choosing, board, fought, closure, failed, mirrorDraft>>
      /\ MirrorStage' = MirrorStage /\ Sound' = Sound /\ mAbandoned' = mAbandoned
  BY DEF Stays, mirrorDraft, MirrorStage, MirrorDraft, Sound
<1>2. /\ UNCHANGED <<asked, index, result, home, fight, turns, played, watched>>
      /\ UNCHANGED drafting
  BY DEF vars, match, logs
<1>3. RoomDraft' = RoomDraft /\ Finished' = Finished
  BY <1>2 DEF RoomDraft, drafting, D!ArrangedBoth, D!HasArranged, Finished
<1>4. \A seat, to : Agree(seat, to)' <=> Agree(seat, to)
  BY <1>2, <1>3 DEF Agree, RoomBoard, SideOf
<1>5. Connected'
  BY <1>1 DEF MInv, Connected
<1>6. Playing' /\ Orderly'
  BY <1>1 DEF MInv, Playing, MirrorOver, Orderly
<1>7. ASSUME NEW seat \in Seat, seat = me', link' = "joined", Sound'
      PROVE Whole(down') /\ \E c : Agree(seat, c)' /\ Way(MirrorStage', c, down')
  <2>1. PICK to : Agree(seat, to) /\ Way(MirrorStage, to, down) /\ Whole(down)
    BY <1>1, <1>7 DEF MInv, OnTheWay
  <2>2. CASE Finished /\ down' = down
    BY <1>1, <1>4, <2>1, <2>2
  <2>3. CASE ~Finished /\ Answered(Refused)
    <3>1. PICK x : x = Refused
      OBVIOUS
    <3>2. x.kind = "refused" /\ x.more = FALSE
      BY <3>1 DEF Refused, Blank
    <3>3. to = Walk(to, x) /\ Proper(to)
      BY <2>1, <2>3, <3>2, AgreeProper DEF Walk, MInv
    <3>4. down' = Append(down, x)
      BY <1>1, <1>7, <2>3, <3>1 DEF Answered
    <3>5. Way(MirrorStage, to, Append(down, x))
      BY <2>1, <3>3, WayOn
    <3>6. Whole(Append(down, x))
      <4>1. Way(to, to, <<x>>) /\ Whole(<<x>>)
        BY <3>2, <3>3, WalkOne DEF Whole
      <4>2. Listed(down) /\ Listed(<<x>>) /\ down \o <<x>> = Append(down, x)
        BY <2>1, <4>1, ListAppend DEF Way
      <4> QED BY <2>1, <4>1, <4>2, WholeOn
    <3> QED BY <1>1, <1>4, <2>1, <3>4, <3>5, <3>6
  <2> QED BY <2>2, <2>3
<1>8. OnTheWay'
  BY <1>7 DEF OnTheWay
<1>9. Prompted'
  <2>1. SUFFICES ASSUME Current', asked' = me'
                 PROVE choosing' = "turn" \/ \E i \in 1..Len(up') : up'[i].act
    BY DEF Prompted
  <2>2. me \in Seat /\ link = "joined" /\ Sound /\ down' = <<>>
    BY <1>1, <2>1 DEF MInv, Current, Connected
  <2>3. PICK to : Agree(me, to) /\ Way(MirrorStage, to, down)
    BY <2>2 DEF MInv, OnTheWay
  <2>4. CASE ~Finished /\ Answered(Refused)
    <3>1. PICK x, k : x = Refused /\ k = down
      OBVIOUS
    <3>2. Append(k, x) = <<>> /\ Listed(k)
      BY <2>2, <2>3, <2>4, <3>1 DEF Answered, Way
    <3> QED BY <3>2, ListAppend
  <2>5. CASE Finished /\ down' = down
    <3>1. asked = "none"
      BY <2>5 DEF MInv, IInv, Fights
    <3> QED BY <1>1, <1>2, <2>1, <2>2, <3>1, Seats
  <2> QED BY <2>4, <2>5
<1>10. OnRecord'
  <2>1. \A seat : ResumedFor(seat)' = ResumedFor(seat)
    BY <1>2 DEF ResumedFor, SideOf
  <2>2. \A seat : CourseWay(seat) => CourseWay(seat)'
    BY <1>4, <2>1 DEF CourseWay
  <2> QED BY <1>1, <1>2, <1>3, <2>2 DEF MInv, OnRecord
<1> QED BY <1>5, <1>6, <1>8, <1>9, <1>10 DEF MInv

\* The oldest answer reaches the room.
LEMMA DeliverKeeps ==
  ASSUME MInv, IInv', Lobby', Cursor', Deliver
  PROVE MInv'
<1>1. /\ up # <<>> /\ up' = Tail(up) /\ Stays /\ UNCHANGED <<back, forced>>
  BY DEF Deliver
<1>2. /\ me \in Seat /\ Listed(Tail(up))
      /\ Head(up).act \/ Head(up).what \in Decisions(me)
      /\ \A i \in 1..Len(Tail(up)) : Tail(up)[i] = up[i + 1] /\ i + 1 \in 1..Len(up)
      /\ \A i \in 1..Len(up) : i # 1 => i - 1 \in 1..Len(Tail(up)) /\ Tail(up)[i - 1] = up[i]
      /\ Head(up) = up[1]
  BY <1>1, SaidByThem DEF MInv
<1>3. link # "away" /\ me' = me
  BY <1>1, <1>2, Seats DEF MInv, Connected, Stays
<1>4. Answers'
  <2>1. \A i \in 1..Len(up) : up[i].act \/ up[i].what \in Decisions(me)
    BY DEF MInv, Answers
  <2>2. ASSUME NEW i \in 1..Len(up')
        PROVE up'[i].act \/ up'[i].what \in Decisions(me)
    <3>1. up'[i] = up[i + 1] /\ i + 1 \in 1..Len(up)
      BY <1>1, <1>2
    <3> QED BY <2>1, <3>1
  <2>3. Decisions(me)' = Decisions(me)
    BY <1>3
  <2> QED BY <1>1, <1>2, <2>2, <2>3 DEF Answers
<1>5. CASE Finished /\ UNCHANGED <<vars, down, course>>
  BY <1>1, <1>3, <1>4, <1>5, RefusedKeeps
<1>6. CASE ~Finished /\ Answered(Refused) /\ UNCHANGED <<vars, course>>
  BY <1>1, <1>3, <1>4, <1>6, RefusedKeeps
<1>7. CASE Answer(me) /\ Sends
  <2>1. asked \in Seat /\ Resolved
    BY <1>2, <1>7 DEF Answer
  <2> QED BY <1>1, <1>3, <1>4, <1>7, <2>1, BesideKeeps DEF RoomActs
<1>8. CASE ~Head(up).act /\ Decide(me, Head(up).what) /\ Sends
  <2>1. RoomActs(me)
    BY <1>2, <1>8 DEF RoomActs
  <2>2. ASSUME NEW i \in 1..Len(up), up[i].act
        PROVE \E j \in 1..Len(up') : up'[j].act
    <3>1. i # 1
      BY <1>2, <1>8, <2>2
    <3>2. i - 1 \in 1..Len(up') /\ up'[i - 1] = up[i]
      BY <1>1, <1>2, <3>1
    <3> QED BY <2>2, <3>2
  <2> QED BY <1>1, <1>3, <1>4, <1>8, <2>1, <2>2, BesideKeeps
<1> QED BY <1>5, <1>6, <1>7, <1>8 DEF Deliver

\* The clock, and the other player.
LEMMA OthersKeep ==
  ASSUME MInv, IInv', Lobby', Cursor', Opponent \/ \E seat \in Seat : Clock(seat)
  PROVE MInv'
<1>1. Stays /\ Sends /\ UNCHANGED <<up, back>>
  BY DEF Opponent, Clock
<1>2. RoomActs(me)
  BY DEF Opponent, Clock, TimedOut, TurnTimedOut, Answer, RoomActs
<1>3. Answers'
  <2>1. Decisions(me)' = Decisions(me) /\ up' = up
    BY <1>1 DEF Stays
  <2> QED BY <2>1 DEF MInv, Answers
<1> QED BY <1>1, <1>2, <1>3, BesideKeeps

\* The window closes on a seat nobody is at.
LEMMA MissedKeeps ==
  ASSUME MInv, IInv', Lobby', Cursor', Missed
  PROVE MInv'
<1>1. /\ Left(me) /\ link' = "left" /\ Sends
      /\ UNCHANGED <<up, back, forced, me, choosing, board, fought, closure, failed, mirrorDraft>>
      /\ me \in Seat
  BY DEF Missed, MInv, Connected
<1>2. MirrorStage' = MirrorStage /\ Sound' = Sound /\ mAbandoned' = mAbandoned
  BY <1>1 DEF mirrorDraft, MirrorStage, MirrorDraft, Sound
<1>3. Connected'
  BY <1>1, <1>2, Seats DEF MInv, Connected
<1>4. Answers'
  <2>1. Decisions(me)' = Decisions(me)
    BY <1>1
  <2> QED BY <1>1, <2>1 DEF MInv, Answers
<1>5. Playing' /\ OnTheWay' /\ Prompted'
  BY <1>1 DEF Playing, OnTheWay, Prompted, Current
<1>6. Orderly'
  BY <1>2 DEF MInv, Orderly
<1>7. PICK came \in CameTo : Kept(came)
  BY <1>1 DEF Sends, Kept
<1>8. ASSUME NEW seat \in Seat, seat = me', back'.times # Returns, ~Drafts, index' <= 1,
             ~Finished'
      PROVE CourseWay(seat)'
  <2>1. Left(seat)
    BY <1>1, <1>8
  <2>2. Noted(seat, came)
    BY <2>1, LeftNotes DEF MInv
  <2>3. CourseWay(seat) /\ back.times # Returns
    BY <1>1, <1>8, <2>2 DEF MInv, OnRecord, Noted
  <2>4. UNCHANGED <<played, standing, index, home, turns, minted, draftCursor, drafting>>
    BY <2>1 DEF Left
  <2>5. UNCHANGED <<result, fight, asked, sent, watched>>
    BY <1>8, <2>1 DEF Left, Finished
  <2>6. RoomDraft' = RoomDraft
    BY <2>4 DEF RoomDraft, drafting, D!ArrangedBoth, D!HasArranged
  <2>7. ASSUME NEW to, Agree(seat, to)
        PROVE Arrives(seat, to, came)
    <3>1. Agree(seat, to)'
      BY <2>4, <2>5, <2>6, <2>7 DEF Agree, Finished, RoomBoard, SideOf
    <3>2. sent \in [Seat -> Seq(Body)]
      BY DEF MInv, IInv, TypeOK
    <3> QED BY <2>5, <3>1, <3>2, Untold
  <2>8. watched \in Seq(Body) /\ (~BothTaken => course = <<>>)
    BY DEF MInv, IInv, TypeOK, Lobby
  <2> QED BY <1>7, <1>8, <2>2, <2>3, <2>7, <2>8, CameBodied, CourseGrows
<1>9. OnRecord'
  BY <1>8 DEF OnRecord
<1> QED BY <1>3, <1>4, <1>5, <1>6, <1>9 DEF MInv

\* A mirror before its first body is where a room that gathers is.
LEMMA FreshAgrees ==
  ASSUME IInv, Lobby, ~BothTaken, NEW seat \in Seat
  PROVE Agree(seat, FreshStage) /\ CourseWay(seat) /\ asked = "none"
<1>1. ~fight /\ ~Finished /\ played = <<>> /\ asked = "none"
  BY Gathering
<1>2. watched = <<>> /\ RoomDraft = NewDraft /\ course = <<>>
  BY DEF Lobby
<1>3. Tallied(seat, <<>>, <<>>) /\ Len(watched) = 0
  BY <1>2, TallyNone
<1>4. FreshStage.board = NoBoard /\ FreshStage.fought = <<>> /\ ~FreshStage.closed
      /\ FreshStage.draft = NewDraft
  BY DEF FreshStage
<1>5. NoBoard.prompt = "none" /\ NoBoard.read = 0
  BY DEF NoBoard
<1>6. Agree(seat, FreshStage)
  BY <1>1, <1>2, <1>3, <1>4, <1>5 DEF Agree
<1>7. ResumedFor(seat) = <<>>
  <2>1. DOMAIN <<>> = 1..0
    OBVIOUS
  <2>2. DOMAIN course = 1..0
    BY <1>2, <2>1
  <2>3. PICK r : r = ResumedFor(seat)
    OBVIOUS
  <2>4. r = [i \in 1..0 |-> r[i]]
    BY <2>2, <2>3 DEF ResumedFor
  <2>5. Listed(<<>>) /\ Len(<<>>) = 0
    BY NoWay
  <2>6. PICK e : e = <<>>
    OBVIOUS
  <2>7. Listed(e) /\ Len(e) = 0
    BY <2>5, <2>6
  <2>8. \A i \in 1..0 : r[i] = e[i]
    OBVIOUS
  <2>9. r = e
    BY <2>4, <2>7, <2>8, ListSame
  <2> QED BY <2>3, <2>6, <2>9
<1>8. CourseWay(seat)
  <2>1. Listed(course) /\ \A i \in 1..Len(course) : Bodied(course[i])
    BY <1>2, NoWay
  <2>2. Way(FreshStage, FreshStage, ResumedFor(seat))
    BY <1>7, NoWay
  <2> QED BY <1>6, <2>1, <2>2 DEF CourseWay
<1> QED BY <1>1, <1>6, <1>8

\* The client sits down.
LEMMA EnterKeeps ==
  ASSUME MInv, IInv', Lobby', Cursor', Enter
  PROVE MInv'
<1>1. /\ link = "away" /\ Join(Greeting) /\ me' = FreeSeat /\ NewMirror /\ Sends
      /\ UNCHANGED <<up, back, forced>> /\ down = <<>> /\ up = <<>> /\ me = "none"
  BY DEF Enter, MInv, Connected
<1>2. ~BothTaken /\ FreeSeat \in Seat
  BY <1>1, LastSeat DEF Join, Gate, FreeSeats
<1>3. PICK seat \in Seat : seat = FreeSeat
  BY <1>2
<1>4. Agree(seat, FreshStage) /\ CourseWay(seat) /\ asked = "none"
  BY <1>2, FreshAgrees DEF MInv
<1>5. PICK came \in CameTo :
        /\ Kept(came)
        /\ down' = IF link' = "joined" THEN down \o Written(me', came) ELSE down
  BY <1>1 DEF Sends, Kept
<1>6. MirrorStage' = FreshStage /\ mAbandoned' = "none" /\ ~MirrorOver' /\ link' = "joined"
  BY <1>1, FreshMirror
<1>7. \A to : Agree(seat, to) => Arrives(seat, to, came)
  BY <1>1, JoinTells DEF MInv
<1>8. PICK w : w = Written(seat, came)
  OBVIOUS
<1>9. PICK c : Agree(seat, c)' /\ Way(FreshStage, c, w) /\ Whole(w) /\ (w = <<>> => asked' = asked)
  BY <1>4, <1>7, <1>8 DEF Arrives
<1>10. down' = w
  <2>1. down' = <<>> \o w
    BY <1>1, <1>3, <1>5, <1>6, <1>8
  <2> QED BY <1>9, <2>1 DEF Way, Listed
<1>11. Connected'
  BY <1>1, <1>3, <1>6, Seats DEF MInv, Connected
<1>12. Answers'
  <2>1. Listed(<<>>) /\ Len(<<>>) = 0
    BY NoWay
  <2> QED BY <1>1, <2>1 DEF Answers
<1>13. Playing'
  BY <1>6 DEF Playing
<1>14. OnTheWay'
  BY <1>1, <1>3, <1>6, <1>9, <1>10 DEF OnTheWay
<1>15. Orderly'
  <2>1. Proper(FreshStage)
    BY DEF Proper, FreshStage, NoBoard
  <2> QED BY <1>6, <2>1 DEF Orderly
<1>16. Prompted'
  BY <1>1, <1>2, <1>4, <1>9, <1>10, Seats DEF Prompted, Current
<1>17. ASSUME back'.times # Returns, ~Drafts, index' <= 1, ~Finished'
       PROVE CourseWay(seat)'
  <2>1. Noted(seat, came)
    BY <1>1, JoinNotes DEF MInv
  <2>2. watched \in Seq(Body) /\ (~BothTaken => course = <<>>)
    BY DEF MInv, IInv, TypeOK, Lobby
  <2>3. back.times # Returns
    BY <1>1, <1>17
  <2> QED BY <1>4, <1>5, <1>7, <1>17, <2>1, <2>2, <2>3, CameBodied, CourseGrows
<1>18. OnRecord'
  BY <1>1, <1>3, <1>17 DEF OnRecord
<1> QED BY <1>11, <1>12, <1>13, <1>14, <1>15, <1>16, <1>18 DEF MInv

\* What the room is does not depend on its client.
LEMMA RoomStays ==
  ASSUME UNCHANGED vars
  PROVE /\ \A seat, to : Agree(seat, to)' <=> Agree(seat, to)
        /\ Finished' = Finished
        /\ \A seat : ResumedFor(seat)' = [i \in DOMAIN course' |->
              IF course'[i].kind = "start" THEN [course'[i] EXCEPT !.side = SideOf(seat)]
              ELSE course'[i]]
<1>1. /\ UNCHANGED <<asked, index, result, home, fight, turns, played, watched>>
      /\ UNCHANGED drafting
  BY DEF vars, match, logs
<1>2. RoomDraft' = RoomDraft /\ Finished' = Finished
  BY <1>1 DEF RoomDraft, drafting, D!ArrangedBoth, D!HasArranged, Finished
<1>3. \A seat, to : Agree(seat, to)' <=> Agree(seat, to)
  BY <1>1, <1>2 DEF Agree, RoomBoard, SideOf
<1>4. \A seat : ResumedFor(seat)' = [i \in DOMAIN course' |->
        IF course'[i].kind = "start" THEN [course'[i] EXCEPT !.side = SideOf(seat)]
        ELSE course'[i]]
  BY <1>1 DEF ResumedFor, SideOf
<1> QED BY <1>2, <1>3, <1>4

LEMMA RecordStays ==
  ASSUME OnRecord, UNCHANGED <<vars, me, course>>, back'.times # Returns => back.times # Returns
  PROVE OnRecord'
<1>1. /\ \A seat, to : Agree(seat, to)' <=> Agree(seat, to)
      /\ Finished' = Finished
      /\ \A seat : ResumedFor(seat)' = [i \in DOMAIN course' |->
            IF course'[i].kind = "start" THEN [course'[i] EXCEPT !.side = SideOf(seat)]
            ELSE course'[i]]
  BY RoomStays
<1>2. \A seat : ResumedFor(seat)' = ResumedFor(seat)
  BY <1>1 DEF ResumedFor
<1>3. \A seat : CourseWay(seat) => CourseWay(seat)'
  BY <1>1, <1>2 DEF CourseWay
<1>4. index' = index
  BY DEF vars, match
<1> QED BY <1>1, <1>3, <1>4 DEF OnRecord

\* The chooser comes back.
LEMMA ChooseKeeps ==
  ASSUME MInv, IInv', Lobby', Cursor', Choose
  PROVE MInv'
<1>1. /\ link = "joined" /\ choosing' = "nothing"
      /\ UNCHANGED <<vars, link, me, down, board, fought, closure, failed, mirrorDraft, history>>
  BY DEF Choose
<1>2. MirrorStage' = MirrorStage /\ Sound' = Sound /\ mAbandoned' = mAbandoned
      /\ UNCHANGED <<course, back>>
  BY <1>1 DEF mirrorDraft, MirrorStage, MirrorDraft, Sound, history
<1>3. \E x : /\ up' = Append(up, x) /\ (x.act \/ x.what \in Decisions(me))
             /\ choosing = "turn" => x.act
  <2>1. ASSUME NEW d \in Decisions(me), up' = Append(up, Decision(d)), choosing = "draft"
        PROVE \E x : /\ up' = Append(up, x) /\ (x.act \/ x.what \in Decisions(me))
                     /\ choosing = "turn" => x.act
    <3>1. PICK x : x = Decision(d)
      OBVIOUS
    <3>2. x.what = d
      BY <3>1 DEF Decision
    <3> QED BY <2>1, <3>1, <3>2
  <2>2. ASSUME up' = Append(up, Act)
        PROVE \E x : /\ up' = Append(up, x) /\ (x.act \/ x.what \in Decisions(me))
                     /\ choosing = "turn" => x.act
    <3>1. PICK x : x = Act
      OBVIOUS
    <3>2. x.act
      BY <3>1 DEF Act
    <3> QED BY <2>2, <3>1, <3>2
  <2> QED BY <2>1, <2>2 DEF Choose
<1>4. PICK x : /\ up' = Append(up, x) /\ (x.act \/ x.what \in Decisions(me))
               /\ choosing = "turn" => x.act
  BY <1>3
<1>5. PICK k : k = up
  OBVIOUS
<1>6. /\ Listed(k) /\ \A i \in 1..Len(k) : k[i].act \/ k[i].what \in Decisions(me)
      /\ up' = Append(k, x)
  BY <1>4, <1>5 DEF MInv, Answers
<1>7. /\ Listed(up') /\ Len(k) \in Nat /\ Len(up') = Len(k) + 1
      /\ \A i \in 1..Len(k) : up'[i] = k[i]
      /\ up'[Len(k) + 1] = x
  BY <1>6, ListAppend
<1>8. Answers'
  <2>1. Decisions(me)' = Decisions(me)
    BY <1>1
  <2>2. \A i \in 1..Len(up') : up'[i].act \/ up'[i].what \in Decisions(me)
    BY <1>4, <1>6, <1>7
  <2> QED BY <1>7, <2>1, <2>2 DEF Answers
<1>9. Connected' /\ Playing' /\ Orderly'
  BY <1>1, <1>2 DEF MInv, Connected, Playing, MirrorOver, Orderly
<1>10. OnTheWay'
  BY <1>1, <1>2, RoomStays DEF MInv, OnTheWay
<1>11. OnRecord'
  BY <1>1, <1>2, RecordStays DEF MInv
<1>12. Prompted'
  <2>1. SUFFICES ASSUME Current', asked' = me'
                 PROVE \E i \in 1..Len(up') : up'[i].act
    BY DEF Prompted
  <2>2. Current /\ asked = me
    BY <1>1, <1>2, <2>1 DEF Current, vars, match
  <2>3. CASE choosing = "turn"
    <3>1. x.act /\ up'[Len(k) + 1] = x /\ Len(k) + 1 \in 1..Len(up')
      BY <1>4, <1>7, <2>3
    <3> QED BY <3>1
  <2>4. CASE \E i \in 1..Len(up) : up[i].act
    <3>1. PICK i \in 1..Len(k) : k[i].act
      BY <1>5, <2>4
    <3>2. i \in 1..Len(up') /\ up'[i].act
      BY <1>7, <3>1
    <3> QED BY <3>2
  <2> QED BY <2>2, <2>3, <2>4 DEF MInv, Prompted
<1> QED BY <1>8, <1>9, <1>10, <1>11, <1>12 DEF MInv

\* The socket dies.
LEMMA DropKeeps ==
  ASSUME MInv, IInv', Lobby', Cursor', Drop
  PROVE MInv'
<1>1. /\ link = "joined" /\ link' = "lost" /\ back.times < Returns /\ down' = <<>>
      /\ UNCHANGED <<vars, me, board, fought, closure, failed, mirrorDraft, history>>
  BY DEF Drop
<1>2. MirrorStage' = MirrorStage /\ Sound' = Sound /\ mAbandoned' = mAbandoned
      /\ UNCHANGED <<course, back>>
  BY <1>1 DEF mirrorDraft, MirrorStage, MirrorDraft, Sound, history
<1>3. Connected'
  BY <1>1, <1>2 DEF MInv, Connected
<1>4. Answers'
  <2>1. Listed(up) /\ \A i \in 1..Len(up) : up[i].act \/ up[i].what \in Decisions(me)
    BY DEF MInv, Answers
  <2>2. PICK k, n : k = up /\ n \in 0..Len(up) /\ up' = SubSeq(up, 1, n)
    BY DEF Drop
  <2>3. PICK S : k \in Seq(S)
    BY <2>1, <2>2 DEF Listed
  <2>4. SubSeq(k, 1, n) \in Seq(S) /\ Len(SubSeq(k, 1, n)) = n
        /\ \A i \in 1..n : SubSeq(k, 1, n)[i] = k[i]
    BY <2>2, <2>3
  <2>5. Listed(up')
    BY <2>2, <2>4 DEF Listed
  <2>6. \A i \in 1..Len(up') : up'[i].act \/ up'[i].what \in Decisions(me)
    BY <2>1, <2>2, <2>3, <2>4
  <2>7. Decisions(me)' = Decisions(me)
    BY <1>1
  <2> QED BY <2>5, <2>6, <2>7 DEF Answers
<1>5. Playing' /\ OnTheWay' /\ Prompted' /\ Orderly'
  BY <1>1, <1>2 DEF MInv, Playing, OnTheWay, Prompted, Current, Orderly
<1>6. OnRecord'
  BY <1>1, <1>2, RecordStays DEF MInv
<1> QED BY <1>3, <1>4, <1>5, <1>6 DEF MInv

\* It dials again, and is handed the record.
LEMMA ReturnKeeps ==
  ASSUME MInv, IInv', Lobby', Cursor', Return
  PROVE MInv'
<1>1. /\ link = "lost" /\ ~Finished /\ NewMirror /\ down' = Resumed /\ up' = <<>>
      /\ UNCHANGED <<vars, me, course, forced>>
      /\ back' = [times |-> back.times + 1, during |-> index]
  BY DEF Return
<1>2. /\ me \in Seat /\ me' = me /\ back.times \in Nat /\ back.times < Returns
      /\ back'.times = back.times + 1 /\ back'.during = index
  BY <1>1, Seats DEF MInv, Connected
<1>3. MirrorStage' = FreshStage /\ mAbandoned' = "none" /\ ~MirrorOver' /\ link' = "joined"
  BY <1>1, FreshMirror
<1>4. PICK seat \in Seat : seat = me
  BY <1>2
<1>5. Connected'
  BY <1>2, <1>3, Seats, MirrorAssumption DEF MInv, Connected
<1>6. Answers'
  <2>1. Listed(<<>>) /\ Len(<<>>) = 0
    BY NoWay
  <2> QED BY <1>1, <2>1 DEF Answers
<1>7. Playing'
  BY <1>3 DEF Playing
<1>8. Orderly'
  <2>1. Proper(FreshStage)
    BY DEF Proper, FreshStage, NoBoard
  <2> QED BY <1>3, <2>1 DEF Orderly
<1>9. ASSUME Sound'
      PROVE /\ Whole(down') /\ \E to : Agree(seat, to)' /\ Way(MirrorStage', to, down')
            /\ down' = <<>> => asked' # seat
  <2>1. ~Drafts /\ index <= 1
    BY <1>2, <1>9 DEF Sound
  <2>2. CourseWay(seat)
    BY <1>1, <1>2, <1>4, <2>1 DEF MInv, OnRecord
  <2>3. PICK to : Agree(seat, to) /\ Way(FreshStage, to, ResumedFor(seat))
    BY <2>2 DEF CourseWay
  <2>4. down' = ResumedFor(seat)
    BY <1>1, <1>4 DEF Resumed, ResumedFor
  <2>5. Agree(seat, to)'
    BY <1>1, <2>3, RoomStays
  <2>6. Whole(down')
    <3>1. PICK r : r = ResumedFor(seat)
      OBVIOUS
    <3>2. Listed(course) /\ \A i \in 1..Len(course) : Bodied(course[i])
      BY <2>2 DEF CourseWay
    <3>3. DOMAIN course = 1..Len(course) /\ Len(course) \in Nat
      BY <3>2, ListDomain
    <3>4. Listed(r)
      BY <2>3, <3>1 DEF Way
    <3>5. DOMAIN r = 1..Len(r) /\ Len(r) \in Nat
      BY <3>4, ListDomain
    <3>6. r = [i \in 1..Len(course) |->
                 IF course[i].kind = "start" THEN [course[i] EXCEPT !.side = SideOf(seat)]
                 ELSE course[i]]
      BY <3>1, <3>3 DEF ResumedFor
    <3>7. Len(r) = Len(course)
      <4>1. 1..Len(r) = 1..Len(course)
        BY <3>5, <3>6
      <4> QED BY <3>3, <3>5, <4>1, IntervalSame
    <3>8. ASSUME NEW i \in 1..Len(course)
          PROVE ~r[i].more
      <4>1. PICK x, side : x = course[i] /\ side = SideOf(seat)
        OBVIOUS
      <4>2. x = [kind |-> x.kind, battle |-> x.battle, side |-> x.side, walked |-> x.walked,
                 asks |-> x.asks, over |-> x.over, winner |-> x.winner, entry |-> x.entry,
                 more |-> FALSE]
        BY <3>2, <4>1 DEF Bodied
      <4>3. r[i] = IF x.kind = "start" THEN [x EXCEPT !.side = side] ELSE x
        BY <3>6, <4>1
      <4>4. x.more = FALSE
        BY <4>2
      <4>5. [x EXCEPT !.side = side].more = FALSE
        BY <4>2
      <4> QED BY <4>3, <4>4, <4>5
    <3>9. SUFFICES ASSUME r # <<>>
                   PROVE ~r[Len(r)].more
      BY <2>4, <3>1 DEF Whole
    <3>10. Len(r) # 0
      BY <3>4, <3>9, EmptySeq DEF Listed
    <3>11. Len(r) \in 1..Len(course)
      BY <3>5, <3>7, <3>10
    <3> QED BY <3>8, <3>11
  <2>7. ASSUME down' = <<>>
        PROVE asked' # seat
    <3>1. to = FreshStage
      BY <2>3, <2>4, <2>7, WayEmpty
    <3>2. ~FreshStage.board.open
      BY DEF FreshStage, NoBoard
    <3>3. ~fight
      BY <1>1, <2>3, <3>1, <3>2 DEF Agree, RoomBoard
    <3>4. asked = "none"
      BY <3>3 DEF MInv, IInv, Fights
    <3> QED BY <1>1, <3>4, Seats DEF vars, match
  <2> QED BY <1>3, <2>3, <2>4, <2>5, <2>6, <2>7
<1>10. OnTheWay'
  BY <1>2, <1>4, <1>9 DEF OnTheWay
<1>11. Prompted'
  BY <1>2, <1>4, <1>9 DEF Prompted, Current
<1>12. OnRecord'
  BY <1>1, <1>2, RecordStays DEF MInv
<1> QED BY <1>5, <1>6, <1>7, <1>8, <1>10, <1>11, <1>12 DEF MInv

\* A mirror whose draft is over is not asked about it.
LEMMA NoDraftLeft ==
  /\ mAbandoned = "none" /\ (Drafts => DraftOver(MirrorDraft)) => ~DraftAsksMe
  /\ mAbandoned' = "none" /\ (Drafts => DraftOver(MirrorDraft')) => ~DraftAsksMe'
<1>1. \A s \in Seat : s \in MD!Seat
  BY DEF Seat, D!Seat, MD!Seat
<1>2. ASSUME mAbandoned = "none", Drafts => DraftOver(MirrorDraft)
      PROVE ~DraftAsksMe
  <2>1. SUFFICES ASSUME Drafts
                 PROVE ~MD!Arranging /\ MD!Picked
    BY DEF DraftAsksMe, MD!AwaitingArrangement, MD!Due
  <2>2. /\ ~mAwaiting /\ mBans = 2 * BansPerSide /\ mPicks = 2 * PicksPerSide
        /\ \A s \in Seat : mArranged[s] # <<>>
    BY <1>2, <2>1 DEF DraftOver, MirrorDraft
  <2> QED BY <1>2, <2>2 DEF MD!Picked, MD!Cancelled, MD!Arranging, MD!ArrangedBoth,
                            MD!HasArranged, Seat, D!Seat, MD!Seat
<1>3. ASSUME mAbandoned' = "none", Drafts => DraftOver(MirrorDraft')
      PROVE ~DraftAsksMe'
  <2>1. SUFFICES ASSUME Drafts
                 PROVE ~MD!Arranging' /\ MD!Picked'
    BY DEF DraftAsksMe, MD!AwaitingArrangement, MD!Due
  <2>2. /\ ~mAwaiting' /\ mBans' = 2 * BansPerSide /\ mPicks' = 2 * PicksPerSide
        /\ \A s \in Seat : mArranged'[s] # <<>>
    BY <1>3, <2>1 DEF DraftOver, MirrorDraft
  <2> QED BY <1>3, <2>2 DEF MD!Picked, MD!Cancelled, MD!Arranging, MD!ArrangedBoth,
                            MD!HasArranged, Seat, D!Seat, MD!Seat
<1> QED BY <1>2, <1>3

\* A mirror that has caught up with a room that asks its seat for a turn is asked.
LEMMA AskedHere ==
  ASSUME IInv', NEW seat \in Seat, seat = me', asked' = seat, ~Finished', Agree(seat, MirrorStage)',
         Proper(MirrorStage'), mAbandoned' = "none"
  PROVE Question(DraftAsksMe', Asking') = "turn"
<1>1. fight'
  BY Seats DEF IInv, Fights
<1>2. board' = RoomBoard(seat)'
  BY <1>1 DEF Agree, MirrorStage
<1>3. RoomBoard(seat)' = [open |-> TRUE, prompt |-> SideUnder(home', seat),
                          side |-> SideUnder(home', seat), index |-> index', turns |-> turns',
                          capped |-> FALSE, read |-> Len(watched')]
  BY Seats DEF RoomBoard, Half, SideOf
<1>4. SideUnder(home', seat) \in {"ally", "enemy"}
  BY Sides
<1>5. /\ board'.open /\ board'.prompt = board'.side /\ board'.prompt # "none" /\ ~board'.capped
  BY <1>2, <1>3, <1>4
<1>6. Asking'
  BY <1>5 DEF Asking
<1>7. ~DraftAsksMe'
  <2>1. MirrorStage'.board = board' /\ MirrorStage'.draft = MirrorDraft'
    BY DEF MirrorStage
  <2> QED BY <1>5, <2>1, NoDraftLeft DEF Proper
<1> QED BY <1>6, <1>7 DEF Question

\* A body is read.
LEMMA ReceiveKeeps ==
  ASSUME MInv, IInv', Lobby', Cursor', Receive
  PROVE MInv'
<1>1. /\ link = "joined" /\ down # <<>> /\ down' = Tail(down) /\ UNCHANGED <<vars, me, up, history>>
  BY DEF Receive
<1>2. Sound' = Sound /\ UNCHANGED <<course, back>>
  BY <1>1 DEF Sound, history
<1>3. \A seat, to : Agree(seat, to)' <=> Agree(seat, to)
  BY <1>1, RoomStays
<1>4. PICK body, stage : body = Head(down) /\ stage = Walk(MirrorStage, body)
  OBVIOUS
<1>5. Answers'
  <2>1. Decisions(me)' = Decisions(me)
    BY <1>1
  <2> QED BY <1>1, <2>1 DEF MInv, Answers
<1>6. OnRecord'
  BY <1>1, <1>2, RecordStays DEF MInv
<1>7. CASE Stops
  <2>1. /\ link' = "left" /\ UNCHANGED <<board, fought, closure, mirrorDraft>>
        /\ MirrorStage' = MirrorStage /\ mAbandoned' = mAbandoned
    BY <1>7 DEF Stops, MirrorStage, MirrorDraft, mirrorDraft
  <2>2. Connected'
    BY <1>1, <1>2, <2>1 DEF MInv, Connected
  <2>3. Playing' /\ OnTheWay' /\ Prompted'
    BY <2>1 DEF Playing, OnTheWay, Prompted, Current
  <2>4. Orderly'
    BY <1>2, <2>1 DEF MInv, Orderly
  <2> QED BY <1>5, <1>6, <2>2, <2>3, <2>4 DEF MInv
<1>8. CASE Walks(body)
  <2>1. /\ MirrorStage' = stage
        /\ mAbandoned' = "none"
        /\ IF body.kind = "drafted" /\ body.more
           THEN choosing' = "nothing" /\ UNCHANGED <<link, board, fought, closure>>
           ELSE Stepped
    BY <1>4, <1>8 DEF Walks, MInv, Connected
  <2>2. /\ link' \in {"joined", "left"}
        /\ link' = "joined" => ~MirrorOver'
    <3>1. CASE UNCHANGED <<link, board, fought, closure>>
      BY <1>1, <3>1 DEF MInv, Playing, MirrorOver
    <3>2. CASE Stepped
      BY <1>1, <3>2 DEF Stepped
    <3> QED BY <2>1, <3>1, <3>2
  <2>3. Connected'
    BY <1>1, <1>2, <2>1, <2>2 DEF MInv, Connected
  <2>4. Playing'
    BY <2>2 DEF Playing
  <2>5. ASSUME NEW seat \in Seat, seat = me, Sound
        PROVE /\ Proper(stage) /\ Whole(Tail(down)) /\ (Tail(down) = <<>> => ~body.more)
              /\ \E to : Agree(seat, to) /\ Way(stage, to, Tail(down))
    <3>1. PICK to, k : Agree(seat, to) /\ Way(MirrorStage, to, k) /\ Whole(k) /\ k = down
      BY <1>1, <2>5 DEF MInv, OnTheWay
    <3>2. Way(Walk(MirrorStage, Head(k)), to, Tail(k)) /\ Proper(Walk(MirrorStage, Head(k)))
      BY <1>1, <3>1, WayTail
    <3>3. /\ Listed(Tail(k)) /\ Len(k) \in Nat \ {0} /\ Len(Tail(k)) = Len(k) - 1
          /\ Head(k) = k[1]
          /\ \A i \in 1..Len(k) - 1 : Tail(k)[i] = k[i + 1]
      BY <1>1, <3>1, ListTail DEF Way
    <3>4. ~k[Len(k)].more
      BY <1>1, <3>1 DEF Whole
    <3>5. PICK t, m, n : t = Tail(k) /\ m = Len(k) /\ n = Len(t)
      OBVIOUS
    <3>6. ASSUME t # <<>>
          PROVE ~t[n].more
      <4>1. n # 0
        BY <3>3, <3>5, <3>6, EmptySeq DEF Listed
      <4>2. n \in 1..m - 1 /\ n + 1 = m
        BY <3>3, <3>5, <4>1
      <4>3. t[n] = k[n + 1]
        BY <3>3, <3>5, <4>2
      <4> QED BY <3>4, <3>5, <4>2, <4>3
    <3>7. ASSUME t = <<>>
          PROVE ~body.more
      <4>1. m = 1
        BY <3>3, <3>5, <3>7
      <4> QED BY <1>4, <3>1, <3>3, <3>4, <3>5, <4>1
    <3>8. Whole(t)
      BY <3>5, <3>6 DEF Whole
    <3> QED BY <1>4, <3>1, <3>2, <3>5, <3>7, <3>8
  <2>6. OnTheWay'
    BY <1>1, <1>2, <1>3, <2>1, <2>5 DEF OnTheWay
  <2>7. Orderly'
    <3>1. me \in Seat
      BY <1>1 DEF MInv, Connected
    <3> QED BY <1>2, <2>1, <2>5, <3>1 DEF Orderly
  <2>8. Prompted'
    <3>1. SUFFICES ASSUME Current', asked' = me'
                   PROVE choosing' = "turn"
      BY DEF Prompted
    <3>2. me \in Seat /\ me' = me /\ Sound /\ down' = <<>> /\ link' = "joined"
      BY <1>1, <1>2, <3>1 DEF MInv, Connected, Current
    <3>3. PICK seat \in Seat : seat = me
      BY <3>2
    <3>4. PICK to : Agree(seat, to)' /\ Way(stage, to, <<>>) /\ ~body.more /\ Proper(stage)
      BY <1>1, <1>3, <2>5, <3>2, <3>3
    <3>5. Agree(seat, stage)'
      BY <3>4, WayEmpty
    <3>6. Stepped /\ ~MirrorOver' /\ link' = "joined"
      BY <2>1, <2>2, <3>2, <3>4
    <3>7. ~Finished'
      <4>1. stage.closed = closure' /\ stage.fought = fought'
        BY <2>1 DEF MirrorStage
      <4> QED BY <3>5, <3>6, <4>1 DEF Agree, MirrorOver
    <3>8. Agree(seat, MirrorStage)'
      BY <2>1, <3>5 DEF Agree
    <3>9. choosing' = Question(DraftAsksMe', Asking')
      BY <3>6 DEF Stepped
    <3> QED BY <2>1, <3>1, <3>2, <3>3, <3>4, <3>7, <3>8, <3>9, AskedHere
  <2> QED BY <1>5, <1>6, <2>3, <2>4, <2>6, <2>7, <2>8 DEF MInv
<1> QED BY <1>4, <1>7, <1>8, ReceiveWalks

\* Before anybody sits down, and no client is there.
LEMMA MirrorInitially ==
  ASSUME MirrorInit
  PROVE MInv
<1>1. IInv
  BY Initially DEF MirrorInit
<1>2. /\ link = "away" /\ me = "none" /\ down = <<>> /\ up = <<>>
      /\ board = NoBoard /\ fought = <<>> /\ closure = FALSE
      /\ course = <<>> /\ back = [times |-> 0, during |-> 0] /\ MD!Init /\ Init
  BY DEF MirrorInit
<1>3. Connected
  BY <1>2, Seats, MirrorAssumption DEF Connected, MD!Init
<1>4. watched = <<>> /\ draftCursor = 0 /\ D!Init
  BY <1>2 DEF Init
<1>5. Lobby
  <2>1. RoomDraft = NewDraft
    <3>1. ~D!ArrangedBoth
      BY <1>4 DEF D!Init, D!ArrangedBoth, D!HasArranged, D!Seat
    <3> QED BY <1>4, <3>1 DEF RoomDraft, NewDraft, D!Init, NobodyArranged, Seat
  <2> QED BY <1>2, <1>4, <2>1 DEF Lobby
<1>6. Cursor
  BY <1>4 DEF Cursor, D!Init
<1>7. Answers
  <2>1. Listed(<<>>) /\ Len(<<>>) = 0
    BY NoWay
  <2> QED BY <1>2, <2>1 DEF Answers
<1>8. Playing /\ OnTheWay /\ Prompted
  BY <1>2 DEF Playing, OnTheWay, Prompted, Current
<1>9. Orderly
  BY <1>2 DEF Orderly, Proper, MirrorStage, NoBoard
<1>10. OnRecord
  BY <1>2, Seats DEF OnRecord
<1> QED BY <1>1, <1>3, <1>5, <1>6, <1>7, <1>8, <1>9, <1>10 DEF MInv

\* And every step keeps it.
LEMMA MirrorStepKeeps ==
  ASSUME MInv, [MirrorNext]_mirrorVars
  PROVE MInv'
<1>1. CASE MirrorNext
  <2>1. IInv' /\ Lobby' /\ Cursor'
    BY <1>1, RoomKeeps DEF MInv
  <2> QED BY <1>1, <2>1, EnterKeeps, ReceiveKeeps, ChooseKeeps, DropKeeps, ReturnKeeps,
             DeliverKeeps, OthersKeep, MissedKeeps DEF MirrorNext
<1>2. CASE UNCHANGED mirrorVars
  <2>1. /\ UNCHANGED <<link, me, down, up, choosing, board, fought, closure, failed>>
        /\ UNCHANGED <<mirrorDraft, course, back, vars>>
    BY <1>2 DEF mirrorVars, client, history
  <2>2. /\ MirrorStage' = MirrorStage /\ Sound' = Sound /\ mAbandoned' = mAbandoned
        /\ Decisions(me)' = Decisions(me)
    BY <2>1 DEF mirrorDraft, MirrorStage, MirrorDraft, Sound
  <2>3. IInv'
    BY <2>1, StepKeeps DEF MInv
  <2>4. Cursor'
    BY <2>1, CursorKept DEF MInv
  <2>5. Lobby'
    BY <2>1 DEF MInv, Lobby, vars, match, logs, drafting, BothTaken, RoomDraft, D!ArrangedBoth,
                D!HasArranged
  <2>6. Connected' /\ Answers' /\ Playing' /\ Orderly'
    BY <2>1, <2>2 DEF MInv, Connected, Answers, Playing, MirrorOver, Orderly
  <2>7. OnTheWay'
    BY <2>1, <2>2, RoomStays DEF MInv, OnTheWay
  <2>8. Prompted'
    BY <2>1, <2>2 DEF MInv, Prompted, Current, vars, match
  <2>9. OnRecord'
    BY <2>1, RecordStays DEF MInv
  <2> QED BY <2>3, <2>4, <2>5, <2>6, <2>7, <2>8, <2>9 DEF MInv
<1> QED BY <1>1, <1>2

-----------------------------------------------------------------------------
(* One answer at a time. *)

\* An arrangement is in only once everything is picked.
Late == Drafts /\ ~Finished => \A s \in Seat : D!HasArranged(s) => D!Picked

\* Draft.Arrange takes an arrangement only once the picks are in, and Room.redraft
\* drops the arrangements with the picks.
LEMMA LateKept ==
  ASSUME IInv, Late, [Next]_vars
  PROVE Late'
<1>1. ASSUME UNCHANGED <<result, drafting>>
      PROVE Late'
  BY <1>1 DEF Late, Finished, drafting, D!HasArranged, D!Picked, D!Cancelled
<1>2. CASE UNCHANGED vars
  BY <1>1, <1>2 DEF vars, match
<1>3. CASE \E hello \in Hellos : Join(hello)
  BY <1>1, <1>3 DEF Join
<1>4. ASSUME NEW s \in Seat, Left(s)
      PROVE Late'
  <2>1. CASE UNCHANGED result
    BY <1>1, <1>4, <2>1 DEF Left
  <2>2. CASE result' = [verdict |-> "abandoned", winner |-> "none", departed |-> s]
    BY <2>2 DEF Late, Finished
  <2> QED BY <1>4, <2>1, <2>2 DEF Left
<1>5. ASSUME NEW s \in Seat, asked = s, Resolved
      PROVE Late'
  <2>1. CASE UNCHANGED <<result, drafting>>
    BY <1>1, <2>1
  <2>2. CASE D!Renew
    <3>1. \A t \in Seat : arranged'[t] = <<>>
      BY <2>2 DEF D!Renew, Seat
    <3> QED BY <3>1 DEF Late, D!HasArranged
  <2>3. CASE Finished'
    BY <2>3 DEF Late
  <2>4. PICK o : \/ UNCHANGED <<result, drafting>>
                 \/ Close(o, Told(TurnBody(index)), Append(watched, TurnBody(index)))
    BY <1>5 DEF Resolved
  <2>5. UNCHANGED <<result, drafting>> \/ D!Renew \/ Finished'
    BY <2>4 DEF Close, Finished
  <2> QED BY <2>1, <2>2, <2>3, <2>5
<1>6. ASSUME NEW s \in Seat, NEW decision \in Decisions(s), Decide(s, decision)
      PROVE Late'
  <2>1. /\ Drafts /\ ~Finished /\ decision.step # "timeout" /\ D!Apply(decision)
    BY <1>6 DEF Decide, DraftOpen
  <2>2. CASE ~D!Picked /\ arranged' = arranged
    BY <2>1, <2>2 DEF Late, D!HasArranged
  <2>3. CASE D!Picked /\ UNCHANGED <<bans, picks, awaiting, abandoned>>
    BY <2>3 DEF Late, D!Picked, D!Cancelled
  <2>4. \/ ~D!Picked /\ arranged' = arranged
        \/ D!Picked /\ UNCHANGED <<bans, picks, awaiting, abandoned>>
    BY <2>1 DEF D!Apply, D!Ban, D!SkipBan, D!Pick, D!Loadout, D!Arrange, D!Due, D!Arranging
  <2> QED BY <2>2, <2>3, <2>4
<1>7. ASSUME NEW s \in Seat, DraftTimedOut(s)
      PROVE Late'
  BY <1>7 DEF DraftTimedOut, Late, Finished
<1> QED BY <1>2, <1>3, <1>4, <1>5, <1>6, <1>7 DEF Next, Answer, TurnTimedOut

\* The room acts only while the match goes on.
LEMMA ActsBeforeTheEnd ==
  ASSUME IInv, NEW seat \in Seat, RoomActs(seat)
  PROVE ~Finished
<1>1. CASE asked \in Seat /\ Resolved
  BY <1>1, ResolvedGoesOn
<1>2. CASE \E hello : Join(hello)
  <2>1. ~BothTaken
    BY <1>2, LastSeat DEF Join, Gate
  <2> QED BY <2>1, Gathering
<1> QED BY <1>1, <1>2 DEF RoomActs, Left, DraftTimedOut, Decide, DraftOpen

\* What is written to a seat that has arranged and waits for the other one: nothing.
LEMMA ArrangedIsSilent ==
  ASSUME IInv, Late, Cursor, NEW seat \in Seat, RoomActs(seat), Drafts, ~Finished',
         D!Arranging', D!HasArranged(seat)'
  PROVE /\ sent'[seat] = sent[seat]
        /\ D!Arranging
<1>1. ~Finished
  BY ActsBeforeTheEnd
<1>2. ASSUME UNCHANGED <<sent, drafting>>
      PROVE sent'[seat] = sent[seat] /\ D!Arranging
  BY <1>2 DEF drafting, D!Arranging, D!Picked, D!Cancelled, D!ArrangedBoth, D!HasArranged
<1>3. CASE asked \in Seat /\ Resolved
  <2>1. D!Done
    BY <1>3, Seats DEF IInv, Fights
  <2>2. PICK o : \/ UNCHANGED drafting
                 \/ Close(o, Told(TurnBody(index)), Append(watched, TurnBody(index)))
    BY <1>3 DEF Resolved
  <2>3. ~UNCHANGED drafting
    BY <2>1 DEF drafting, D!Done, D!Arranging, D!Picked, D!Cancelled, D!ArrangedBoth, D!HasArranged
  <2>4. D!Renew
    BY <2>2, <2>3 DEF Close
  <2>5. arranged'[seat] = <<>>
    BY <2>4 DEF D!Renew, Seat
  <2> QED BY <2>5 DEF D!HasArranged
<1>4. CASE \E hello : Join(hello)
  <2>1. UNCHANGED <<sent, drafting>>
    BY <1>4 DEF Join
  <2> QED BY <1>2, <2>1
<1>5. CASE \E s \in Seat \ {seat} : Left(s)
  <2>1. UNCHANGED <<sent, drafting>>
    BY <1>5 DEF Left, Finished
  <2> QED BY <1>2, <2>1
<1>6. CASE \E s \in Seat : DraftTimedOut(s)
  BY <1>6 DEF DraftTimedOut, Finished
<1>7. CASE \E s \in Seat : \E decision \in Decisions(s) : Decide(s, decision)
  <2>1. PICK s \in Seat : \E d \in Decisions(s) : Decide(s, d)
    BY <1>7
  <2>2. PICK decision \in Decisions(s) : Decide(s, decision)
    BY <2>1
  <2>3. D!Apply(decision) /\ decision.step # "timeout" /\ decision.seat = s
    BY <2>2 DEF Decide
  <2>4. CASE ~D!Picked /\ arranged' = arranged
    <3>1. ~D!HasArranged(seat)
      BY <1>1, <2>4 DEF Late
    <3> QED BY <2>4, <3>1 DEF D!HasArranged
  <2>5. CASE D!Arrange(s, decision.what)
    <3>1. ~D!HasArranged(Other(s))
      <4>1. SUFFICES ASSUME D!HasArranged(Other(s))
                     PROVE D!ArrangedBoth'
        BY DEF D!Arranging
      <4>2. /\ arranged' = [arranged EXCEPT ![s] = decision.what]
            /\ decision.what \in D!Arrangements
        BY <2>5 DEF D!Arrange
      <4>3. arranged \in [Seat -> D!Arrangements \cup {<<>>}] /\ Other(s) \in Seat /\ Other(s) # s
        BY Seats DEF IInv, RecordTyped
      <4>4. arranged'[Other(s)] # <<>>
        BY <4>1, <4>2, <4>3 DEF D!HasArranged
      <4>5. arranged'[s] # <<>>
        <5>1. arranged'[s] = decision.what
          BY <4>2, <4>3
        <5>2. DOMAIN decision.what = 1..PicksPerSide /\ 1 \in 1..PicksPerSide
          BY <4>2, RoomAssumption DEF D!Arrangements
        <5>3. DOMAIN <<>> = {}
          OBVIOUS
        <5> QED BY <5>1, <5>2, <5>3
      <4>6. \A t \in Seat : t = s \/ t = Other(s)
        BY Seats
      <4> QED BY <4>4, <4>5, <4>6 DEF D!ArrangedBoth, D!HasArranged, Seat
    <3>2. entries' = entries /\ ~D!Done'
      BY <2>5, <3>1, KeptBack
    <3>3. sent' = sent
      <4>1. draftCursor = Len(entries) /\ Len(entries) \in Nat
        BY <1>1 DEF Cursor, IInv, RecordTyped
      <4>2. ~(Len(entries') > draftCursor)
        BY <3>2, <4>1
      <4> QED BY <2>2, <3>2, <4>2 DEF Decide
    <3> QED BY <2>5, <3>3 DEF D!Arrange
  <2>6. \/ ~D!Picked /\ arranged' = arranged
        \/ D!Arrange(s, decision.what)
    BY <2>3 DEF D!Apply, D!Ban, D!SkipBan, D!Pick, D!Loadout, D!Due
  <2> QED BY <2>4, <2>5, <2>6
<1> QED BY <1>3, <1>4, <1>5, <1>6, <1>7 DEF RoomActs

\* A draft that asks one seat for a step asks the other for none.
LEMMA OneDueAtATime ==
  ASSUME NEW s \in Seat, NEW t \in Seat, DraftAsking(s), DraftAsking(t), s # t
  PROVE D!Arranging /\ ~D!HasArranged(s) /\ ~D!HasArranged(t) /\ t = Other(s)
<1>1. t = Other(s)
  BY Seats
<1>2. ~((\E step : D!Due(s, step)) /\ (\E step : D!Due(t, step)))
  BY DEF D!Due
<1>3. D!Arranging => \A u, step : ~D!Due(u, step)
  BY DEF D!Arranging, D!Due
<1> QED BY <1>1, <1>2, <1>3 DEF DraftAsking, D!AwaitingArrangement

\* What one seat is asked stays open whatever the other player does, as long as the match
\* goes on, and the seat is told nothing until it has answered.
LEMMA WaitingStays ==
  ASSUME IInv, Cursor, NEW seat \in Seat, seat = me, Opponent \/ \E s \in Seat : Clock(s),
         ~Finished', ~forced',
         asked = seat \/ (Drafts /\ DraftAsking(seat))
  PROVE /\ UNCHANGED <<sent, asked, watched>>
        /\ Drafts /\ DraftAsking(seat) => DraftAsking(seat)'
<1>1. ASSUME UNCHANGED <<sent, asked, watched, drafting>>
      PROVE /\ UNCHANGED <<sent, asked, watched>>
            /\ Drafts /\ DraftAsking(seat) => DraftAsking(seat)'
  BY <1>1 DEF drafting, DraftAsking, D!AwaitingArrangement, D!Arranging, D!Picked, D!Cancelled,
              D!ArrangedBoth, D!HasArranged, D!Due
<1>2. /\ asked = seat => fight /\ BothTaken /\ (Drafts => D!Done)
      /\ fight /\ Drafts => D!Done
  BY Seats DEF IInv, Fights
<1>3. D!Done => ~DraftAsking(seat)
  BY DEF D!Done, DraftAsking, D!AwaitingArrangement, D!Arranging, D!Due
<1>4. ASSUME NEW s \in Seat, s # seat, asked = s
      PROVE FALSE
  <2>1. fight
    BY <1>4, Seats DEF IInv, Fights
  <2> QED BY <1>2, <1>3, <1>4, <2>1
<1>5. CASE Join(Greeting)
  <2>1. ~BothTaken
    BY <1>5, LastSeat DEF Join, Gate
  <2>2. Drafts
    BY <1>2, <2>1
  <2>3. UNCHANGED <<sent, asked, watched, drafting>>
    BY <1>5, <2>2 DEF Join
  <2> QED BY <1>1, <2>3
<1>6. ASSUME NEW s \in Seat, Left(s)
      PROVE UNCHANGED <<sent, asked, watched, drafting>>
  BY <1>6 DEF Left, Finished
<1>7. ASSUME NEW s \in Seat, s # seat, NEW decision \in Decisions(s), Decide(s, decision)
      PROVE /\ UNCHANGED <<sent, asked, watched>>
            /\ Drafts /\ DraftAsking(seat) => DraftAsking(seat)'
  <2>1. /\ Drafts /\ ~Finished /\ ~D!Done /\ D!Apply(decision) /\ decision.step # "timeout"
        /\ decision.seat = s /\ DraftAsking(s)
    BY <1>7 DEF Decide, DraftOpen
  <2>2. DraftAsking(seat)
    BY <1>2, <2>1
  <2>3. D!Arranging /\ ~D!HasArranged(seat) /\ ~D!HasArranged(s) /\ seat = Other(s)
    BY <1>7, <2>1, <2>2, OneDueAtATime
  <2>4. D!Arrange(s, decision.what)
    BY <2>1, <2>3
       DEF D!Apply, D!Ban, D!SkipBan, D!Pick, D!Loadout, D!Due, D!Arranging
  <2>5. entries' = entries /\ ~D!Done'
    BY <2>3, <2>4, KeptBack
  <2>6. draftCursor = Len(entries) /\ Len(entries) \in Nat
    BY <2>1 DEF Cursor, IInv, RecordTyped
  <2>7. ~(Len(entries') > draftCursor)
    BY <2>5, <2>6
  <2>8. UNCHANGED <<sent, asked, watched>>
    BY <1>7, <2>5, <2>7 DEF Decide
  <2>9. /\ arranged' = [arranged EXCEPT ![s] = decision.what]
        /\ UNCHANGED <<bans, picks, awaiting, abandoned>>
    BY <2>4 DEF D!Arrange
  <2>10. arranged'[seat] = arranged[seat]
    BY <1>7, <2>9
  <2>11. D!Picked'
    BY <2>3, <2>9 DEF D!Arranging, D!Picked, D!Cancelled
  <2>12. seat \in D!AwaitingArrangement'
    BY <2>3, <2>10, <2>11
       DEF D!AwaitingArrangement, D!Arranging, D!ArrangedBoth, D!HasArranged, Seat
  <2> QED BY <2>8, <2>12 DEF DraftAsking
<1>8. CASE Opponent
  <2>1. \/ Join(Greeting)
        \/ \E s \in Seat \ {seat} : Answer(s) \/ Left(s) \/ \E d \in Decisions(s) : Decide(s, d)
    BY <1>8 DEF Opponent
  <2>2. CASE \E s \in Seat \ {seat} : Answer(s)
    BY <1>4, <2>2 DEF Answer
  <2>3. CASE \E s \in Seat \ {seat} : Left(s)
    BY <1>1, <1>6, <2>3
  <2>4. CASE \E s \in Seat \ {seat} : \E d \in Decisions(s) : Decide(s, d)
    BY <1>7, <2>4
  <2> QED BY <1>5, <2>1, <2>2, <2>3, <2>4
<1>9. ASSUME NEW s \in Seat, Clock(s)
      PROVE FALSE
  <2>1. s # seat
    BY <1>9 DEF Clock
  <2>2. ~DraftTimedOut(s)
    BY DEF DraftTimedOut, Finished
  <2>3. asked = s
    BY <1>9, <2>2 DEF Clock, TimedOut, TurnTimedOut
  <2> QED BY <1>4, <2>1, <2>3
<1> QED BY <1>8, <1>9

\* A mirror that is where the room is asks for the turn the room asks for.
LEMMA TurnIsAsked ==
  ASSUME IInv, ~Finished, NEW seat \in Seat, NEW to, Agree(seat, to), TurnAsked(to)
  PROVE asked = seat
<1>1. IF fight THEN to.board = RoomBoard(seat) ELSE to.board.prompt = "none"
  BY DEF Agree
<1>2. fight
  BY <1>1 DEF TurnAsked
<1>3. asked \in Seat /\ home \in Seat
  BY <1>2, InABattle
<1>4. RoomBoard(seat) = [open |-> TRUE, prompt |-> SideUnder(home, asked),
                         side |-> SideUnder(home, seat), index |-> index, turns |-> turns,
                         capped |-> FALSE, read |-> Len(watched)]
  BY <1>3, Seats DEF RoomBoard, Half, SideOf
<1>5. SideUnder(home, asked) = SideUnder(home, seat)
  BY <1>1, <1>2, <1>4 DEF TurnAsked
<1> QED BY <1>3, <1>5, Seats DEF SideUnder

\* And for the decision the room's draft asks for, but for an arrangement that is held back.
LEMMA DraftIsAsked ==
  ASSUME IInv, ~Finished, NEW seat \in Seat, DraftAsked(seat, RoomDraft),
         ~(D!Arranging /\ D!HasArranged(seat))
  PROVE Drafts /\ DraftAsking(seat)
<1>1. Drafts /\ ~D!Cancelled
  BY DEF DraftAsked, IInv, Fights, D!Done, D!Picked
<1>2. PICK r : r = RoomDraft
  OBVIOUS
<1>3. /\ r.bans = bans /\ r.picks = picks /\ r.awaiting = awaiting
      /\ r.arranged = IF D!ArrangedBoth THEN arranged ELSE NobodyArranged
  BY <1>2 DEF RoomDraft
<1>4. PickedOut(r) <=> D!Picked
  BY <1>1, <1>3 DEF PickedOut, D!Picked
<1>5. CASE D!Picked
  <2>1. r.arranged[seat] = <<>>
    BY <1>2, <1>4, <1>5 DEF DraftAsked
  <2>2. ~D!ArrangedBoth
    BY <1>3, <2>1 DEF D!ArrangedBoth, D!HasArranged, Seat
  <2>3. D!Arranging
    BY <1>5, <2>2 DEF D!Arranging
  <2> QED BY <1>1, <2>3 DEF DraftAsking, D!AwaitingArrangement, Seat
<1>6. CASE ~D!Picked
  <2>1. \/ r.awaiting /\ seat = D!SeatAt(r.picks - 1)
        \/ ~r.awaiting /\ r.bans < 2 * BansPerSide /\ seat = D!SeatAt(r.bans)
        \/ ~r.awaiting /\ ~(r.bans < 2 * BansPerSide) /\ seat = D!SeatAt(r.picks)
    BY <1>2, <1>4, <1>6 DEF DraftAsked
  <2>2. D!Due(seat, "loadout") \/ D!Due(seat, "ban") \/ D!Due(seat, "pick")
    BY <1>1, <1>3, <1>6, <2>1 DEF D!Due
  <2> QED BY <1>1, <2>2 DEF DraftAsking
<1> QED BY <1>5, <1>6

\* What the mirror's own questions come to.
Questions ==
  /\ Asking <=> TurnAsked(MirrorStage)
  /\ me \in Seat /\ mAbandoned = "none" => (DraftAsksMe => DraftAsked(me, MirrorDraft))

LEMMA QuestionsAre == Questions
<1>1. MirrorStage.board = board
  BY DEF MirrorStage
<1>2. Asking <=> TurnAsked(MirrorStage)
  BY <1>1 DEF Asking, TurnAsked
<1>3. ASSUME me \in Seat, mAbandoned = "none", DraftAsksMe
      PROVE DraftAsked(me, MirrorDraft)
  <2>1. PICK r : r = MirrorDraft
    OBVIOUS
  <2>2. /\ r.bans = mBans /\ r.picks = mPicks /\ r.awaiting = mAwaiting
        /\ r.arranged = mArranged
    BY <2>1 DEF MirrorDraft
  <2>3. PickedOut(r) <=> MD!Picked
    BY <1>3, <2>2 DEF PickedOut, MD!Picked, MD!Cancelled
  <2>4. CASE me \in MD!AwaitingArrangement
    BY <1>3, <2>1, <2>2, <2>3, <2>4
       DEF DraftAsksMe, DraftAsked, MD!AwaitingArrangement, MD!Arranging, MD!HasArranged
  <2>5. CASE \E step \in {"ban", "pick", "loadout"} : MD!Due(me, step)
    BY <1>3, <2>1, <2>2, <2>3, <2>5
       DEF DraftAsksMe, DraftAsked, MD!Due, MD!SeatAt, D!SeatAt, MD!Other, D!Other
  <2> QED BY <1>3, <2>4, <2>5 DEF DraftAsksMe
<1> QED BY <1>2, <1>3 DEF Questions

LEMMA QuestionsAsked ==
  /\ Asking' <=> TurnAsked(MirrorStage')
  /\ me' \in Seat /\ mAbandoned' = "none" => (DraftAsksMe' => DraftAsked(me', MirrorDraft'))
<1>1. Questions'
  BY QuestionsAre, PTL
<1> QED BY <1>1 DEF Questions, TurnAsked

\* Everything on the wire leads the mirror to where the room is, and asks its seat for
\* nothing on the way.
QuietWire(seat) == \E to : Agree(seat, to) /\ HushedWay(seat, MirrorStage, to, down)

\* A client that has not come back, and that the clock has passed no prompt of.
Untroubled == ~forced /\ back.times = 0 /\ ~Finished

\* It has one answer under way or none, to what the room is asking it.
Answering(seat) ==
  /\ choosing \in {"nothing", "draft", "turn"}
  /\ choosing # "nothing" => link = "joined" /\ up = <<>>
  /\ up = <<>> \/ Len(up) = 1
  /\ up # <<>> \/ choosing # "nothing" => down = <<>>
  /\ up # <<>> /\ Head(up).act => asked = seat /\ Head(up).for = Len(watched)
  /\ choosing = "turn" => asked = seat
  /\ choosing = "draft" \/ (up # <<>> /\ ~Head(up).act) => Drafts /\ DraftAsking(seat)
  /\ link = "joined" /\ down # <<>> /\ Drafts /\ D!Arranging => ~D!HasArranged(seat)
  /\ link = "joined" => QuietWire(seat)

OneAnswer == \A seat \in Seat : Untroubled /\ seat = me => Answering(seat)

\* What ActsAnswered needs beside MInv.
QInv == MInv /\ Late /\ OneAnswer

\* What a step of the room leaves of it is what it says of the room.
LEMMA AsksTheSame ==
  ASSUME NEW seat, UNCHANGED vars
  PROVE /\ DraftAsking(seat)' <=> DraftAsking(seat)
        /\ D!Arranging' <=> D!Arranging
        /\ D!HasArranged(seat)' <=> D!HasArranged(seat)
        /\ UNCHANGED <<asked, watched>> /\ Finished' = Finished
        /\ \A to : Agree(seat, to)' <=> Agree(seat, to)
<1>1. UNCHANGED drafting /\ UNCHANGED <<asked, watched>>
  BY DEF vars, match, logs
<1>2. /\ DraftAsking(seat)' <=> DraftAsking(seat)
      /\ D!Arranging' <=> D!Arranging
      /\ D!HasArranged(seat)' <=> D!HasArranged(seat)
  BY <1>1 DEF drafting, DraftAsking, D!AwaitingArrangement, D!Arranging, D!Picked, D!Cancelled,
              D!ArrangedBoth, D!HasArranged, D!Due
<1> QED BY <1>1, <1>2, RoomStays

\* The client has no part in the step.
LEMMA NothingAnswered ==
  ASSUME QInv, UNCHANGED <<vars, link, me, down, up, choosing, board, fought, closure,
                           mirrorDraft, back, forced>>
  PROVE OneAnswer'
<1>1. ASSUME NEW seat \in Seat, Untroubled', seat = me'
      PROVE Answering(seat)'
  <2>1. /\ DraftAsking(seat)' <=> DraftAsking(seat)
        /\ D!Arranging' <=> D!Arranging
        /\ D!HasArranged(seat)' <=> D!HasArranged(seat)
        /\ UNCHANGED <<asked, watched>> /\ Finished' = Finished
        /\ \A to : Agree(seat, to)' <=> Agree(seat, to)
    BY AsksTheSame
  <2>2. Answering(seat)
    BY <1>1, <2>1 DEF QInv, OneAnswer, Untroubled
  <2>3. MirrorStage' = MirrorStage
    BY DEF MirrorStage, MirrorDraft, mirrorDraft
  <2>4. QuietWire(seat)' <=> QuietWire(seat)
    BY <2>1, <2>3 DEF QuietWire
  <2> QED BY <2>1, <2>2, <2>4 DEF Answering
<1> QED BY <1>1 DEF OneAnswer

\* A client that is asked something has read everything, and is where the room is.
LEMMA ReadBeforeIt ==
  ASSUME QInv, Untroubled, NEW seat \in Seat, seat = me, link = "joined", down = <<>>
  PROVE Agree(seat, MirrorStage)
<1>1. PICK to : Agree(seat, to) /\ HushedWay(seat, MirrorStage, to, <<>>)
  BY DEF QInv, OneAnswer, Answering, QuietWire
<1> QED BY <1>1, HushedNone

\* The chooser comes back: an act is chosen for the prompt the room has open.
LEMMA ChooseAnswers ==
  ASSUME QInv, Choose
  PROVE OneAnswer'
<1>1. /\ link = "joined" /\ choosing' = "nothing" /\ choosing # "nothing"
      /\ UNCHANGED <<vars, link, me, down, board, fought, closure, failed, mirrorDraft, history>>
  BY DEF Choose
<1>2. ASSUME NEW seat \in Seat, Untroubled', seat = me'
      PROVE Answering(seat)'
  <2>1. /\ DraftAsking(seat)' <=> DraftAsking(seat)
        /\ UNCHANGED <<asked, watched>> /\ Finished' = Finished
        /\ \A to : Agree(seat, to)' <=> Agree(seat, to)
    BY <1>1, AsksTheSame
  <2>2. Untroubled /\ seat = me
    BY <1>1, <1>2, <2>1 DEF Untroubled, history
  <2>3. Answering(seat)
    BY <2>2 DEF QInv, OneAnswer
  <2>4. up = <<>> /\ down = <<>> /\ down' = <<>> /\ QuietWire(seat)
    BY <1>1, <2>3 DEF Answering
  <2>5. QuietWire(seat)'
    <3>1. MirrorStage' = MirrorStage
      BY <1>1 DEF MirrorStage, MirrorDraft, mirrorDraft
    <3> QED BY <1>1, <2>1, <2>4, <3>1 DEF QuietWire
  <2>6. CASE choosing = "turn" /\ up' = Append(up, Act)
    <3>1. PICK x : x = Act
      OBVIOUS
    <3>2. x.act /\ x.for = board.read
      BY <3>1 DEF Act
    <3>3. up' = <<x>>
      BY <2>4, <2>6, <3>1
    <3>4. Head(<<x>>) = x /\ Len(<<x>>) = 1 /\ <<x>> # <<>>
      OBVIOUS
    <3>5. asked = seat
      BY <2>3, <2>6 DEF Answering
    <3>6. board.read = Len(watched)
      <4>1. Agree(seat, MirrorStage) /\ MirrorStage.board = board
        BY <1>1, <2>2, <2>4, ReadBeforeIt DEF MirrorStage
      <4>2. fight
        BY <3>5, Seats DEF QInv, MInv, IInv, Fights
      <4>3. board = RoomBoard(seat)
        BY <2>2, <4>1, <4>2 DEF Agree, Untroubled
      <4> QED BY <4>3 DEF RoomBoard
    <3> QED BY <1>1, <2>1, <2>4, <2>5, <3>2, <3>3, <3>4, <3>5, <3>6 DEF Answering
  <2>7. ASSUME NEW d, choosing = "draft", up' = Append(up, Decision(d))
        PROVE Answering(seat)'
    <3>1. PICK x : x = Decision(d)
      OBVIOUS
    <3>2. ~x.act
      BY <3>1 DEF Decision
    <3>3. up' = <<x>>
      BY <2>4, <2>7, <3>1
    <3>4. Head(<<x>>) = x /\ Len(<<x>>) = 1 /\ <<x>> # <<>>
      OBVIOUS
    <3>5. Drafts /\ DraftAsking(seat)
      BY <2>3, <2>7 DEF Answering
    <3> QED BY <1>1, <2>1, <2>4, <2>5, <3>2, <3>3, <3>4, <3>5 DEF Answering
  <2> QED BY <2>6, <2>7 DEF Choose
<1> QED BY <1>2 DEF OneAnswer

\* The socket dies: what was sent may still be read.
LEMMA DropAnswers ==
  ASSUME QInv, Drop
  PROVE OneAnswer'
<1>1. /\ link' = "lost" /\ down' = <<>> /\ choosing' = "nothing"
      /\ UNCHANGED <<vars, me, board, fought, closure, failed, mirrorDraft, history>>
  BY DEF Drop
<1>2. ASSUME NEW seat \in Seat, Untroubled', seat = me'
      PROVE Answering(seat)'
  <2>1. /\ DraftAsking(seat)' <=> DraftAsking(seat)
        /\ UNCHANGED <<asked, watched>> /\ Finished' = Finished
    BY <1>1, AsksTheSame
  <2>2. Untroubled /\ seat = me
    BY <1>1, <1>2, <2>1 DEF Untroubled, history
  <2>3. Answering(seat)
    BY <2>2 DEF QInv, OneAnswer
  <2>4. up' = <<>> \/ up' = up
    <3>1. PICK k, n, m : k = up /\ m = Len(k) /\ n \in 0..m /\ up' = SubSeq(k, 1, n)
      BY DEF Drop
    <3>2. PICK S : k \in Seq(S)
      BY <3>1 DEF QInv, MInv, Answers, Listed
    <3>3. m = 0 \/ m = 1
      <4>1. k = <<>> => Len(k) = 0
        OBVIOUS
      <4> QED BY <2>3, <3>1, <4>1 DEF Answering
    <3>4. n = 0 \/ n = m
      BY <3>1, <3>3
    <3>5. SubSeq(k, 1, 0) = <<>> /\ SubSeq(k, 1, Len(k)) = k
      BY <3>2, SubSeqFull, SubSeqEmpty
    <3> QED BY <3>1, <3>4, <3>5
  <2> QED BY <1>1, <2>1, <2>3, <2>4 DEF Answering
<1> QED BY <1>2 DEF OneAnswer

\* What a step of the room puts on a quiet wire keeps it quiet, if the seat is asked for
\* nothing behind what is on it.
LEMMA WireStaysQuiet ==
  ASSUME QInv, IInv', NEW seat \in Seat, RoomActs(seat), ~Finished', QuietWire(seat),
         MirrorStage' = MirrorStage, NEW came \in CameTo, down' = down \o Written(seat, came),
         \/ down = <<>> \/ Written(seat, came) = <<>>
         \/ \A to : Agree(seat, to) => ~AskedAt(seat, to)
  PROVE QuietWire(seat)'
<1>1. PICK to : Agree(seat, to) /\ HushedWay(seat, MirrorStage, to, down)
  BY DEF QuietWire
<1>2. PICK w : w = Written(seat, came)
  OBVIOUS
<1>3. Arrives(seat, to, came)
  BY <1>1, RoomTells DEF QInv, MInv
<1>4. PICK c : Agree(seat, c)' /\ HushedWay(seat, to, c, w)
  BY <1>2, <1>3 DEF Arrives
<1>5. HushedWay(seat, MirrorStage, c, down \o w)
  BY <1>1, <1>2, <1>4, HushedThrough
<1> QED BY <1>2, <1>4, <1>5 DEF QuietWire

\* The clock, and the other player: what the client is asked stays open, and it is told
\* nothing behind it.
LEMMA OthersAnswer ==
  ASSUME QInv, IInv', Opponent \/ \E s \in Seat : Clock(s)
  PROVE OneAnswer'
<1>1. Stays /\ Sends /\ UNCHANGED <<up, back>> /\ (~forced' => ~forced)
  <2>1. Stays /\ Sends /\ UNCHANGED <<up, back>>
    BY DEF Opponent, Clock
  <2>2. ASSUME NEW s \in Seat, Clock(s)
        PROVE ~forced' => ~forced
    <3>1. forced' = (forced \/ s = me)
      BY <2>2 DEF Clock
    <3> QED BY <3>1, Zenon
  <2>3. CASE Opponent
    BY <2>1, <2>3 DEF Opponent
  <2> QED BY <2>1, <2>2, <2>3
<1>2. UNCHANGED <<link, me, choosing>> /\ MirrorStage' = MirrorStage
  BY <1>1 DEF Stays, mirrorDraft, MirrorStage, MirrorDraft
<1>3. PICK came \in CameTo :
        down' = IF link' = "joined" THEN down \o Written(me', came) ELSE down
  BY <1>1 DEF Sends
<1>4. ASSUME NEW seat \in Seat, Untroubled', seat = me'
      PROVE Answering(seat)'
  <2>1. RoomActs(seat) /\ seat = me /\ ~Finished' /\ ~forced'
    BY <1>2, <1>4 DEF Opponent, Clock, TimedOut, TurnTimedOut, Answer, RoomActs, Untroubled
  <2>2. ~Finished
    BY <2>1, ActsBeforeTheEnd DEF QInv, MInv
  <2>3. Answering(seat)
    BY <1>1, <1>4, <2>1, <2>2 DEF QInv, OneAnswer, Untroubled
  <2>4. PICK w : w = Written(seat, came)
    OBVIOUS
  <2>5. ASSUME asked = seat \/ (Drafts /\ DraftAsking(seat))
        PROVE /\ w = <<>> /\ UNCHANGED <<asked, watched>>
              /\ Drafts /\ DraftAsking(seat) => DraftAsking(seat)'
    <3>1. /\ UNCHANGED <<sent, asked, watched>>
          /\ Drafts /\ DraftAsking(seat) => DraftAsking(seat)'
      BY <2>1, <2>5, WaitingStays DEF QInv, MInv
    <3> QED BY <2>4, <3>1, WrittenBodies DEF QInv, MInv, IInv, TypeOK
  <2>6. link' = "joined" => down' = down \o w
    BY <1>2, <1>3, <1>4, <2>4
  <2>7. w = <<>> => down' = down
    <3>1. CASE link = "joined"
      <4>1. PICK k : k = down
        OBVIOUS
      <4>2. Listed(k)
        BY <2>3, <3>1, <4>1 DEF Answering, QuietWire, HushedWay
      <4>3. k \o <<>> = k
        BY <4>2 DEF Listed
      <4> QED BY <1>2, <2>6, <3>1, <4>1, <4>3
    <3>2. CASE link # "joined"
      BY <1>2, <1>3, <3>2
    <3> QED BY <3>1, <3>2
  <2>8. up # <<>> \/ choosing # "nothing" => asked = seat \/ (Drafts /\ DraftAsking(seat))
    BY <2>3 DEF Answering
  <2>9. up' # <<>> \/ choosing' # "nothing" => down' = <<>>
    BY <1>1, <1>2, <2>3, <2>5, <2>7, <2>8 DEF Answering
  <2>10. ASSUME link' = "joined", down' # <<>>, Drafts, D!Arranging', D!HasArranged(seat)'
         PROVE FALSE
    <3>1. sent'[seat] = sent[seat] /\ D!Arranging
      BY <2>1, <2>10, ArrangedIsSilent DEF QInv, MInv
    <3>2. w = <<>>
      BY <2>4, <3>1, WrittenBodies DEF QInv, MInv, IInv, TypeOK
    <3>3. ~D!HasArranged(seat)
      BY <1>2, <2>3, <2>7, <2>10, <3>1, <3>2 DEF Answering
    <3>4. DraftAsking(seat)
      BY <3>1, <3>3 DEF DraftAsking, D!AwaitingArrangement, Seat
    <3>5. DraftAsking(seat)'
      BY <2>5, <2>10, <3>4
    <3> QED BY <2>10, <3>5 DEF DraftAsking, D!AwaitingArrangement, D!Arranging, D!Due
  <2>11. link' = "joined" => QuietWire(seat)'
    <3>1. SUFFICES ASSUME link' = "joined"
                   PROVE QuietWire(seat)'
      OBVIOUS
    <3>2. QuietWire(seat)
      BY <1>2, <2>3, <3>1 DEF Answering
    <3>3. ASSUME down # <<>>, w # <<>>, NEW to, Agree(seat, to), AskedAt(seat, to)
          PROVE FALSE
      <4>1. asked # seat /\ ~(Drafts /\ DraftAsking(seat))
        BY <2>5, <3>3
      <4>2. ~TurnAsked(to)
        BY <2>2, <3>3, <4>1, TurnIsAsked DEF QInv, MInv
      <4>3. DraftAsked(seat, RoomDraft)
        BY <2>2, <3>3, <4>2 DEF AskedAt, Agree
      <4>4. ~(D!Arranging /\ D!HasArranged(seat))
        BY <1>2, <2>3, <3>1, <3>3, <4>3 DEF Answering, DraftAsked
      <4> QED BY <2>2, <4>1, <4>3, <4>4, DraftIsAsked DEF QInv, MInv
    <3> QED BY <1>2, <2>1, <2>4, <2>6, <3>1, <3>2, <3>3, WireStaysQuiet
  <2>12. UNCHANGED <<link, choosing, up>>
    BY <1>1, <1>2
  <2>13. up # <<>> /\ Head(up).act => asked' = seat /\ Head(up).for = Len(watched')
    BY <2>3, <2>5 DEF Answering
  <2>14. choosing = "turn" => asked' = seat
    BY <2>3, <2>5 DEF Answering
  <2>15. choosing = "draft" \/ (up # <<>> /\ ~Head(up).act) => Drafts /\ DraftAsking(seat)'
    BY <2>3, <2>5 DEF Answering
  <2> QED BY <2>3, <2>9, <2>10, <2>11, <2>12, <2>13, <2>14, <2>15 DEF Answering
<1> QED BY <1>4 DEF OneAnswer

\* Nobody is at the seat when the window closes on it.
LEMMA MissedAnswers ==
  ASSUME QInv, Missed
  PROVE OneAnswer'
<1>1. /\ Left(me) /\ link # "joined" /\ link' = "left" /\ Sends
      /\ UNCHANGED <<up, back, forced, me, choosing>>
  BY DEF Missed
<1>2. down' = down
  BY <1>1 DEF Sends
<1>3. ASSUME NEW seat \in Seat, Untroubled', seat = me'
      PROVE Answering(seat)'
  <2>1. ~Finished /\ UNCHANGED <<asked, watched, drafting>>
    BY <1>1, <1>3 DEF Left, Untroubled, Finished
  <2>2. Answering(seat)
    BY <1>1, <1>3, <2>1 DEF QInv, OneAnswer, Untroubled
  <2>3. DraftAsking(seat)' <=> DraftAsking(seat)
    BY <2>1 DEF drafting, DraftAsking, D!AwaitingArrangement, D!Arranging, D!Picked, D!Cancelled,
                D!ArrangedBoth, D!HasArranged, D!Due
  <2> QED BY <1>1, <1>2, <2>1, <2>2, <2>3 DEF Answering
<1> QED BY <1>3 DEF OneAnswer

\* The oldest answer reaches the room: it is the one the room is asking for, and the
\* client has none behind it.
LEMMA DeliverAnswers ==
  ASSUME QInv, IInv', Deliver
  PROVE OneAnswer'
<1>1. /\ up # <<>> /\ up' = Tail(up) /\ Stays /\ UNCHANGED <<back, forced>>
  BY DEF Deliver
<1>2. UNCHANGED <<link, me, choosing>> /\ MirrorStage' = MirrorStage
  BY <1>1 DEF Stays, mirrorDraft, MirrorStage, MirrorDraft
<1>3. ASSUME NEW seat \in Seat, Untroubled', seat = me', ~Finished
      PROVE /\ Answering(seat) /\ seat = me
            /\ up' = <<>> /\ down = <<>> /\ choosing' = "nothing"
  <2>1. Answering(seat) /\ seat = me
    BY <1>1, <1>2, <1>3 DEF QInv, OneAnswer, Untroubled
  <2>2. down = <<>> /\ choosing = "nothing" /\ Len(up) = 1
    BY <1>1, <2>1 DEF Answering
  <2>3. PICK k, t : k = up /\ t = Tail(k)
    OBVIOUS
  <2>4. Listed(t) /\ Len(t) = Len(k) - 1 /\ Listed(k)
    BY <1>1, <2>3, ListTail DEF QInv, MInv, Answers
  <2>5. t = <<>>
    BY <2>2, <2>3, <2>4, EmptySeq DEF Listed
  <2> QED BY <1>1, <1>2, <2>1, <2>2, <2>3, <2>5
<1>4. ASSUME NEW seat \in Seat, Untroubled', seat = me',
             \/ Answer(me) /\ Sends
             \/ ~Head(up).act /\ Decide(me, Head(up).what) /\ Sends
      PROVE Answering(seat)'
  <2>1. me \in Seat /\ (Head(up).act \/ Head(up).what \in Decisions(me)) /\ me' = me
    BY <1>1, <1>2, SaidByThem DEF QInv, MInv
  <2>2. RoomActs(seat) /\ seat = me
    BY <1>4, <2>1 DEF RoomActs, Answer
  <2>3. ~Finished /\ ~Finished'
    BY <1>4, <2>2, ActsBeforeTheEnd DEF QInv, MInv, Untroubled
  <2>4. /\ Answering(seat) /\ up' = <<>> /\ down = <<>> /\ choosing' = "nothing"
    BY <1>3, <1>4, <2>3
  <2>5. PICK came \in CameTo :
          down' = IF link' = "joined" THEN down \o Written(me', came) ELSE down
    BY <1>4 DEF Sends
  <2>6. PICK w : w = Written(seat, came)
    OBVIOUS
  <2>7. link' = "joined" => down' = down \o w
    BY <2>1, <2>2, <2>5, <2>6
  <2>8. ASSUME link' = "joined", down' # <<>>, Drafts, D!Arranging', D!HasArranged(seat)'
        PROVE FALSE
    <3>1. sent'[seat] = sent[seat]
      BY <2>2, <2>3, <2>8, ArrangedIsSilent DEF QInv, MInv
    <3>2. w = <<>>
      BY <2>6, <3>1, WrittenBodies DEF QInv, MInv, IInv, TypeOK
    <3> QED BY <2>4, <2>7, <2>8, <3>2
  <2>9. link' = "joined" => QuietWire(seat)'
    BY <1>2, <2>2, <2>3, <2>4, <2>6, <2>7, WireStaysQuiet DEF Answering
  <2> QED BY <2>4, <2>8, <2>9 DEF Answering
<1>5. ASSUME NEW seat \in Seat, Untroubled', seat = me', UNCHANGED vars,
             Answered(Refused), ~Head(up).act
      PROVE Answering(seat)'
  <2>1. /\ DraftAsking(seat)' <=> DraftAsking(seat)
        /\ D!Arranging' <=> D!Arranging
        /\ D!HasArranged(seat)' <=> D!HasArranged(seat)
        /\ UNCHANGED <<asked, watched>> /\ Finished' = Finished
        /\ \A to : Agree(seat, to)' <=> Agree(seat, to)
    BY <1>5, AsksTheSame
  <2>2. ~Finished /\ ~Finished'
    BY <1>5, <2>1 DEF Untroubled
  <2>3. /\ Answering(seat) /\ up' = <<>> /\ down = <<>> /\ choosing' = "nothing"
    BY <1>3, <1>5, <2>2
  <2>4. DraftAsking(seat)
    BY <1>1, <1>5, <2>3 DEF Answering
  <2>5. D!Arranging' => ~D!HasArranged(seat)'
    BY <2>1, <2>4 DEF DraftAsking, D!AwaitingArrangement, D!Arranging, D!Due
  <2>6. ASSUME link' = "joined"
        PROVE QuietWire(seat)'
    <3>1. PICK to : Agree(seat, to) /\ HushedWay(seat, MirrorStage, to, <<>>)
      BY <1>2, <2>3, <2>6 DEF Answering, QuietWire
    <3>2. PICK x : x = Refused
      OBVIOUS
    <3>3. x.kind = "refused"
      BY <3>2 DEF Refused, Blank
    <3>4. to = Walk(to, x)
      BY <3>3 DEF Walk
    <3>5. HushedWay(seat, MirrorStage, to, Append(<<>>, x))
      BY <3>1, <3>4, HushedOn
    <3>6. down' = Append(<<>>, x)
      BY <1>2, <1>5, <2>3, <2>6, <3>2 DEF Answered
    <3> QED BY <1>2, <2>1, <3>1, <3>5, <3>6 DEF QuietWire
  <2> QED BY <2>3, <2>5, <2>6 DEF Answering
<1>6. ASSUME NEW seat \in Seat, Untroubled', seat = me', ~Finished, Head(up).act,
             asked # me \/ Head(up).for # Len(watched)
      PROVE FALSE
  BY <1>1, <1>3, <1>6 DEF Answering
<1>7. ASSUME NEW seat \in Seat, Untroubled', seat = me'
      PROVE Answering(seat)'
  <2>1. CASE Finished /\ UNCHANGED <<vars, down, course>>
    BY <1>7, <2>1, AsksTheSame DEF Untroubled
  <2>2. CASE Answer(me) /\ Sends
    BY <1>4, <1>7, <2>2
  <2>3. CASE /\ ~Finished /\ Head(up).act /\ (asked # me \/ Head(up).for # Len(watched))
             /\ UNCHANGED vars
    BY <1>6, <1>7, <2>3
  <2>4. CASE ~Head(up).act /\ Decide(me, Head(up).what) /\ Sends
    BY <1>4, <1>7, <2>4
  <2>5. CASE ~Finished /\ ~Head(up).act /\ Answered(Refused) /\ UNCHANGED vars
    BY <1>5, <1>7, <2>5
  <2> QED BY <2>1, <2>2, <2>3, <2>4, <2>5 DEF Deliver
<1> QED BY <1>7 DEF OneAnswer

\* A client sits down: a draft may ask it before anything is written.
LEMMA EnterAnswers ==
  ASSUME QInv, IInv', Lobby', Enter
  PROVE OneAnswer'
<1>1. /\ link = "away" /\ Join(Greeting) /\ me' = FreeSeat /\ NewMirror /\ Sends
      /\ UNCHANGED <<up, back, forced>> /\ down = <<>> /\ up = <<>>
  BY DEF Enter, QInv, MInv, Connected
<1>2. ~BothTaken /\ FreeSeat \in Seat
  BY <1>1, LastSeat DEF Join, Gate, FreeSeats
<1>3. MirrorStage' = FreshStage /\ mAbandoned' = "none" /\ link' = "joined"
  BY <1>1, FreshMirror
<1>4. PICK came \in CameTo : down' = down \o Written(me', came)
  BY <1>1, <1>3 DEF Sends
<1>5. choosing' \in {"nothing", "draft"} /\ (choosing' = "draft" => DraftAsksMe')
  BY <1>1 DEF NewMirror, Question
<1>6. ASSUME NEW seat \in Seat, Untroubled', seat = me'
      PROVE Answering(seat)'
  <2>1. Agree(seat, FreshStage)
    BY <1>2, FreshAgrees DEF QInv, MInv
  <2>2. Arrives(seat, FreshStage, came)
    BY <1>1, <2>1, JoinTells DEF QInv, MInv
  <2>3. PICK w : w = Written(seat, came)
    OBVIOUS
  <2>4. PICK c : Agree(seat, c)' /\ HushedWay(seat, FreshStage, c, w)
    BY <1>6, <2>2, <2>3 DEF Arrives, Untroubled
  <2>5. down' = w
    <3>1. down' = <<>> \o w
      BY <1>1, <1>4, <1>6, <2>3
    <3> QED BY <2>4, <3>1 DEF HushedWay, Listed
  <2>6. QuietWire(seat)'
    BY <1>3, <2>4, <2>5 DEF QuietWire
  <2>7. ASSUME Drafts
        PROVE w = <<>> /\ UNCHANGED drafting
    <3>1. sent' = sent /\ UNCHANGED drafting
      BY <1>1, <2>7 DEF Join
    <3> QED BY <2>3, <3>1, WrittenBodies DEF QInv, MInv, IInv, TypeOK
  <2>8. ASSUME DraftAsksMe'
        PROVE Drafts /\ DraftAsking(seat)'
    <3>1. Drafts
      BY <2>8 DEF DraftAsksMe
    <3>2. RoomDraft = NewDraft
      BY <1>2 DEF QInv, MInv, Lobby
    <3>3. picks = 0
      <4>1. PICK r, s : r = RoomDraft /\ s = NewDraft
        OBVIOUS
      <4>2. r.picks = picks /\ s.picks = 0
        BY <4>1 DEF RoomDraft, NewDraft
      <4> QED BY <3>2, <4>1, <4>2
    <3>4. ~D!Arranging
      BY <3>3, RoomAssumption DEF D!Arranging, D!Picked
    <3>5. MirrorDraft' = RoomDraft
      <4>1. FreshStage.draft = NewDraft /\ MirrorStage'.draft = MirrorDraft'
        BY DEF FreshStage, MirrorStage
      <4> QED BY <1>3, <3>2, <4>1
    <3>6. DraftAsked(seat, RoomDraft)
      BY <1>2, <1>3, <1>6, <2>8, <3>5, QuestionsAsked
    <3>7. DraftAsking(seat) /\ ~Finished
      BY <1>2, <3>4, <3>6, Gathering, DraftIsAsked DEF QInv, MInv
    <3> QED BY <2>7, <3>1, <3>7
            DEF drafting, DraftAsking, D!AwaitingArrangement, D!Arranging, D!Picked,
                D!Cancelled, D!ArrangedBoth, D!HasArranged, D!Due
  <2>9. choosing' = "draft" => down' = <<>> /\ Drafts /\ DraftAsking(seat)'
    BY <1>5, <2>5, <2>7, <2>8
  <2> QED BY <1>1, <1>3, <1>5, <2>5, <2>6, <2>7, <2>9 DEF Answering
<1> QED BY <1>6 DEF OneAnswer

\* A body is read: only the last one makes the mirror ask its player, and for what the
\* room is asking.
LEMMA ReceiveAnswers ==
  ASSUME QInv, Receive
  PROVE OneAnswer'
<1>1. /\ link = "joined" /\ choosing = "nothing" /\ down # <<>> /\ down' = Tail(down)
      /\ UNCHANGED <<vars, me, up, history>>
  BY DEF Receive
<1>2. PICK body, stage : body = Head(down) /\ stage = Walk(MirrorStage, body)
  OBVIOUS
<1>3. ASSUME NEW seat \in Seat, Untroubled', seat = me'
      PROVE Answering(seat)'
  <2>1. /\ DraftAsking(seat)' <=> DraftAsking(seat)
        /\ D!Arranging' <=> D!Arranging
        /\ D!HasArranged(seat)' <=> D!HasArranged(seat)
        /\ UNCHANGED <<asked, watched>> /\ Finished' = Finished
        /\ \A to : Agree(seat, to)' <=> Agree(seat, to)
    BY <1>1, AsksTheSame
  <2>2. Untroubled /\ seat = me
    BY <1>1, <1>3, <2>1 DEF Untroubled, history
  <2>3. Answering(seat)
    BY <2>2 DEF QInv, OneAnswer
  <2>4. up = <<>> /\ up' = <<>> /\ QuietWire(seat)
    BY <1>1, <2>3 DEF Answering
  <2>5. D!Arranging /\ Drafts => ~D!HasArranged(seat)
    BY <1>1, <2>3 DEF Answering
  <2>6. CASE Stops
    BY <2>1, <2>4, <2>5, <2>6 DEF Stops, Answering
  <2>7. CASE Walks(body)
    <3>1. /\ MirrorStage' = stage
          /\ mAbandoned' = "none"
          /\ IF body.kind = "drafted" /\ body.more
             THEN choosing' = "nothing" /\ UNCHANGED link
             ELSE Stepped
      BY <1>2, <2>7 DEF Walks, QInv, MInv, Connected
    <3>2. PICK k, to : k = down /\ Agree(seat, to) /\ HushedWay(seat, MirrorStage, to, k)
      BY <2>4 DEF QuietWire
    <3>3. /\ HushedWay(seat, Walk(MirrorStage, Head(k)), to, Tail(k))
          /\ Tail(k) # <<>> => Held(Head(k)) \/ ~AskedAt(seat, Walk(MirrorStage, Head(k)))
      BY <1>1, <3>2, HushedTail
    <3>4. /\ HushedWay(seat, stage, to, Tail(down))
          /\ Tail(down) # <<>> => Held(body) \/ ~AskedAt(seat, stage)
      BY <1>2, <3>2, <3>3
    <3>5. QuietWire(seat)'
      BY <1>1, <2>1, <3>1, <3>2, <3>4 DEF QuietWire
    <3>6. /\ choosing' \in {"nothing", "draft", "turn"}
          /\ choosing' # "nothing" => link' = "joined" /\ ~Held(body)
          /\ choosing' = "draft" => DraftAsksMe'
          /\ choosing' = "turn" => Asking'
      <4>1. CASE body.kind = "drafted" /\ body.more
        BY <3>1, <4>1
      <4>2. CASE ~(body.kind = "drafted" /\ body.more)
        <5>1. ~Held(body) /\ Stepped
          BY <3>1, <4>2 DEF Held
        <5>2. CASE MirrorOver'
          BY <5>1, <5>2 DEF Stepped
        <5>3. CASE ~MirrorOver'
          BY <1>1, <5>1, <5>3 DEF Stepped, Question
        <5> QED BY <5>2, <5>3
      <4> QED BY <4>1, <4>2
    <3>7. /\ Asking' => TurnAsked(stage)
          /\ DraftAsksMe' => DraftAsked(seat, stage.draft)
      <4>1. MirrorStage'.draft = MirrorDraft'
        BY DEF MirrorStage
      <4> QED BY <1>3, <3>1, <4>1, QuestionsAsked
    <3>8. choosing' # "nothing" => Tail(down) = <<>>
      BY <3>4, <3>6, <3>7 DEF AskedAt
    <3>9. ASSUME choosing' # "nothing"
          PROVE Agree(seat, stage)
      <4>1. HushedWay(seat, stage, to, <<>>)
        <5>1. Tail(down) = <<>>
          BY <3>8, <3>9
        <5> QED BY <3>4, <5>1
      <4>2. stage = to
        BY <4>1, HushedNone
      <4> QED BY <3>2, <4>2
    <3>10. ~Finished
      BY <2>2 DEF Untroubled
    <3>11. choosing' = "turn" => asked' = seat
      BY <2>1, <3>6, <3>7, <3>9, <3>10, TurnIsAsked DEF QInv, MInv
    <3>12. ASSUME choosing' = "draft"
           PROVE Drafts /\ DraftAsking(seat)'
      <4>1. DraftAsked(seat, RoomDraft)
        BY <3>6, <3>7, <3>9, <3>10, <3>12 DEF Agree
      <4>2. Drafts
        BY <4>1 DEF DraftAsked
      <4> QED BY <2>1, <2>5, <3>10, <4>1, <4>2, DraftIsAsked DEF QInv, MInv
    <3> QED BY <1>1, <2>1, <2>4, <2>5, <3>5, <3>6, <3>8, <3>11, <3>12 DEF Answering
  <2> QED BY <1>2, <2>6, <2>7, ReceiveWalks
<1> QED BY <1>3 DEF OneAnswer

LEMMA QuietInitially ==
  ASSUME MirrorInit
  PROVE QInv
<1>1. MInv
  BY MirrorInitially
<1>2. Late
  BY DEF MirrorInit, Init, D!Init, Late, D!HasArranged, Seat
<1>3. OneAnswer
  BY Seats DEF MirrorInit, OneAnswer
<1> QED BY <1>1, <1>2, <1>3 DEF QInv

LEMMA QuietStepKeeps ==
  ASSUME QInv, [MirrorNext]_mirrorVars
  PROVE QInv'
<1>1. MInv'
  BY MirrorStepKeeps DEF QInv
<1>2. [Next]_vars
  BY RoomSteps DEF QInv, MInv, mirrorVars
<1>3. Late'
  BY <1>2, LateKept DEF QInv, MInv
<1>4. ASSUME MirrorNext
      PROVE OneAnswer'
  <2>1. IInv' /\ Lobby'
    BY <1>1 DEF MInv
  <2>2. ASSUME Return
        PROVE OneAnswer'
    <3>1. back'.times # 0
      BY <2>2 DEF Return, QInv, MInv, Connected
    <3> QED BY <3>1 DEF OneAnswer, Untroubled
  <2> QED BY <1>4, <2>1, <2>2, EnterAnswers, ReceiveAnswers, ChooseAnswers, DropAnswers,
             DeliverAnswers, OthersAnswer, MissedAnswers DEF MirrorNext
<1>5. ASSUME UNCHANGED mirrorVars
      PROVE OneAnswer'
  BY <1>5, NothingAnswered DEF mirrorVars, client, history
<1> QED BY <1>1, <1>3, <1>4, <1>5 DEF QInv

-----------------------------------------------------------------------------
(* The theorems. *)

\* Everything on the wire leads the mirror to where the room is: the invariant that
\* every step of the client, its room and the other player keeps.
THEOREM MirrorInductive == MirrorSpec => []MInv
<1>1. MirrorInit => MInv
  BY MirrorInitially
<1>2. MInv /\ [MirrorNext]_mirrorVars => MInv'
  BY MirrorStepKeeps
<1> QED BY <1>1, <1>2, PTL DEF MirrorSpec

\* A client that has read everything it was sent is where the room is.
LEMMA CaughtUp ==
  ASSUME MInv, Current
  PROVE \E seat \in Seat : /\ seat = me /\ Agree(seat, MirrorStage) /\ ~Finished
                           /\ Proper(MirrorStage)
<1>1. link = "joined" /\ down = <<>> /\ Sound /\ me \in Seat /\ ~MirrorOver
  BY Seats DEF Current, MInv, Connected, Playing
<1>2. PICK seat \in Seat : seat = me
  BY <1>1
<1>3. PICK to : Agree(seat, to) /\ Way(MirrorStage, to, <<>>)
  BY <1>1, <1>2 DEF MInv, OnTheWay
<1>4. Agree(seat, MirrorStage)
  BY <1>3, WayEmpty
<1>5. MirrorStage.closed = closure /\ MirrorStage.fought = fought
  BY DEF MirrorStage
<1>6. ~Finished
  BY <1>1, <1>4, <1>5 DEF Agree, MirrorOver
<1> QED BY <1>1, <1>2, <1>4, <1>6 DEF MInv, Orderly

\* Nothing on the wire says whose turn it is, how a battle ended or who leads: a client
\* that has read what it was sent has worked out what the room knows (Mirror.apply,
\* Mirror.count, Mirror.over beside Room.settle and Room.close).
THEOREM InStep == MirrorSpec => []MirrorInStep
<1>1. ASSUME MInv
      PROVE MirrorInStep
  <2>1. SUFFICES ASSUME Current
                 PROVE /\ Asking <=> asked = me
                       /\ asked = me => choosing = "turn" \/ \E i \in DOMAIN up : up[i].act
                       /\ ~Finished
                       /\ Len(fought) = Len(played)
                       /\ \A i \in DOMAIN fought :
                            /\ Mine(fought[i]) <=> played[i].winner = me
                            /\ Theirs(fought[i]) <=> played[i].winner = Other(me)
                       /\ fight => board.index = index /\ board.side = SideOf(me)
    BY DEF MirrorInStep
  <2>2. PICK seat \in Seat : seat = me /\ Agree(seat, MirrorStage) /\ ~Finished
    BY <1>1, <2>1, CaughtUp
  <2>3. /\ MirrorStage.fought = fought /\ MirrorStage.board = board
    BY DEF MirrorStage
  <2>4. /\ Tallied(seat, fought, played)
        /\ IF fight THEN board = RoomBoard(seat)
           ELSE board.prompt = "none" /\ board.read = Len(watched)
    BY <2>2, <2>3 DEF Agree
  <2>5. Asking <=> asked = me
    <3>1. CASE fight
      <4>1. asked \in Seat /\ home \in Seat
        BY <1>1, <3>1, InABattle DEF MInv
      <4>2. RoomBoard(seat) = [open |-> TRUE, prompt |-> SideUnder(home, asked),
                               side |-> SideUnder(home, seat), index |-> index, turns |-> turns,
                               capped |-> FALSE, read |-> Len(watched)]
        BY <4>1, Seats DEF RoomBoard, Half, SideOf
      <4>3. SideUnder(home, asked) = SideUnder(home, seat) <=> asked = seat
        BY <4>1, Seats DEF SideUnder
      <4>4. SideUnder(home, asked) # "none"
        BY DEF SideUnder
      <4>5. /\ board.open /\ ~board.capped /\ board.prompt = SideUnder(home, asked)
            /\ board.side = SideUnder(home, seat)
        BY <2>4, <3>1, <4>2
      <4> QED BY <2>2, <4>3, <4>4, <4>5 DEF Asking
    <3>2. CASE ~fight
      <4>1. asked = "none"
        BY <1>1, <3>2 DEF MInv, IInv, Fights
      <4> QED BY <2>2, <2>4, <3>2, <4>1, Seats DEF Asking
    <3> QED BY <3>1, <3>2
  <2>6. asked = me => choosing = "turn" \/ \E i \in DOMAIN up : up[i].act
    <3>1. DOMAIN up = 1..Len(up)
      BY <1>1, ListDomain DEF MInv, Answers
    <3> QED BY <1>1, <2>1, <3>1 DEF MInv, Prompted
  <2>7. /\ Len(fought) = Len(played)
        /\ \A i \in DOMAIN fought :
             /\ Mine(fought[i]) <=> played[i].winner = me
             /\ Theirs(fought[i]) <=> played[i].winner = Other(me)
    <3>1. fought \in Seq(FoughtRecord) /\ Len(fought) = Len(played)
      BY <2>4 DEF Tallied
    <3>2. DOMAIN fought = 1..Len(played)
      BY <3>1
    <3> QED BY <2>2, <2>4, <3>1, <3>2 DEF Tallied
  <2>8. fight => board.index = index /\ board.side = SideOf(me)
    BY <2>2, <2>4 DEF RoomBoard
  <2> QED BY <2>2, <2>5, <2>6, <2>7, <2>8
<1> QED BY <1>1, MirrorInductive, PTL

\* The draft the client computes is the room's, decision for decision, and asks whom
\* the room's asks (Mirror.drafted and Mirror.draftAsking beside Room.draftAdvanced).
THEOREM DraftsInStep == MirrorSpec => []DraftInStep
<1>1. ASSUME MInv
      PROVE DraftInStep
  <2>1. SUFFICES ASSUME Current, Drafts
                 PROVE /\ mEntries = entries
                       /\ DraftOpen => (DraftAsksMe <=> DraftAsking(me) \/ D!Arranging)
                       /\ ~DraftOpen /\ BothTaken => ~DraftAsksMe
    BY DEF DraftInStep
  <2>2. PICK seat \in Seat : seat = me /\ Agree(seat, MirrorStage) /\ ~Finished
    BY <1>1, <2>1, CaughtUp
  <2>3. MirrorDraft = RoomDraft
    <3>1. MirrorStage.draft = MirrorDraft
      BY DEF MirrorStage
    <3> QED BY <2>2, <3>1 DEF Agree
  <2>4. /\ mBans = bans /\ mPicks = picks /\ mAwaiting = awaiting /\ mEntries = entries
        /\ mArranged = IF D!ArrangedBoth THEN arranged ELSE NobodyArranged
    <3>1. PICK m, r : m = MirrorDraft /\ r = RoomDraft
      OBVIOUS
    <3>2. m = r
      BY <2>3, <3>1
    <3>3. /\ m.bans = mBans /\ m.picks = mPicks /\ m.awaiting = mAwaiting
          /\ m.entries = mEntries /\ m.arranged = mArranged
      BY <3>1 DEF MirrorDraft
    <3>4. /\ r.bans = bans /\ r.picks = picks /\ r.awaiting = awaiting /\ r.entries = entries
          /\ r.arranged = IF D!ArrangedBoth THEN arranged ELSE NobodyArranged
      BY <3>1 DEF RoomDraft
    <3> QED BY <3>2, <3>3, <3>4
  <2>5. mAbandoned = "none"
    BY <1>1 DEF MInv, Connected
  <2>6. ASSUME DraftOpen
        PROVE DraftAsksMe <=> DraftAsking(me) \/ D!Arranging
    <3>1. ~D!Cancelled /\ ~MD!Cancelled /\ ~D!Done
      BY <2>5, <2>6 DEF DraftOpen, MD!Cancelled
    <3>2. MD!Picked <=> D!Picked
      BY <2>4, <3>1 DEF MD!Picked, D!Picked
    <3>3. CASE D!Picked
      <4>1. ~D!ArrangedBoth /\ D!Arranging
        BY <3>1, <3>3 DEF D!Done, D!Arranging
      <4>2. \A s \in Seat : mArranged[s] = <<>>
        BY <2>4, <4>1 DEF NobodyArranged
      <4>3. me \in MD!AwaitingArrangement
        BY <2>2, <3>2, <3>3, <4>2
           DEF MD!AwaitingArrangement, MD!Arranging, MD!ArrangedBoth, MD!HasArranged, Seat,
               D!Seat, MD!Seat
      <4> QED BY <2>1, <4>1, <4>3 DEF DraftAsksMe
    <3>4. CASE ~D!Picked
      <4>1. ~D!Arranging /\ ~MD!Arranging
        BY <3>2, <3>4 DEF D!Arranging, MD!Arranging
      <4>2. \A step : MD!Due(me, step) <=> D!Due(me, step)
        BY <2>4, <3>1, <3>2 DEF MD!Due, D!Due, MD!SeatAt, D!SeatAt, MD!Other, D!Other
      <4> QED BY <2>1, <4>1, <4>2
              DEF DraftAsksMe, DraftAsking, D!AwaitingArrangement, MD!AwaitingArrangement
    <3> QED BY <3>3, <3>4
  <2>7. ASSUME ~DraftOpen, BothTaken
        PROVE ~DraftAsksMe
    <3>1. D!Done
      BY <1>1, <2>1, <2>2, <2>7 DEF DraftOpen, MInv, IInv, Fights
    <3> QED BY <2>3, <2>5, <3>1, DoneIsOver, NoDraftLeft
  <2> QED BY <2>4, <2>6, <2>7
<1> QED BY <1>1, MirrorInductive, PTL

\* "At most one of the two is ever open" (Client.answer), for a client whose draft is
\* never resumed: the record a returning client is handed has no draft in it.
THEOREM OneOfTheTwo ==
  ASSUME Returns = 0 \/ ~Drafts
  PROVE MirrorSpec => []OneQuestionAtATime
<1>1. ASSUME MInv
      PROVE OneQuestionAtATime
  <2>1. SUFFICES ASSUME Drafts, Asking
                 PROVE ~DraftAsksMe
    BY DEF OneQuestionAtATime, DraftAsksMe
  <2>2. Sound
    BY <1>1, <2>1 DEF MInv, Connected, Sound
  <2>3. Proper(MirrorStage) /\ mAbandoned = "none"
    BY <1>1, <2>2 DEF MInv, Orderly, Connected
  <2>4. MirrorStage.board = board /\ MirrorStage.draft = MirrorDraft
    BY DEF MirrorStage
  <2> QED BY <2>1, <2>3, <2>4, NoDraftLeft DEF Proper, Asking
<1> QED BY <1>1, MirrorInductive, PTL

\* As long as the clock has passed none of its prompts and it has not come back, a client
\* has at most one answer under way, and to what the room is asking it: an act, which
\* names no turn, is taken for the prompt it was chosen for (Client.Play and Client.answer
\* beside Room.answerFrom).
THEOREM ActsAnswered == MirrorSpec => ActsAnswerTheirPrompt
<1>1. MirrorInit => QInv
  BY QuietInitially
<1>2. QInv /\ [MirrorNext]_mirrorVars => QInv'
  BY QuietStepKeeps
<1>3. ASSUME QInv, [MirrorNext]_mirrorVars, up # <<>>, Head(up).act, up' = Tail(up),
             watched' # watched, ~forced', back.times = 0
      PROVE Head(up).for = Len(watched)
  <2>1. up' # up
    <3>1. PICK k, t : k = up /\ t = Tail(k)
      OBVIOUS
    <3>2. Listed(k) /\ Len(t) = Len(k) - 1 /\ Len(k) \in Nat
      BY <1>3, <3>1, ListTail DEF QInv, MInv, Answers
    <3>3. t # k
      BY <3>2
    <3> QED BY <1>3, <3>1, <3>3
  <2>2. watched' # watched => ~UNCHANGED vars
    BY DEF vars, logs
  <2>3. MirrorNext
    BY <1>3, <2>2 DEF mirrorVars
  <2>4. Deliver
    BY <1>3, <2>1, <2>2, <2>3
       DEF MirrorNext, Enter, Receive, Choose, Drop, Return, Opponent, Missed, Clock
  <2>5. Answer(me)
    BY <1>3, <2>2, <2>4 DEF Deliver
  <2>6. me \in Seat
    BY <1>3, SaidByThem DEF QInv, MInv
  <2>7. ~Finished /\ ~forced
    BY <1>3, <2>4, <2>5, <2>6, ResolvedGoesOn DEF QInv, MInv, Answer, Deliver
  <2>8. Answering(me)
    BY <1>3, <2>6, <2>7 DEF QInv, OneAnswer, Untroubled
  <2> QED BY <1>3, <2>8 DEF Answering
<1>4. QInv /\ [MirrorNext]_mirrorVars =>
        [(up # <<>> /\ Head(up).act /\ up' = Tail(up) /\ watched' # watched /\ ~forced'
          /\ back.times = 0) => Head(up).for = Len(watched)]_mirrorVars
  BY <1>3
<1> QED BY <1>1, <1>2, <1>4, PTL DEF MirrorSpec, ActsAnswerTheirPrompt

=============================================================================
