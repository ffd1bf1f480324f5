------------------------------- MODULE Status -------------------------------
(***************************************************************************)
(* The statuses one unit holds (internal/core/status): a sequence of       *)
(* entries in the order they were first applied, each the id of a kind and *)
(* its stacks.  A stack is what it does each turn, what it can still       *)
(* swallow, and how many turns it has left.                                *)
(***************************************************************************)
EXTENDS Shares

CONSTANT StatusBook     \* id -> kind, as ParseBook let it through

Kind(id) == StatusBook[id]

Categories == {"dot", "stat_debuff", "control", "buff", "shield", "regen", "taunt",
               "heal_cut", "charge", "absorb", "reserve", "heal_mend"}
Counter(category) == category \in {"charge", "reserve"}
Harmful(category) == category \in {"dot", "stat_debuff", "control", "taunt", "heal_cut", "charge"}
OutlastsAShield(category) == category \in {"dot", "charge"}

-----------------------------------------------------------------------------
(* Reading a set.                                                          *)

Worth(stack) == stack.tick * stack.left
Find(s, id) == SelectInSeq(s, LAMBDA e : e.kind = id)
Stacks(s, id) == IF Find(s, id) = 0 THEN 0 ELSE Len(s[Find(s, id)].stacks)
Holds(s, id) == Stacks(s, id) > 0
In(s, categories) == Only(s, {e \in ToSet(s) : Kind(e.kind).category \in categories})
TimedIn(s, categories) == \E i \in DOMAIN s :
    Kind(s[i].kind).category \in categories /\ ~Kind(s[i].kind).permanent
PoolIn(s, category) ==
    Total(In(s, {category}), LAMBDA e : Total(e.stacks, LAMBDA stack : stack.pool))
HealShare(s) == Total(s, LAMBDA e : Len(e.stacks) * Kind(e.kind).healShare)
PierceShare(s) ==
    LET share == Total(s, LAMBDA e : Len(e.stacks) * Kind(e.kind).pierce)
    IN  IF share > Base THEN Base ELSE share
\* Wards multiply: each stack turns away its share of what the others let through.
WardShare(s) ==
    Base - FoldLeft(LAMBDA left, e :
                        FoldLeft(LAMBDA l, stack : (l * (Base - Kind(e.kind).ward)) \div Base,
                                 left, e.stacks),
                    Base, s)
\* The modifier terms of every stack.
Terms(s) == Flattened([i \in DOMAIN s |->
                Flattened([j \in DOMAIN s[i].stacks |-> Kind(s[i].kind).modifiers])])

-----------------------------------------------------------------------------
(* Changing a set.                                                         *)

\* Apply puts one stack on and refreshes those already there, at the cap too.
Apply(s, id, amount) ==
    LET kind   == Kind(id)
        fresh  == [tick |-> IF kind.category = "absorb" THEN 0 ELSE amount,
                   pool |-> IF kind.category = "absorb" THEN amount ELSE 0,
                   left |-> kind.duration]
        i      == Find(s, id)
        renewed == [j \in DOMAIN s[i].stacks |-> [s[i].stacks[j] EXCEPT !.left = kind.duration]]
    IN  IF i = 0 THEN Append(s, [kind |-> id, stacks |-> <<fresh>>])
        ELSE [s EXCEPT ![i].stacks =
                 IF Len(@) >= kind.maxStacks THEN renewed ELSE Append(renewed, fresh)]

ApplyTimes(s, id, amount, times) ==
    FoldLeft(LAMBDA set, n : Apply(set, id, amount), s, [n \in 1..times |-> n])

NonEmpty(s) == Only(s, {e \in ToSet(s) : e.stacks # <<>>})

\* Tick: what the holder suffers and recovers this turn, then a turn off every timed stack.
TickDamage(s) ==
    Total(s, LAMBDA e : IF Kind(e.kind).category = "regen" THEN 0
                        ELSE Total(e.stacks, LAMBDA stack : stack.tick))
Aged(s) ==
    LET Later(stacks) == [j \in DOMAIN stacks |-> [stacks[j] EXCEPT !.left = @ - 1]]
        Lasting(stacks) == Only(stacks, {stack \in ToSet(stacks) : stack.left > 0})
        Older(e) == IF Kind(e.kind).permanent THEN e ELSE [e EXCEPT !.stacks = Lasting(Later(@))]
    IN  NonEmpty([i \in DOMAIN s |-> Older(s[i])])

\* SpendPool eats the pools of a category oldest first; an emptied stack is gone.
Eat(acc, stack) ==
    LET eaten == AtMost(stack.pool, acc.amount) IN
    [amount |-> acc.amount - eaten,
     kept   |-> IF stack.pool > eaten
                THEN Append(acc.kept, [stack EXCEPT !.pool = @ - eaten]) ELSE acc.kept]
Kept(acc, e, rest) ==
    [amount |-> rest.amount, kept |-> Append(acc.kept, [e EXCEPT !.stacks = rest.kept])]
FromEntry(acc, e, category) ==
    IF Kind(e.kind).category # category \/ acc.amount = 0 THEN [acc EXCEPT !.kept = Append(@, e)]
    ELSE Kept(acc, e, FoldLeft(Eat, [amount |-> acc.amount, kept |-> <<>>], e.stacks))
SpendPool(s, category, amount) ==
    NonEmpty(FoldLeft(LAMBDA acc, e : FromEntry(acc, e, category),
                      [amount |-> amount, kept |-> <<>>], s).kept)

\* Remove takes the stacks with most left to do first, and never a permanent status.
Heaviest(stacks, count) ==
    LET Before(i, j) == \/ Worth(stacks[i]) > Worth(stacks[j])
                        \/ Worth(stacks[i]) = Worth(stacks[j]) /\ i <= j
    IN  ToSet(SubSeq(SetToSortSeq(DOMAIN stacks, Before), 1, count))

Removed(s, id, count) ==
    LET n == Stacks(s, id)
    IN  IF n = 0 \/ count <= 0 \/ Kind(id).permanent THEN 0 ELSE IF count > n THEN n ELSE count

Without(stacks, doomed) ==
    FoldLeft(LAMBDA kept, j : IF j \in doomed THEN kept ELSE Append(kept, stacks[j]),
             <<>>, [j \in DOMAIN stacks |-> j])
Take(s, id, count) ==
    IF Removed(s, id, count) = 0 THEN s
    ELSE NonEmpty([s EXCEPT ![Find(s, id)].stacks =
                      Without(@, Heaviest(@, Removed(s, id, count)))])

\* Cleanse works through the wanted statuses in order, and stops at the first that
\* gives nothing up: a permanent one.
Cleansed(acc, e, took) ==
    [set |-> Take(acc.set, e.kind, took), left |-> acc.left - took, stopped |-> took = 0]
Cleanse(s, categories, count) ==
    FoldLeft(LAMBDA acc, e :
                 IF acc.stopped \/ Kind(e.kind).category \notin categories THEN acc
                 ELSE Cleansed(acc, e, Removed(acc.set, e.kind, acc.left)),
             [set |-> s, left |-> count, stopped |-> FALSE], s).set

\* Hold and Release: a permanent status a trait puts on and takes off.  Hold stops at
\* the cap, where Apply adds nothing and a permanent stack has no turns to renew.
Hold(s, id, amount, stacks) == IF Kind(id).permanent THEN ApplyTimes(s, id, amount, stacks) ELSE s
Release(s, id) == IF Kind(id).permanent THEN Only(s, {e \in ToSet(s) : e.kind # id}) ELSE s
=============================================================================
