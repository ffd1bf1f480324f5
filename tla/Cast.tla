--------------------------------- MODULE Cast ---------------------------------
(***************************************************************************)
(* The authored cast (internal/core/progression, cast and placement): a    *)
(* character grows along a line of stages, learns skills and traits at a   *)
(* level and in a form, and is fielded in a squad by a choice of them.     *)
(*                                                                         *)
(* A book is a function from ids.  A list the files keep in order is a     *)
(* sequence; a list nobody reads in order (who a skill is kept for) is a   *)
(* set, empty for "anybody".  What a book refuses for the spelling of an   *)
(* id, a name or a path is left to the sets of well-formed ones below.     *)
(***************************************************************************)
EXTENDS Elements, FiniteSets

CONSTANTS LevelCap, SkillSlots, TraitSlots, MaxSquadSize,
          Limits,           \* [maxEffectiveHP, defenseConstant]
          Neutral,          \* the element of a skill anybody may carry
          Formation,        \* the cells a side may stand on
          Slugs,            \* ids as checkSlug and ValidateID want them ...
          Pictures,         \* ... and image paths as ValidateImagePath wants them
          Blank             \* an empty answer

Levels == 1..LevelCap
NoRepeats(seq) == Cardinality(ToSet(seq)) = Len(seq)

-----------------------------------------------------------------------------
(* Growth.                                                                  *)

\* Curve.At: from base to max in a straight line, rounded down at every level.
At(curve, level) ==
    CASE level <= 1                     -> curve.base
      [] level > 1 /\ level >= LevelCap -> curve.max
      [] OTHER                          -> curve.base + ((curve.max - curve.base) * (level - 1)) \div (LevelCap - 1)
ValuesAt(table, level) == [stat \in Stat |-> At(table[stat], level)]

\* How much damage it takes to go through a health behind a defence.
EffectiveHP(values) ==
    LET reduction == (Limits.defenseConstant * Base)
                        \div (Limits.defenseConstant + Positive(values.defense))
    IN  IF reduction <= 0 THEN values.hp ELSE (values.hp * Base) \div reduction

CheckValues(values) ==
    /\ \A stat \in Stat : values[stat] <= Ceilings[stat]
    /\ EffectiveHP(values) <= Limits.maxEffectiveHP
CheckTable(table) ==
    /\ \A stat \in Stat : table[stat].base > 0 /\ table[stat].max >= table[stat].base
    /\ \A level \in Levels : CheckValues(ValuesAt(table, level))

\* A line of stages: [name, minLevel, after, element, stats].  One that names no
\* predecessor anywhere grows in the order of the file; else every stage but the
\* first names one declared before it.
Forks(line) == \E i \in DOMAIN line : line[i].after # Blank
Parent(line, i) ==
    IF ~Forks(line) THEN i - 1
    ELSE IF i = 1 THEN 0
    ELSE LET named == {j \in 1..i-1 : line[j].name = line[i].after} IN
         IF named = {} THEN 0 ELSE CHOOSE j \in named : \A k \in named : k <= j
ParentsKnown(line) ==
    Forks(line) => /\ line[1].after = Blank
                   /\ \A i \in DOMAIN line \ {1} : \E j \in 1..i-1 : line[j].name = line[i].after

ValidLine(line) ==
    /\ line # <<>> /\ ParentsKnown(line)
    /\ \A i, j \in DOMAIN line : line[i].name = line[j].name => i = j
    /\ line[1].minLevel = 1
    /\ \A i \in DOMAIN line :
         /\ line[i].name # Blank
         /\ line[i].minLevel > IF Parent(line, i) = 0 THEN 0 ELSE line[Parent(line, i)].minLevel
         /\ line[i].minLevel <= LevelCap
         /\ CheckTable(line[i].stats)

Names(line) == {line[i].name : i \in DOMAIN line}
Reaches(line, level) ==
    LET reached[i \in 0..Len(line)] ==
          i > 0 => line[i].minLevel <= level /\ reached[Parent(line, i)]
    IN  {i \in DOMAIN line : reached[i]}
\* The stages a level reaches that have grown into nothing it reaches.
Furthest(line, level) ==
    LET reached == Reaches(line, level) IN
    {i \in reached : \A j \in reached : Parent(line, j) # i}
Allowed(line, level) == {line[i].name : i \in Reaches(line, level)}
\* Resolve: the stage named, if it is reached; with none named, the one furthest along.
Resolves(line, level, stage) ==
    /\ level \in Levels
    /\ IF stage = Blank THEN Cardinality(Furthest(line, level)) = 1
       ELSE stage \in Allowed(line, level)
FormAt(line, level, stage) ==
    IF stage = Blank /\ Resolves(line, level, stage)
    THEN line[CHOOSE i \in Furthest(line, level) : TRUE].name ELSE stage

-----------------------------------------------------------------------------
(* What is learned: an entry is [id, atLevel, stages], no stages for all.   *)

Held(entry, stage) == entry.stages = {} \/ stage \in entry.stages
Available(entry, level, stage) == level >= entry.atLevel /\ Held(entry, stage)
Ids(entries) == [k \in DOMAIN entries |-> entries[k].id]
UnlockedIDs(entries, level, stage) ==
    Ids(SelectSeq(entries, LAMBDA entry : Available(entry, level, stage)))
SkillsAt(character, level, stage) ==
    UnlockedIDs(character.skills, level, FormAt(character.stages, level, stage))
PassivesAt(character, level, stage) ==
    UnlockedIDs(character.passives, level, FormAt(character.stages, level, stage))
Learn(ids) == [k \in DOMAIN ids |-> [id |-> ids[k], atLevel |-> 1, stages |-> {}]]

\* Every entry known and once, at a level there is, and for some of the forms but not all.
ValidEntries(entries, known, line) ==
    /\ NoRepeats(Ids(entries))
    /\ \A k \in DOMAIN entries :
         /\ entries[k].id \in known /\ entries[k].atLevel \in Levels
         /\ entries[k].stages # {} =>
              /\ line # <<>> /\ entries[k].stages \subseteq Names(line)
              /\ entries[k].stages # Names(line)
ValidLearnset(entries, known, line) ==
    /\ entries # <<>> /\ ValidEntries(entries, known, line)
    /\ \E k \in DOMAIN entries : Available(entries[k], 1, line[1].name)

-----------------------------------------------------------------------------
(* Who may carry a skill: [element, restrict], restrict a set on each axis. *)

Allows(kept, having) == kept = {} \/ kept \cap having # {}
\* The affinity of a form: its own, or the character's.
ElementAt(affinity, stage) == IF stage.element = <<>> THEN affinity ELSE stage.element
MayCarry(affinity, known) ==
    /\ known.element = Neutral \/ known.element \in ToSet(affinity)
    /\ Allows(known.restrict.elements, ToSet(affinity))
Demands(kit, skills) == {skills[kit[k]].element : k \in DOMAIN kit} \ {Neutral}

\* A preset is shared, so nothing in its kit may be kept for a person or a kind of one.
ValidArchetype(id, preset, books) ==
    /\ id \in Slugs /\ preset.column \in {cell[1] : cell \in Formation}
    /\ CheckTable(preset.stats)
    /\ preset.skills # <<>> /\ NoRepeats(preset.skills)
    /\ ToSet(preset.skills) \subseteq DOMAIN books.skills
    /\ \A carried \in ToSet(preset.skills) :
         LET kept == books.skills[carried].restrict IN
         kept.characters = {} /\ kept.species = {} /\ Allows(kept.archetypes, {id})
    /\ Cardinality(Demands(preset.skills, books.skills)) <= 2
    /\ ValidEntries(preset.passives, books.passives, <<>>)

\* Every form that carries a skill shares its element, and the character is one it is kept for.
CarriesWhatItMay(id, character, books) ==
    \A k \in DOMAIN character.skills :
      LET entry == character.skills[k]
          known == books.skills[entry.id]
          kept == known.restrict
      IN  /\ \A i \in DOMAIN character.stages :
               Held(entry, character.stages[i].name) =>
                   MayCarry(ElementAt(character.element, character.stages[i]), known)
          /\ Allows(kept.archetypes, {character.archetype})
          /\ Allows(kept.characters, {id})
          /\ kept.species \subseteq DOMAIN books.species
          /\ Allows(kept.species, ToSet(character.species))
          /\ kept.origins \subseteq DOMAIN books.origins
          /\ Allows(kept.origins, {character.origin})

ValidCharacter(id, character, books) ==
    /\ id \in Slugs /\ character.name # Blank
    /\ character.origin \in DOMAIN books.origins
    /\ character.archetype \in DOMAIN books.archetypes
    /\ character.image \in Pictures
    /\ ValidAffinity(character.element, Neutral)
    /\ ValidLine(character.stages)
    /\ \A i \in DOMAIN character.stages :
         character.stages[i].element # <<>> => ValidAffinity(character.stages[i].element, Neutral)
    /\ NoRepeats(character.species) /\ ToSet(character.species) \subseteq DOMAIN books.species
    /\ ValidLearnset(character.skills, DOMAIN books.skills, character.stages)
    /\ CarriesWhatItMay(id, character, books)
    /\ ValidEntries(character.passives, books.passives, character.stages)

ValidOrigin(id, origin) == id \in Slugs /\ origin.title # Blank
ValidSpecies(id, kind) == id \in Slugs /\ kind.name # Blank

\* A skill kept for somebody is refused while the cast holds nobody of that id.
RestrictionsName(characters, books) ==
    \A id \in DOMAIN characters : \A k \in DOMAIN characters[id].skills :
        books.skills[characters[id].skills[k].id].restrict.characters \subseteq DOMAIN characters
ParsesArchetypes(archetypes, books) ==
    \A id \in DOMAIN archetypes : ValidArchetype(id, archetypes[id], books)
ParsesCast(characters, books) ==
    /\ \A id \in DOMAIN characters : ValidCharacter(id, characters[id], books)
    /\ RestrictionsName(characters, books)

-----------------------------------------------------------------------------
(* What is brought to a battle.                                             *)

ChooseFrom(chosen, available, slots, insist) ==
    IF available = <<>> THEN chosen = <<>>
    ELSE /\ insist => chosen # <<>>
         /\ Len(chosen) <= slots /\ NoRepeats(chosen)
         /\ ToSet(chosen) \subseteq ToSet(available)
ChooseLoadout(skills, passives, character, level, form) ==
    /\ ChooseFrom(skills, SkillsAt(character, level, form), SkillSlots, TRUE)
    /\ ChooseFrom(passives, PassivesAt(character, level, form), TraitSlots, FALSE)

\* A build is a loadout kept for a character at the cap.
ValidBuild(build, characters) ==
    /\ build.character \in DOMAIN characters /\ build.name # Blank
    /\ LET of == characters[build.character] IN
       /\ Resolves(of.stages, LevelCap, build.stage)
       /\ ChooseLoadout(build.skills, build.passives, of, LevelCap,
                        FormAt(of.stages, LevelCap, build.stage))
ParsesBuilds(builds, characters) ==
    /\ \A id \in DOMAIN builds : id # Blank /\ ValidBuild(builds[id], characters)
    /\ \A id, other \in DOMAIN builds :
         builds[id].character = builds[other].character /\ builds[id].name = builds[other].name
            => id = other

\* Squad.Validate: units of their own ids on cells of their own, at a level there is.
ValidUnits(units) ==
    /\ Len(units) \in 1..MaxSquadSize
    /\ \A k \in DOMAIN units :
         /\ units[k].id # Blank /\ units[k].character # Blank
         /\ units[k].level \in Levels /\ units[k].slot \in Formation
         /\ \A j \in DOMAIN units :
              units[j].id = units[k].id \/ units[j].slot = units[k].slot => j = k
\* Take: the same, with everybody resolved against the cast.  It never reads the squad's id.
Fieldable(squad, characters) ==
    /\ ValidUnits(squad.units)
    /\ \A k \in DOMAIN squad.units :
         LET unit == squad.units[k] IN
         /\ unit.character \in DOMAIN characters
         /\ LET of == characters[unit.character] IN
            /\ Resolves(of.stages, unit.level, unit.stage)
            /\ ChooseLoadout(unit.skills, unit.passives, of, unit.level,
                             FormAt(of.stages, unit.level, unit.stage))
\* Parse: every squad of a file has an id of its own and valid units.
ParsesSquads(squads) == \A id \in DOMAIN squads : id # Blank /\ ValidUnits(squads[id].units)
=============================================================================
