-------------------------------- MODULE Forge --------------------------------
(***************************************************************************)
(* The library of authored books (internal/forge): a directory of files,   *)
(* and any number of programs that have each read all of them into memory. *)
(* Every write checks what it adds against the books in memory, or for the *)
(* edit of a skill against the presets and the cast on disk, replaces one  *)
(* file whole, and only then changes the memory.                           *)
(***************************************************************************)
EXTENDS Cast

CONSTANTS Sessions,         \* programs with a library of the directory ...
          Readers,          \* ... those of them that were built from the embedded copy
          Shipped,          \* the directory as it is at first, and the embedded copy
          Powers,           \* the powers skill.ParseBook lets through
          Unread,           \* what a new skill has of what no form asks for
          CharacterDrafts, OriginDrafts, SpeciesDrafts, SkillDrafts, SquadDrafts,
                            \* what an author may type, each a set of drafts with an id
          Logs              \* the names of battles: both squads and the seed

VARIABLES disk,         \* file -> what it holds
          lib,          \* session -> its library, or Closed
          writing,      \* session -> the file it is replacing, or Idle
          told          \* session -> whom its last refused edit named

forgeVars == <<disk, lib, writing, told>>

Books == {"skills", "origins", "species", "archetypes", "characters", "builds", "squads"}
Closed == [home |-> FALSE, open |-> FALSE]
Idle == [file |-> Blank]
Nobody == [skill |-> Blank, who |-> Blank]

-----------------------------------------------------------------------------
(* Reading a directory: every book against the ones before it.             *)

SkillParses(known) == known.element \in Element /\ known.power \in Powers
Loads(books) ==
    /\ \A id \in DOMAIN books.skills : id # Blank /\ SkillParses(books.skills[id])
    /\ \A id \in DOMAIN books.origins : ValidOrigin(id, books.origins[id])
    /\ \A id \in DOMAIN books.species : ValidSpecies(id, books.species[id])
    /\ ParsesArchetypes(books.archetypes, books)
    /\ ParsesCast(books.characters, books)
    /\ ParsesBuilds(books.builds, books.characters)
    /\ ParsesSquads(books.squads)

Files == Books \cup {"passives", "battles"}
\* The game is shipped with a directory that loads, whose skills say what no form asks for.
ASSUME ForgeAssumption ==
    /\ Readers \subseteq Sessions
    /\ Shipped = [file \in Files |-> Shipped[file]] /\ Loads(Shipped)
    /\ \A id \in DOMAIN Shipped.skills : "unread" \in DOMAIN Shipped.skills[id]

Library(home, books) ==
    [field \in Books \cup {"home", "open", "passives"} |->
        CASE field = "home" -> home [] field = "open" -> TRUE
          [] field = "passives" -> Shipped.passives [] OTHER -> books[field]]

\* A file is written through a temporary one and renamed, so a reader finds the old
\* bytes or the new; without a directory there is nowhere to write.
Writes(s, file, data, after) ==
    /\ lib[s].home
    /\ writing' = [writing EXCEPT ![s] = [file |-> file, data |-> data, after |-> after]]
    /\ told' = [told EXCEPT ![s] = Nobody]
    /\ UNCHANGED <<disk, lib>>
With(book, id, entry) ==
    [one \in DOMAIN book \cup {id} |-> IF one = id THEN entry ELSE book[one]]
\* A book that grew by one entry, on disk and then in memory.
Grows(s, file, id, entry) ==
    LET grown == With(lib[s][file], id, entry) IN
    Writes(s, file, grown, [lib[s] EXCEPT ![file] = grown])

Ready(s) == lib[s].open /\ writing[s] = Idle

-----------------------------------------------------------------------------
(* A new character: a preset's curve with some stats typed over, its kit   *)
(* or a named one, its traits, and one stage called after the character.   *)

Built(draft, books) ==
    LET preset == books.archetypes[draft.archetype]
        table == [stat \in Stat |-> IF stat \in DOMAIN draft.stats THEN draft.stats[stat]
                                    ELSE preset.stats[stat]]
    IN  [name |-> draft.name, origin |-> draft.origin, archetype |-> draft.archetype,
         image |-> draft.image, element |-> draft.element, hidden |-> FALSE,
         species |-> draft.species,
         stages |-> <<[name |-> draft.name, minLevel |-> 1, after |-> Blank, element |-> <<>>,
                       stats |-> table]>>,
         skills |-> Learn(IF draft.skills = <<>> THEN preset.skills ELSE draft.skills),
         passives |-> preset.passives]

\* Draft.Resolve and SaveCharacter both append to the cast and read it all again.
Appends(books, id, character) ==
    /\ id \notin DOMAIN books.characters
    /\ ParsesCast(With(books.characters, id, character), books)
ResolvesDraft(draft, books) ==
    /\ draft.archetype \in DOMAIN books.archetypes
    /\ Appends(books, draft.id, Built(draft, books))

AddsCharacter(s, draft) ==
    ResolvesDraft(draft, lib[s]) /\ Grows(s, "characters", draft.id, Built(draft, lib[s]))
SaveCharacter(s) == \E draft \in CharacterDrafts : Ready(s) /\ AddsCharacter(s, draft)
NewOrigin(draft, books) == draft.id \notin DOMAIN books.origins /\ ValidOrigin(draft.id, draft)
AddsOrigin(s, draft) ==
    NewOrigin(draft, lib[s]) /\ Grows(s, "origins", draft.id, [title |-> draft.title])
SaveOrigin(s) == \E draft \in OriginDrafts : Ready(s) /\ AddsOrigin(s, draft)
SaveSpecies(s) == \E draft \in SpeciesDrafts :
    /\ Ready(s) /\ draft.id \notin DOMAIN lib[s].species
    /\ ValidSpecies(draft.id, draft) /\ Grows(s, "species", draft.id, [name |-> draft.name])

-----------------------------------------------------------------------------
(* Skills.  A form asks for some of what a skill says: laid onto a skill,  *)
(* it leaves the rest as it was.                                           *)

Fresh == [element |-> Neutral, power |-> 0, unread |-> Unread,
          restrict |-> [elements |-> {}, archetypes |-> {}, characters |-> {}, species |-> {},
                        origins |-> {}]]
\* Mutant: the answers of a form laid over nothing, as a new skill is built.
OntoNothing(draft, base) == [Fresh EXCEPT !.element = draft.element, !.power = draft.power,
                                          !.restrict = draft.restrict]
Onto(draft, base) ==
    [base EXCEPT !.element = draft.element, !.power = draft.power, !.restrict = draft.restrict]
ResolvesSkill(draft, books) ==
    /\ draft.id # Blank /\ draft.id \notin DOMAIN books.skills
    /\ SkillParses(Onto(draft, Fresh))
AddsSkill(s, draft) ==
    ResolvesSkill(draft, lib[s]) /\ Grows(s, "skills", draft.id, Onto(draft, Fresh))
SaveSkill(s) == \E draft \in SkillDrafts : Ready(s) /\ AddsSkill(s, draft)

\* Whom a refused edit is blamed on: a carrier whose kit is refused by a check that skips
\* what its subject does not say; nobody, when no carrier's is.
Refuses(who, known) ==
    \/ who.affinity # <<>> /\ ~MayCarry(who.affinity, known)
    \/ who.archetype # Blank /\ ~Allows(known.restrict.archetypes, {who.archetype})
    \/ who.id # Blank /\ ~Allows(known.restrict.characters, {who.id})
    \/ who.species # <<>> /\ ~Allows(known.restrict.species, ToSet(who.species))
    \/ who.origin # Blank /\ ~Allows(known.restrict.origins, {who.origin})
BrokenPresets(presets, skills) ==
    {id \in DOMAIN presets : \E carried \in ToSet(presets[id].skills) \cap DOMAIN skills :
        \/ skills[carried].restrict.characters # {} \/ skills[carried].restrict.species # {}
        \/ Refuses([affinity |-> <<>>, archetype |-> id, id |-> Blank, species |-> <<>>,
                    origin |-> Blank], skills[carried])}
BrokenCharacters(characters, skills) ==
    {id \in DOMAIN characters :
        \E i \in DOMAIN characters[id].stages, k \in DOMAIN characters[id].skills :
            /\ Held(characters[id].skills[k], characters[id].stages[i].name)
            /\ characters[id].skills[k].id \in DOMAIN skills
            /\ Refuses([affinity |-> ElementAt(characters[id].element, characters[id].stages[i]),
                        archetype |-> characters[id].archetype, id |-> id,
                        species |-> characters[id].species, origin |-> characters[id].origin],
                       skills[characters[id].skills[k].id])}
Blamed(broken) == IF broken = {} THEN {Blank} ELSE broken

\* Mutant: what carries the skill is looked up before the edit and not after it.
RecheckedAsItWas(books, edited) ==
    [books EXCEPT !.archetypes = disk.archetypes, !.characters = disk.characters]
\* The presets and the cast are read again from disk, against the edited book.
Rechecked(books, edited) ==
    [books EXCEPT !.skills = edited, !.archetypes = disk.archetypes, !.characters = disk.characters]

EditsSkill(s, draft) ==
    LET id == draft.id
        edited == [lib[s].skills EXCEPT ![id] = Onto(draft, @)]
        after == Rechecked(lib[s], edited)
        presetsParse == ParsesArchetypes(after.archetypes, after)
    IN  /\ id \in DOMAIN lib[s].skills /\ SkillParses(edited[id])
        /\ IF presetsParse /\ ParsesCast(after.characters, after)
           THEN Writes(s, "skills", edited, after)
           ELSE /\ \E who \in Blamed(IF presetsParse
                                    THEN BrokenCharacters(lib[s].characters, edited)
                                    ELSE BrokenPresets(lib[s].archetypes, edited)) :
                       told' = [told EXCEPT ![s] = [skill |-> id, who |-> who]]
                /\ UNCHANGED <<disk, lib, writing>>
EditSkill(s) == Ready(s) /\ lib[s].home /\ \E draft \in SkillDrafts : EditsSkill(s, draft)

-----------------------------------------------------------------------------
(* Squads and battles.                                                     *)

\* A squad is checked as Take would field it, and replaces one of its own id.
KeepsSquad(s, draft) ==
    /\ Fieldable(draft, lib[s].characters)
    /\ Grows(s, "squads", draft.id, [name |-> draft.name, units |-> draft.units])
SaveSquad(s) == \E draft \in SquadDrafts : Ready(s) /\ KeepsSquad(s, draft)
Kept(squads, id) == [other \in DOMAIN squads \ {id} |-> squads[other]]
DropsSquad(s, id) ==
    Writes(s, "squads", Kept(lib[s].squads, id), [lib[s] EXCEPT !.squads = Kept(@, id)])
DeleteSquad(s) == Ready(s) /\ \E id \in DOMAIN lib[s].squads : DropsSquad(s, id)

\* A battle is kept in a file of its own: fought again, it is written over.
SaveBattleLog(s) == \E log \in Logs :
    Ready(s) /\ Writes(s, "battles", disk.battles \cup {log}, lib[s])

\* A player's own squads stand in for the game's of the same id.
SquadsOffered(game, player) ==
    [id \in DOMAIN game \cup DOMAIN player |-> IF id \in DOMAIN player THEN player[id] ELSE game[id]]

-----------------------------------------------------------------------------
(* The file's fate, and a program's.                                       *)

Rename(s) ==
    /\ writing[s] # Idle
    /\ disk' = [disk EXCEPT ![writing[s].file] = writing[s].data]
    /\ lib' = [lib EXCEPT ![s] = writing[s].after]
    /\ writing' = [writing EXCEPT ![s] = Idle]
    /\ UNCHANGED told
\* Mutant: the memory is changed before the file is renamed.
FailAfterTheMemory(s) ==
    /\ writing[s] # Idle /\ writing' = [writing EXCEPT ![s] = Idle]
    /\ lib' = [lib EXCEPT ![s] = writing[s].after] /\ UNCHANGED <<disk, told>>
\* Making the folder or the temporary file, writing, closing, its mode, the rename: any
\* of them fails and the save does, with nothing changed.
Fail(s) ==
    /\ writing[s] # Idle /\ writing' = [writing EXCEPT ![s] = Idle]
    /\ UNCHANGED <<disk, lib, told>>

Load(s) ==
    /\ ~lib[s].open /\ s \notin Readers /\ Loads(disk)
    /\ lib' = [lib EXCEPT ![s] = Library(TRUE, disk)] /\ UNCHANGED <<disk, writing, told>>
LoadEmbedded(s) ==
    /\ ~lib[s].open /\ s \in Readers
    /\ lib' = [lib EXCEPT ![s] = Library(FALSE, Shipped)] /\ UNCHANGED <<disk, writing, told>>
\* A program stops where it is: what it was writing stays in a temporary file nobody reads.
Stop(s) ==
    /\ lib[s].open
    /\ lib' = [lib EXCEPT ![s] = Closed] /\ writing' = [writing EXCEPT ![s] = Idle]
    /\ told' = [told EXCEPT ![s] = Nobody] /\ UNCHANGED disk

ForgeInit ==
    /\ disk = Shipped
    /\ lib = [s \in Sessions |-> Closed]
    /\ writing = [s \in Sessions |-> Idle]
    /\ told = [s \in Sessions |-> Nobody]

ForgeNext == \E s \in Sessions :
    \/ Load(s) \/ LoadEmbedded(s) \/ Stop(s) \/ Rename(s) \/ Fail(s)
    \/ SaveCharacter(s) \/ SaveOrigin(s) \/ SaveSpecies(s) \/ SaveSkill(s) \/ EditSkill(s)
    \/ SaveSquad(s) \/ DeleteSquad(s) \/ SaveBattleLog(s)

ForgeSpec == ForgeInit /\ [][ForgeNext]_forgeVars

-----------------------------------------------------------------------------
(* The directory always loads: no save, failed save, edit or stop leaves a *)
(* file the next reader refuses (library.go, SaveSquad; skill_edit.go).    *)
DirectoryLoads == Loads(disk)

(* What a program has in memory is what its directory holds: a failed      *)
(* write changes neither, an edit changes the three books it touches.      *)
LibraryIsTheDirectory ==
    \A s \in Sessions : lib[s].open /\ lib[s].home => \A book \in Books : lib[s][book] = disk[book]

(* A save adds to a file or changes one entry of it: nobody and nothing    *)
(* else on it is lost, a deleted squad apart, and an edit keeps what its   *)
(* form does not ask for (forge/skills.go, resolveOnto).                   *)
NothingElseIsLost ==
    [][/\ \A book \in Books \ {"skills", "squads"} : \A id \in DOMAIN disk[book] :
            id \in DOMAIN disk'[book] /\ disk'[book][id] = disk[book][id]
       /\ \A id \in DOMAIN disk.skills :
            id \in DOMAIN disk'.skills /\ disk'.skills[id].unread = disk.skills[id].unread
       /\ Cardinality({id \in DOMAIN disk.squads :
            id \notin DOMAIN disk'.squads \/ disk'.squads[id] # disk.squads[id]}) <= 1]_disk
=============================================================================
