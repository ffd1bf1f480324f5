---------------------------- MODULE EditorProofs ----------------------------
(***************************************************************************)
(* The library of Forge, for one author and any number of readers: the     *)
(* directory always loads, what the author's program holds in memory is    *)
(* what is on disk, and a save loses nothing but what it replaces.         *)
(*                                                                          *)
(* The editing program of Editor over it: an author finds the way back,    *)
(* has the work nobody saved in front, loses it only by a yes or into the  *)
(* file, and what is not asked about is on disk; a squad in hand never has *)
(* two members of one id or on one cell.                                   *)
(***************************************************************************)
EXTENDS Editor, FiniteSetTheorems, SequenceTheorems, WellFoundedInduction, TLAPS

-----------------------------------------------------------------------------
(* The library. *)

\* Only one program writes.  Two authors overwrite one another's saves, and check an
\* edit against what they read before the other's: nothing in the code keeps them apart.
OneAuthor == \A a, b \in Sessions \ Readers : a = b

\* A squad is given an id (Squad.Take does not look at it, Parse does).
SquadsAreNamed == \A draft \in SquadDrafts : draft.id # Blank

-----------------------------------------------------------------------------
(* A book may grow under the books that are checked against it.            *)

\* Everything a book of `books` names is in `more`, and a skill is what it was.
Grown(books, more) ==
    /\ DOMAIN books.origins \subseteq DOMAIN more.origins
    /\ DOMAIN books.species \subseteq DOMAIN more.species
    /\ DOMAIN books.archetypes \subseteq DOMAIN more.archetypes
    /\ \A id \in DOMAIN books.skills : id \in DOMAIN more.skills /\ more.skills[id] = books.skills[id]
    /\ books.passives = more.passives

\* Every skill the character learns reads the same in both.
SameKit(character, books, more) ==
    \A k \in DOMAIN character.skills :
        more.skills[character.skills[k].id] = books.skills[character.skills[k].id]

\* A learnset may be checked against a longer book of skills.
LEMMA LearnsetGrows ==
    ASSUME NEW entries, NEW known, NEW more, NEW line, known \subseteq more,
           ValidLearnset(entries, known, line)
    PROVE  ValidLearnset(entries, more, line) /\ \A k \in DOMAIN entries : entries[k].id \in known
BY DEF ValidLearnset, ValidEntries

\* A preset that parsed parses against books that have grown.
LEMMA ArchetypesGrow ==
    ASSUME NEW presets, NEW books, NEW more, Grown(books, more), ParsesArchetypes(presets, books)
    PROVE  ParsesArchetypes(presets, more)
<1> SUFFICES ASSUME NEW id \in DOMAIN presets PROVE ValidArchetype(id, presets[id], more)
  BY DEF ParsesArchetypes
<1> DEFINE preset == presets[id]
<1>1. ValidArchetype(id, preset, books)
  BY DEF ParsesArchetypes
<1> HIDE DEF preset
<1>2. \A carried \in ToSet(preset.skills) :
        carried \in DOMAIN more.skills /\ more.skills[carried] = books.skills[carried]
  BY <1>1 DEF ValidArchetype, Grown
<1>3. \A k \in DOMAIN preset.skills : more.skills[preset.skills[k]] = books.skills[preset.skills[k]]
  BY <1>2 DEF ToSet
<1>4. Demands(preset.skills, more.skills) = Demands(preset.skills, books.skills)
  BY <1>3 DEF Demands
<1>5. ValidArchetype(id, preset, more)
  BY <1>1, <1>2, <1>4 DEF ValidArchetype, Grown
<1> QED
  BY <1>5 DEF preset

\* So does a character, and the cast, among a cast that has grown.
LEMMA CharacterGrows ==
    ASSUME NEW id, NEW character, NEW books, NEW more, Grown(books, more),
           ValidCharacter(id, character, books)
    PROVE  ValidCharacter(id, character, more) /\ SameKit(character, books, more)
<1>1. /\ ValidLearnset(character.skills, DOMAIN more.skills, character.stages)
      /\ \A k \in DOMAIN character.skills : character.skills[k].id \in DOMAIN books.skills
  <2>1. DOMAIN books.skills \subseteq DOMAIN more.skills
    BY DEF Grown
  <2>2. ValidLearnset(character.skills, DOMAIN books.skills, character.stages)
    BY DEF ValidCharacter
  <2> QED
    BY <2>1, <2>2, LearnsetGrows
<1>2. SameKit(character, books, more)
  BY <1>1 DEF SameKit, Grown
<1>3. CarriesWhatItMay(id, character, more)
  <2>1. CarriesWhatItMay(id, character, books)
    BY DEF ValidCharacter
  <2> QED
    BY <2>1, <1>2 DEF CarriesWhatItMay, SameKit, Grown
<1>4. ValidCharacter(id, character, more)
  BY <1>1, <1>3 DEF ValidCharacter, Grown
<1> QED
  BY <1>2, <1>4

\* A cast that reads with some books reads with more of them.
LEMMA CastGrows ==
    ASSUME NEW characters, NEW books, NEW more, Grown(books, more), ParsesCast(characters, books)
    PROVE  ParsesCast(characters, more)
<1>1. \A id \in DOMAIN characters :
        ValidCharacter(id, characters[id], more) /\ SameKit(characters[id], books, more)
  <2>1. \A id \in DOMAIN characters : ValidCharacter(id, characters[id], books)
    BY DEF ParsesCast
  <2> QED
    BY <2>1, CharacterGrows
<1> QED
  BY <1>1 DEF ParsesCast, RestrictionsName, SameKit

\* A build or a squad names characters, and nobody leaves the cast.
LEMMA BuildsGrow ==
    ASSUME NEW builds, NEW characters, NEW more, ParsesBuilds(builds, characters),
           \A id \in DOMAIN characters : id \in DOMAIN more /\ more[id] = characters[id]
    PROVE  ParsesBuilds(builds, more)
BY DEF ParsesBuilds, ValidBuild

-----------------------------------------------------------------------------
(* The invariant: what is on disk is sound, the author's memory is the     *)
(* disk, and the save under way would leave both so.                       *)

Sound(books) ==
    /\ books = [file \in Files |-> books[file]]
    /\ Loads(books) /\ books.passives = Shipped.passives
    /\ \A id \in DOMAIN books.skills : "unread" \in DOMAIN books.skills[id]

Shelf == Books \cup {"passives"}
ALibrary(known) == known.open => known = [field \in Shelf \cup {"home", "open"} |-> known[field]]

\* What a step may do to the directory.
Keeps(old, new) ==
    /\ \A book \in Books \ {"skills", "squads"} : \A id \in DOMAIN old[book] :
         id \in DOMAIN new[book] /\ new[book][id] = old[book][id]
    /\ \A id \in DOMAIN old.skills :
         id \in DOMAIN new.skills /\ new.skills[id].unread = old.skills[id].unread
    /\ Cardinality({id \in DOMAIN old.squads :
         id \notin DOMAIN new.squads \/ new.squads[id] # old.squads[id]}) <= 1

\* What the save w would leave of a directory.
Saved(books, w) == [books EXCEPT ![w.file] = w.data]
Promise(books, w) ==
    /\ w.file \in Files
    /\ ALibrary(w.after) /\ w.after.open /\ w.after.home
    /\ \A book \in Shelf : w.after[book] = Saved(books, w)[book]
    /\ Sound(Saved(books, w)) /\ Keeps(books, Saved(books, w))
SaveUnderway(s) ==
    writing[s] # Idle => lib[s].open /\ lib[s].home /\ Promise(disk, writing[s])

InStep(s) == lib[s].open /\ lib[s].home => \A book \in Shelf : lib[s][book] = disk[book]

LibraryInv ==
    /\ Sound(disk)
    /\ lib = [s \in Sessions |-> lib[s]] /\ writing = [s \in Sessions |-> writing[s]]
    /\ \A s \in Sessions :
         /\ ALibrary(lib[s]) /\ InStep(s) /\ SaveUnderway(s)
         /\ s \in Readers => ~(lib[s].open /\ lib[s].home)

-----------------------------------------------------------------------------
(* What each save leaves in its file, of a directory that was sound.       *)

\* A directory with one file written anew.
LEMMA WithFile ==
    ASSUME Sound(disk), NEW file \in Files, NEW data
    PROVE  LET new == [disk EXCEPT ![file] = data] IN
           /\ new = [f \in Files |-> new[f]]
           /\ \A f \in Files : new[f] = IF f = file THEN data ELSE disk[f]
BY DEF Sound

\* Nothing is lost of a file that is not written.
BooksKept(old, new) ==
    \A book \in Books \ {"skills", "squads"} : \A id \in DOMAIN old[book] :
        id \in DOMAIN new[book] /\ new[book][id] = old[book][id]
SkillsOutlive(old, new) ==
    \A id \in DOMAIN old.skills :
        id \in DOMAIN new.skills /\ new.skills[id].unread = old.skills[id].unread
SquadsKeptBut(one, old, new) ==
    \A id \in DOMAIN old.squads :
        id # one => id \in DOMAIN new.squads /\ new.squads[id] = old.squads[id]

\* A directory that keeps all of that but one squad keeps what a step must.
LEMMA KeepsTheRest ==
    ASSUME NEW old, NEW new, NEW one, BooksKept(old, new), SkillsOutlive(old, new),
           SquadsKeptBut(one, old, new)
    PROVE  Keeps(old, new)
<1> DEFINE lost == {id \in DOMAIN old.squads :
                      id \notin DOMAIN new.squads \/ new.squads[id] # old.squads[id]}
<1>1. lost \subseteq {one}
  BY DEF SquadsKeptBut
<1>2. IsFiniteSet({one}) /\ Cardinality({one}) = 1
  BY FS_Singleton
<1>3. IsFiniteSet(lost) /\ Cardinality(lost) <= 1
  <2> HIDE DEF lost
  <2> QED
    BY <1>1, <1>2, FS_Subset
<1> QED
  BY <1>3 DEF Keeps, BooksKept, SkillsOutlive

\* A new character: the cast was read again with it, and the builds name others.
LEMMA CharacterIsSound ==
    ASSUME Sound(disk), NEW id, NEW character, Appends(disk, id, character)
    PROVE  LET new == [disk EXCEPT !.characters = With(disk.characters, id, character)] IN
           Sound(new) /\ Keeps(disk, new)
<1> DEFINE grown == With(disk.characters, id, character)
           new == [disk EXCEPT !.characters = grown]
<1>1. /\ new = [f \in Files |-> new[f]]
      /\ \A f \in Files : new[f] = IF f = "characters" THEN grown ELSE disk[f]
  <2> HIDE DEF grown
  <2>1. "characters" \in Files
    BY DEF Files, Books
  <2> QED
    BY <2>1, WithFile
<1>2. /\ DOMAIN grown = DOMAIN disk.characters \cup {id}
      /\ \A other \in DOMAIN disk.characters : grown[other] = disk.characters[other]
  BY DEF With, Appends
<1>3. ParsesCast(grown, disk)
  BY DEF Appends
<1> HIDE DEF grown, new
<1>4. Grown(disk, new)
  BY <1>1 DEF Grown, Files, Books
<1>5. ParsesCast(new.characters, new)
  BY <1>1, <1>3, <1>4, CastGrows DEF Files, Books
<1>6. ParsesArchetypes(new.archetypes, new)
  BY <1>1, <1>4, ArchetypesGrow DEF Sound, Loads, Files, Books
<1>7. ParsesBuilds(new.builds, new.characters)
  BY <1>1, <1>2, BuildsGrow DEF Sound, Loads, Files, Books
<1>8. Sound(new)
  BY <1>1, <1>5, <1>6, <1>7 DEF Sound, Loads, Files, Books
<1>9. Keeps(disk, new)
  <2>1. BooksKept(disk, new)
    BY <1>1, <1>2 DEF BooksKept, Files, Books
  <2>2. SkillsOutlive(disk, new)
    BY <1>1, <1>2 DEF SkillsOutlive, Files, Books
  <2>3. SquadsKeptBut(Blank, disk, new)
    BY <1>1, <1>2 DEF SquadsKeptBut, Files, Books
  <2> QED
    BY <2>1, <2>2, <2>3, KeepsTheRest
<1> QED
  BY <1>8, <1>9 DEF new, grown

\* A new origin: the cast that parsed among fewer parses among more.
LEMMA OriginIsSound ==
    ASSUME Sound(disk), NEW id, NEW entry, id \notin DOMAIN disk.origins,
           ValidOrigin(id, entry)
    PROVE  LET new == [disk EXCEPT !.origins = With(disk.origins, id, entry)] IN
           Sound(new) /\ Keeps(disk, new)
<1> DEFINE grown == With(disk.origins, id, entry)
           new == [disk EXCEPT !.origins = grown]
<1>1. /\ new = [f \in Files |-> new[f]]
      /\ \A f \in Files : new[f] = IF f = "origins" THEN grown ELSE disk[f]
  <2> HIDE DEF grown
  <2>1. "origins" \in Files
    BY DEF Files, Books
  <2> QED
    BY <2>1, WithFile
<1>2. /\ DOMAIN grown = DOMAIN disk.origins \cup {id} /\ grown[id] = entry
      /\ \A other \in DOMAIN disk.origins : grown[other] = disk.origins[other]
  BY DEF With
<1> HIDE DEF grown, new
<1>3. Grown(disk, new)
  BY <1>1, <1>2 DEF Grown, Files, Books
<1>4. ParsesCast(new.characters, new) /\ ParsesArchetypes(new.archetypes, new)
  BY <1>1, <1>3, CastGrows, ArchetypesGrow DEF Sound, Loads, Files, Books
<1>5. Sound(new)
  BY <1>1, <1>2, <1>4 DEF Sound, Loads, Files, Books
<1>6. Keeps(disk, new)
  <2>1. BooksKept(disk, new)
    BY <1>1, <1>2 DEF BooksKept, Files, Books
  <2>2. SkillsOutlive(disk, new)
    BY <1>1, <1>2 DEF SkillsOutlive, Files, Books
  <2>3. SquadsKeptBut(Blank, disk, new)
    BY <1>1, <1>2 DEF SquadsKeptBut, Files, Books
  <2> QED
    BY <2>1, <2>2, <2>3, KeepsTheRest
<1> QED
  BY <1>5, <1>6 DEF new, grown

\* A new kind, likewise.
LEMMA SpeciesIsSound ==
    ASSUME Sound(disk), NEW id, NEW entry, id \notin DOMAIN disk.species,
           ValidSpecies(id, entry)
    PROVE  LET new == [disk EXCEPT !.species = With(disk.species, id, entry)] IN
           Sound(new) /\ Keeps(disk, new)
<1> DEFINE grown == With(disk.species, id, entry)
           new == [disk EXCEPT !.species = grown]
<1>1. /\ new = [f \in Files |-> new[f]]
      /\ \A f \in Files : new[f] = IF f = "species" THEN grown ELSE disk[f]
  <2> HIDE DEF grown
  <2>1. "species" \in Files
    BY DEF Files, Books
  <2> QED
    BY <2>1, WithFile
<1>2. /\ DOMAIN grown = DOMAIN disk.species \cup {id} /\ grown[id] = entry
      /\ \A other \in DOMAIN disk.species : grown[other] = disk.species[other]
  BY DEF With
<1> HIDE DEF grown, new
<1>3. Grown(disk, new)
  BY <1>1, <1>2 DEF Grown, Files, Books
<1>4. ParsesCast(new.characters, new) /\ ParsesArchetypes(new.archetypes, new)
  BY <1>1, <1>3, CastGrows, ArchetypesGrow DEF Sound, Loads, Files, Books
<1>5. Sound(new)
  BY <1>1, <1>2, <1>4 DEF Sound, Loads, Files, Books
<1>6. Keeps(disk, new)
  <2>1. BooksKept(disk, new)
    BY <1>1, <1>2 DEF BooksKept, Files, Books
  <2>2. SkillsOutlive(disk, new)
    BY <1>1, <1>2 DEF SkillsOutlive, Files, Books
  <2>3. SquadsKeptBut(Blank, disk, new)
    BY <1>1, <1>2 DEF SquadsKeptBut, Files, Books
  <2> QED
    BY <2>1, <2>2, <2>3, KeepsTheRest
<1> QED
  BY <1>5, <1>6 DEF new, grown

\* A new skill, likewise: nobody carries it yet.
LEMMA SkillIsSound ==
    ASSUME Sound(disk), NEW id, NEW entry, id \notin DOMAIN disk.skills,
           id # Blank, SkillParses(entry), "unread" \in DOMAIN entry
    PROVE  LET new == [disk EXCEPT !.skills = With(disk.skills, id, entry)] IN
           Sound(new) /\ Keeps(disk, new)
<1> DEFINE grown == With(disk.skills, id, entry)
           new == [disk EXCEPT !.skills = grown]
<1>1. /\ new = [f \in Files |-> new[f]]
      /\ \A f \in Files : new[f] = IF f = "skills" THEN grown ELSE disk[f]
  <2> HIDE DEF grown
  <2>1. "skills" \in Files
    BY DEF Files, Books
  <2> QED
    BY <2>1, WithFile
<1>2. /\ DOMAIN grown = DOMAIN disk.skills \cup {id} /\ grown[id] = entry
      /\ \A other \in DOMAIN disk.skills : grown[other] = disk.skills[other]
  BY DEF With
<1> HIDE DEF grown, new
<1>3. Grown(disk, new)
  BY <1>1, <1>2 DEF Grown, Files, Books
<1>4. ParsesCast(new.characters, new) /\ ParsesArchetypes(new.archetypes, new)
  BY <1>1, <1>3, CastGrows, ArchetypesGrow DEF Sound, Loads, Files, Books
<1>5. Sound(new)
  BY <1>1, <1>2, <1>4 DEF Sound, Loads, Files, Books
<1>6. Keeps(disk, new)
  <2>1. BooksKept(disk, new)
    BY <1>1, <1>2 DEF BooksKept, Files, Books
  <2>2. SkillsOutlive(disk, new)
    BY <1>1, <1>2 DEF SkillsOutlive, Files, Books
  <2>3. SquadsKeptBut(Blank, disk, new)
    BY <1>1, <1>2 DEF SquadsKeptBut, Files, Books
  <2> QED
    BY <2>1, <2>2, <2>3, KeepsTheRest
<1> QED
  BY <1>5, <1>6 DEF new, grown

\* A squad, new or of an id that is replaced: at most that one is lost.
LEMMA SquadIsSound ==
    ASSUME Sound(disk), NEW id, NEW entry, id # Blank, ValidUnits(entry.units)
    PROVE  LET new == [disk EXCEPT !.squads = With(disk.squads, id, entry)] IN
           Sound(new) /\ Keeps(disk, new)
<1> DEFINE grown == With(disk.squads, id, entry)
           new == [disk EXCEPT !.squads = grown]
<1>1. /\ new = [f \in Files |-> new[f]]
      /\ \A f \in Files : new[f] = IF f = "squads" THEN grown ELSE disk[f]
  <2> HIDE DEF grown
  <2>1. "squads" \in Files
    BY DEF Files, Books
  <2> QED
    BY <2>1, WithFile
<1>2. /\ DOMAIN grown = DOMAIN disk.squads \cup {id} /\ grown[id] = entry
      /\ \A other \in DOMAIN disk.squads : other # id => grown[other] = disk.squads[other]
  BY DEF With
<1> HIDE DEF grown, new
<1>3. Grown(disk, new)
  BY <1>1 DEF Grown, Files, Books
<1>4. ParsesCast(new.characters, new) /\ ParsesArchetypes(new.archetypes, new)
  BY <1>1, <1>3, CastGrows, ArchetypesGrow DEF Sound, Loads, Files, Books
<1>5. Sound(new)
  BY <1>1, <1>2, <1>4 DEF Sound, Loads, Files, Books, ParsesSquads
<1>6. Keeps(disk, new)
  <2>1. BooksKept(disk, new)
    BY <1>1, <1>2 DEF BooksKept, Files, Books
  <2>2. SkillsOutlive(disk, new)
    BY <1>1, <1>2 DEF SkillsOutlive, Files, Books
  <2>3. SquadsKeptBut(id, disk, new)
    BY <1>1, <1>2 DEF SquadsKeptBut, Files, Books
  <2> QED
    BY <2>1, <2>2, <2>3, KeepsTheRest
<1> QED
  BY <1>5, <1>6 DEF new, grown

\* A squad deleted: it is the one that is lost.
LEMMA DroppedIsSound ==
    ASSUME Sound(disk), NEW id
    PROVE  LET new == [disk EXCEPT !.squads = Kept(disk.squads, id)] IN
           Sound(new) /\ Keeps(disk, new)
<1> DEFINE kept == Kept(disk.squads, id)
           new == [disk EXCEPT !.squads = kept]
<1>1. /\ new = [f \in Files |-> new[f]]
      /\ \A f \in Files : new[f] = IF f = "squads" THEN kept ELSE disk[f]
  <2> HIDE DEF kept
  <2>1. "squads" \in Files
    BY DEF Files, Books
  <2> QED
    BY <2>1, WithFile
<1>2. /\ DOMAIN kept = DOMAIN disk.squads \ {id}
      /\ \A other \in DOMAIN kept : kept[other] = disk.squads[other]
  BY DEF Kept
<1> HIDE DEF kept, new
<1>3. Grown(disk, new)
  BY <1>1 DEF Grown, Files, Books
<1>4. ParsesCast(new.characters, new) /\ ParsesArchetypes(new.archetypes, new)
  BY <1>1, <1>3, CastGrows, ArchetypesGrow DEF Sound, Loads, Files, Books
<1>5. Sound(new)
  BY <1>1, <1>2, <1>4 DEF Sound, Loads, Files, Books, ParsesSquads
<1>6. Keeps(disk, new)
  <2>1. BooksKept(disk, new)
    BY <1>1, <1>2 DEF BooksKept, Files, Books
  <2>2. SkillsOutlive(disk, new)
    BY <1>1, <1>2 DEF SkillsOutlive, Files, Books
  <2>3. SquadsKeptBut(id, disk, new)
    BY <1>1, <1>2 DEF SquadsKeptBut, Files, Books
  <2> QED
    BY <2>1, <2>2, <2>3, KeepsTheRest
<1> QED
  BY <1>5, <1>6 DEF new, kept

\* The log of a battle: no book is touched.
LEMMA LogIsSound ==
    ASSUME Sound(disk), NEW logs
    PROVE  LET new == [disk EXCEPT !.battles = logs] IN Sound(new) /\ Keeps(disk, new)
<1> DEFINE new == [disk EXCEPT !.battles = logs]
<1>1. /\ new = [f \in Files |-> new[f]]
      /\ \A f \in Files : new[f] = IF f = "battles" THEN logs ELSE disk[f]
  <2>1. "battles" \in Files
    BY DEF Files, Books
  <2> QED
    BY <2>1, WithFile
<1> HIDE DEF new
<1>2. Grown(disk, new)
  BY <1>1 DEF Grown, Files, Books
<1>3. ParsesCast(new.characters, new) /\ ParsesArchetypes(new.archetypes, new)
  BY <1>1, <1>2, CastGrows, ArchetypesGrow DEF Sound, Loads, Files, Books
<1>4. Sound(new)
  BY <1>1, <1>3 DEF Sound, Loads, Files, Books
<1>5. Keeps(disk, new)
  <2>1. BooksKept(disk, new)
    BY <1>1, <1>2 DEF BooksKept, Files, Books
  <2>2. SkillsOutlive(disk, new)
    BY <1>1, <1>2 DEF SkillsOutlive, Files, Books
  <2>3. SquadsKeptBut(Blank, disk, new)
    BY <1>1, <1>2 DEF SquadsKeptBut, Files, Books
  <2> QED
    BY <2>1, <2>2, <2>3, KeepsTheRest
<1> QED
  BY <1>4, <1>5 DEF new

\* An edited skill: the presets and the cast of the disk were read against it.
LEMMA EditIsSound ==
    ASSUME Sound(disk), NEW id, NEW draft, id \in DOMAIN disk.skills, id # Blank,
           NEW books, NEW edited, edited = [disk.skills EXCEPT ![id] = Onto(draft, @)],
           SkillParses(edited[id]),
           Grown(books, [disk EXCEPT !.skills = edited]),
           ParsesArchetypes(disk.archetypes, books), ParsesCast(disk.characters, books)
    PROVE  LET new == [disk EXCEPT !.skills = edited] IN Sound(new) /\ Keeps(disk, new)
<1> DEFINE new == [disk EXCEPT !.skills = edited]
<1>1. /\ new = [f \in Files |-> new[f]]
      /\ \A f \in Files : new[f] = IF f = "skills" THEN edited ELSE disk[f]
  <2>1. "skills" \in Files
    BY DEF Files, Books
  <2> QED
    BY <2>1, WithFile
<1>2. /\ DOMAIN edited = DOMAIN disk.skills
      /\ edited[id] = Onto(draft, disk.skills[id])
      /\ \A other \in DOMAIN disk.skills : other # id => edited[other] = disk.skills[other]
  OBVIOUS
<1>3. /\ "unread" \in DOMAIN edited[id]
      /\ edited[id].unread = disk.skills[id].unread
  BY <1>2 DEF Sound, Onto
<1>4. Grown(books, new)
  OBVIOUS
<1> HIDE DEF new
<1>5. ParsesCast(new.characters, new) /\ ParsesArchetypes(new.archetypes, new)
  BY <1>1, <1>4, CastGrows, ArchetypesGrow DEF Files, Books
<1>6. Sound(new)
  BY <1>1, <1>2, <1>3, <1>5 DEF Sound, Loads, Files, Books
<1>7. Keeps(disk, new)
  <2>1. BooksKept(disk, new)
    BY <1>1, <1>2 DEF BooksKept, Files, Books
  <2>2. SkillsOutlive(disk, new)
    BY <1>1, <1>2, <1>3 DEF SkillsOutlive, Files, Books
  <2>3. SquadsKeptBut(Blank, disk, new)
    BY <1>1, <1>2 DEF SquadsKeptBut, Files, Books
  <2> QED
    BY <2>1, <2>2, <2>3, KeepsTheRest
<1> QED
  BY <1>6, <1>7 DEF new

-----------------------------------------------------------------------------
(* One lemma for the start of every save, and one for its author.          *)

\* A save that would leave the directory sound, and its own memory in step, may start.
LEMMA SaveStarts ==
    ASSUME LibraryInv, NEW s \in Sessions, lib[s].open, NEW file \in Files, NEW data, NEW after,
           Writes(s, file, data, after), ALibrary(after), after.open, after.home,
           \A book \in Shelf : after[book] = [disk EXCEPT ![file] = data][book],
           Sound([disk EXCEPT ![file] = data]), Keeps(disk, [disk EXCEPT ![file] = data])
    PROVE  LibraryInv'
<1> DEFINE w == [file |-> file, data |-> data, after |-> after]
<1>1. /\ writing' = [t \in Sessions |-> IF t = s THEN w ELSE writing[t]]
      /\ disk' = disk /\ lib' = lib /\ lib[s].home
  BY DEF Writes, LibraryInv
<1>2. SaveUnderway(s)'
  <2>1. writing'[s] = w /\ w.file = file /\ w.data = data /\ w.after = after
    BY <1>1
  <2> HIDE DEF w
  <2>2. Saved(disk, w) = [disk EXCEPT ![file] = data]
    BY <2>1 DEF Saved
  <2>3. Promise(disk, w)
    BY <2>1, <2>2 DEF Promise
  <2> QED
    BY <1>1, <2>1, <2>3 DEF SaveUnderway
<1> HIDE DEF w
<1>3. ASSUME NEW t \in Sessions, t # s
      PROVE  SaveUnderway(t)'
  <2>1. SaveUnderway(t) /\ writing'[t] = writing[t]
    BY <1>1, <1>3 DEF LibraryInv
  <2> QED
    BY <1>1, <2>1 DEF SaveUnderway
<1>4. Sound(disk)' /\ \A t \in Sessions : ALibrary(lib[t])' /\ InStep(t)'
  BY <1>1 DEF LibraryInv, InStep
<1> QED
  BY <1>1, <1>2, <1>3, <1>4 DEF LibraryInv

\* What the author has in memory is what the others' books are checked against.
LEMMA MemoryIsTheDisk ==
    ASSUME LibraryInv, NEW s \in Sessions, lib[s].open, lib[s].home
    PROVE  /\ \A book \in Shelf : lib[s][book] = disk[book]
           /\ Grown(lib[s], disk) /\ ALibrary(lib[s])
           /\ lib[s] = [field \in Shelf \cup {"home", "open"} |-> lib[s][field]]
BY DEF LibraryInv, InStep, ALibrary, Grown, Shelf, Books

\* So a book that grows in memory is the one on disk, grown.
LEMMA GrowthStarts ==
    ASSUME LibraryInv, NEW s \in Sessions, lib[s].open, NEW file \in Books, NEW id, NEW entry,
           Grows(s, file, id, entry),
           Sound([disk EXCEPT ![file] = With(disk[file], id, entry)]),
           Keeps(disk, [disk EXCEPT ![file] = With(disk[file], id, entry)])
    PROVE  LibraryInv'
<1> DEFINE grown == With(lib[s][file], id, entry)
           after == [lib[s] EXCEPT ![file] = grown]
<1>1. Writes(s, file, grown, after) /\ lib[s].home
  BY DEF Grows, Writes
<1>2. /\ \A book \in Shelf : lib[s][book] = disk[book]
      /\ lib[s] = [field \in Shelf \cup {"home", "open"} |-> lib[s][field]]
  BY <1>1, MemoryIsTheDisk
<1>3. file \in Shelf /\ file \in Files /\ file # "home" /\ file # "open"
  BY DEF Shelf, Files, Books
<1>4. grown = With(disk[file], id, entry)
  BY <1>2, <1>3
<1> HIDE DEF grown
<1>5. ALibrary(after) /\ after.open /\ after.home
  BY <1>1, <1>2, <1>3 DEF ALibrary
<1>6. \A book \in Shelf : after[book] = [disk EXCEPT ![file] = grown][book]
  <2>1. disk = [f \in Files |-> disk[f]] /\ Shelf \subseteq Files
    BY DEF LibraryInv, Sound, Shelf, Files
  <2> QED
    BY <1>2, <1>3, <2>1
<1> HIDE DEF after
<1>7. /\ Sound([disk EXCEPT ![file] = grown])
      /\ Keeps(disk, [disk EXCEPT ![file] = grown])
  BY <1>4
<1> QED
  BY <1>1, <1>3, <1>5, <1>6, <1>7, SaveStarts

-----------------------------------------------------------------------------
(* Every save starts in step.                                              *)

\* A character: the books of the author's memory are the disk's.
LEMMA SavesCharacter ==
    ASSUME LibraryInv, NEW s \in Sessions, SaveCharacter(s)
    PROVE  LibraryInv'
<1>1. PICK draft \in CharacterDrafts : Ready(s) /\ AddsCharacter(s, draft)
  BY DEF SaveCharacter
<1> DEFINE character == Built(draft, lib[s])
<1>2. /\ Appends(lib[s], draft.id, character)
      /\ Grows(s, "characters", draft.id, character)
      /\ lib[s].open
  BY <1>1 DEF AddsCharacter, ResolvesDraft, Ready
<1> HIDE DEF character
<1>3. lib[s].home
  BY <1>2 DEF Grows, Writes
<1>4. lib[s].characters = disk.characters /\ Grown(lib[s], disk)
  BY <1>2, <1>3, MemoryIsTheDisk DEF Shelf, Books
<1>5. ParsesCast(With(disk.characters, draft.id, character), lib[s])
  BY <1>2, <1>4 DEF Appends
<1>6. Appends(disk, draft.id, character)
  BY <1>2, <1>4, <1>5, CastGrows DEF Appends
<1>7. Sound(disk) /\ "characters" \in Books
  BY DEF LibraryInv, Books
<1> DEFINE new == [disk EXCEPT !.characters = With(disk.characters, draft.id, character)]
<1>8. Sound(new) /\ Keeps(disk, new)
  BY <1>6, <1>7, CharacterIsSound
<1> QED
  BY <1>2, <1>7, <1>8, GrowthStarts

\* An origin and a kind, new to the book.
LEMMA SavesOrigin ==
    ASSUME LibraryInv, NEW s \in Sessions, SaveOrigin(s)
    PROVE  LibraryInv'
<1>1. PICK draft \in OriginDrafts : Ready(s) /\ AddsOrigin(s, draft)
  BY DEF SaveOrigin
<1> DEFINE entry == [title |-> draft.title]
<1>2. /\ draft.id \notin DOMAIN lib[s].origins /\ ValidOrigin(draft.id, entry)
      /\ Grows(s, "origins", draft.id, entry) /\ lib[s].open
  BY <1>1 DEF AddsOrigin, NewOrigin, ValidOrigin, Ready
<1> HIDE DEF entry
<1>3. lib[s].home
  BY <1>2 DEF Grows, Writes
<1>4. lib[s].origins = disk.origins
  BY <1>2, <1>3, MemoryIsTheDisk DEF Shelf, Books
<1>5. Sound(disk) /\ "origins" \in Books
  BY DEF LibraryInv, Books
<1> DEFINE new == [disk EXCEPT !.origins = With(disk.origins, draft.id, entry)]
<1>6. Sound(new) /\ Keeps(disk, new)
  BY <1>2, <1>4, <1>5, OriginIsSound
<1> QED
  BY <1>2, <1>5, <1>6, GrowthStarts

\* A species is saved into a book that can take it.
LEMMA SavesSpecies ==
    ASSUME LibraryInv, NEW s \in Sessions, SaveSpecies(s)
    PROVE  LibraryInv'
<1>1. PICK draft \in SpeciesDrafts :
        /\ Ready(s) /\ draft.id \notin DOMAIN lib[s].species
        /\ ValidSpecies(draft.id, draft) /\ Grows(s, "species", draft.id, [name |-> draft.name])
  BY DEF SaveSpecies
<1> DEFINE entry == [name |-> draft.name]
<1>2. ValidSpecies(draft.id, entry) /\ Grows(s, "species", draft.id, entry) /\ lib[s].open
  BY <1>1 DEF ValidSpecies, Ready
<1> HIDE DEF entry
<1>3. lib[s].home
  BY <1>2 DEF Grows, Writes
<1>4. lib[s].species = disk.species
  BY <1>2, <1>3, MemoryIsTheDisk DEF Shelf, Books
<1>5. Sound(disk) /\ "species" \in Books
  BY DEF LibraryInv, Books
<1> DEFINE new == [disk EXCEPT !.species = With(disk.species, draft.id, entry)]
<1>6. Sound(new) /\ Keeps(disk, new)
  BY <1>1, <1>2, <1>4, <1>5, SpeciesIsSound
<1> QED
  BY <1>2, <1>5, <1>6, GrowthStarts

\* A skill the book does not have, laid onto what a new skill is.
LEMMA SavesSkill ==
    ASSUME LibraryInv, NEW s \in Sessions, SaveSkill(s)
    PROVE  LibraryInv'
<1>1. PICK draft \in SkillDrafts : Ready(s) /\ AddsSkill(s, draft)
  BY DEF SaveSkill
<1> DEFINE entry == Onto(draft, Fresh)
<1>2. /\ draft.id # Blank /\ draft.id \notin DOMAIN lib[s].skills /\ SkillParses(entry)
      /\ Grows(s, "skills", draft.id, entry) /\ lib[s].open
  BY <1>1 DEF AddsSkill, ResolvesSkill, Ready
<1>3. "unread" \in DOMAIN entry
  BY DEF Onto, Fresh
<1> HIDE DEF entry
<1>4. lib[s].home
  BY <1>2 DEF Grows, Writes
<1>5. lib[s].skills = disk.skills
  BY <1>2, <1>4, MemoryIsTheDisk DEF Shelf, Books
<1>6. Sound(disk) /\ "skills" \in Books
  BY DEF LibraryInv, Books
<1> DEFINE new == [disk EXCEPT !.skills = With(disk.skills, draft.id, entry)]
<1>7. Sound(new) /\ Keeps(disk, new)
  BY <1>2, <1>3, <1>5, <1>6, SkillIsSound
<1> QED
  BY <1>2, <1>6, <1>7, GrowthStarts

\* A squad with a name, of units the cast can field.
LEMMA SavesSquad ==
    ASSUME LibraryInv, SquadsAreNamed, NEW s \in Sessions, SaveSquad(s)
    PROVE  LibraryInv'
<1>1. PICK draft \in SquadDrafts : Ready(s) /\ KeepsSquad(s, draft)
  BY DEF SaveSquad
<1> DEFINE entry == [name |-> draft.name, units |-> draft.units]
<1>2. /\ draft.id # Blank /\ ValidUnits(entry.units)
      /\ Grows(s, "squads", draft.id, entry) /\ lib[s].open
  BY <1>1 DEF KeepsSquad, Fieldable, SquadsAreNamed, Ready
<1> HIDE DEF entry
<1>3. Sound(disk) /\ "squads" \in Books
  BY DEF LibraryInv, Books
<1> DEFINE new == [disk EXCEPT !.squads = With(disk.squads, draft.id, entry)]
<1>4. Sound(new) /\ Keeps(disk, new)
  BY <1>2, <1>3, SquadIsSound
<1> QED
  BY <1>2, <1>3, <1>4, GrowthStarts

\* A squad deleted, and a battle's log.
LEMMA DeletesSquad ==
    ASSUME LibraryInv, NEW s \in Sessions, DeleteSquad(s)
    PROVE  LibraryInv'
<1>1. PICK id \in DOMAIN lib[s].squads : Ready(s) /\ DropsSquad(s, id)
  BY DEF DeleteSquad
<1>2. lib[s].open /\ lib[s].home
  BY <1>1 DEF DropsSquad, Writes, Ready
<1>3. /\ \A book \in Shelf : lib[s][book] = disk[book]
      /\ lib[s] = [field \in Shelf \cup {"home", "open"} |-> lib[s][field]]
  BY <1>2, MemoryIsTheDisk
<1> DEFINE kept == Kept(disk.squads, id)
           after == [lib[s] EXCEPT !.squads = kept]
<1>4. "squads" \in Shelf /\ "squads" \in Files
  BY DEF Shelf, Files, Books
<1>5. Writes(s, "squads", kept, after)
  <2>1. lib[s].squads = disk.squads
    BY <1>3, <1>4
  <2> QED
    BY <1>1, <2>1 DEF DropsSquad
<1>6. Sound([disk EXCEPT !.squads = kept]) /\ Keeps(disk, [disk EXCEPT !.squads = kept])
  BY DroppedIsSound DEF LibraryInv
<1> HIDE DEF kept
<1>7. ALibrary(after) /\ after.open /\ after.home
  BY <1>2, <1>3 DEF ALibrary, Shelf, Books
<1>8. \A book \in Shelf : after[book] = [disk EXCEPT !.squads = kept][book]
  <2>1. disk = [f \in Files |-> disk[f]] /\ Shelf \subseteq Files
    BY DEF LibraryInv, Sound, Shelf, Files
  <2> QED
    BY <1>3, <1>4, <2>1
<1> HIDE DEF after
<1> QED
  BY <1>2, <1>4, <1>5, <1>6, <1>7, <1>8, SaveStarts

\* A battle log is kept beside the library.
LEMMA SavesLog ==
    ASSUME LibraryInv, NEW s \in Sessions, SaveBattleLog(s)
    PROVE  LibraryInv'
<1>1. PICK log \in Logs : Ready(s) /\ Writes(s, "battles", disk.battles \cup {log}, lib[s])
  BY DEF SaveBattleLog
<1> DEFINE logs == disk.battles \cup {log}
<1>2. lib[s].open /\ lib[s].home
  BY <1>1 DEF Writes, Ready
<1>3. ALibrary(lib[s]) /\ \A book \in Shelf : lib[s][book] = disk[book]
  BY <1>2, MemoryIsTheDisk
<1>4. Writes(s, "battles", logs, lib[s])
  BY <1>1
<1> HIDE DEF logs
<1>5. Sound([disk EXCEPT !.battles = logs]) /\ Keeps(disk, [disk EXCEPT !.battles = logs])
  BY LogIsSound DEF LibraryInv
<1>6. "battles" \in Files /\ "battles" \notin Shelf /\ Shelf \subseteq Files
  BY DEF Files, Shelf, Books
<1>7. \A book \in Shelf : lib[s][book] = [disk EXCEPT !.battles = logs][book]
  BY <1>3, <1>6 DEF LibraryInv, Sound
<1> QED
  BY <1>2, <1>3, <1>4, <1>5, <1>6, <1>7, SaveStarts

\* An edited skill: what the author has of the other books is the disk's, and the two
\* the check looks at were read from it.  A refused edit only says whom it is about.
LEMMA EditsASkill ==
    ASSUME LibraryInv, NEW s \in Sessions, EditSkill(s)
    PROVE  LibraryInv'
<1>1. PICK draft \in SkillDrafts : lib[s].open /\ lib[s].home /\ EditsSkill(s, draft)
  BY DEF EditSkill, Ready
<1>2. /\ \A book \in Shelf : lib[s][book] = disk[book]
      /\ lib[s] = [field \in Shelf \cup {"home", "open"} |-> lib[s][field]]
  BY <1>1, MemoryIsTheDisk
<1> DEFINE id == draft.id
           edited == [disk.skills EXCEPT ![id] = Onto(draft, @)]
           after == Rechecked(lib[s], edited)
<1>3. lib[s].skills = disk.skills /\ "skills" \in Files
  BY <1>2 DEF Shelf, Files, Books
<1>4. CASE UNCHANGED <<disk, lib, writing>>
  BY <1>4 DEF LibraryInv, InStep, SaveUnderway
<1>5. CASE ~UNCHANGED <<disk, lib, writing>>
  <2>1. /\ id \in DOMAIN disk.skills /\ SkillParses(edited[id])
        /\ ParsesArchetypes(after.archetypes, after) /\ ParsesCast(after.characters, after)
        /\ Writes(s, "skills", edited, after)
    BY <1>1, <1>3, <1>5 DEF EditsSkill
  <2>2. edited = [disk.skills EXCEPT ![id] = Onto(draft, @)] /\ id # Blank
    BY <2>1 DEF LibraryInv, Sound, Loads
  <2> HIDE DEF edited
  <2>3. /\ after = [field \in Shelf \cup {"home", "open"} |-> after[field]]
        /\ after.skills = edited /\ after.archetypes = disk.archetypes
        /\ after.characters = disk.characters
        /\ after.open = lib[s].open /\ after.home = lib[s].home
        /\ \A book \in Shelf \ {"skills", "archetypes", "characters"} : after[book] = disk[book]
    BY <1>2 DEF Rechecked, Shelf, Books
  <2> HIDE DEF after
  <2> DEFINE new == [disk EXCEPT !.skills = edited]
  <2>4. /\ new = [f \in Files |-> new[f]]
        /\ \A f \in Files : new[f] = IF f = "skills" THEN edited ELSE disk[f]
    BY <1>3, WithFile DEF LibraryInv
  <2>5. \A book \in Shelf : after[book] = new[book]
    <3> HIDE DEF new
    <3> QED
      BY <2>3, <2>4 DEF Shelf, Files, Books
  <2>6. Grown(after, new)
    <3> HIDE DEF new
    <3> QED
      BY <2>5 DEF Grown, Shelf, Books
  <2>7. Sound(new) /\ Keeps(disk, new)
    <3>1. ParsesArchetypes(disk.archetypes, after) /\ ParsesCast(disk.characters, after)
      BY <2>1, <2>3
    <3> HIDE DEF id
    <3> QED
      BY <2>1, <2>2, <2>6, <3>1, EditIsSound DEF LibraryInv
  <2>8. ALibrary(after) /\ after.open /\ after.home
    BY <1>1, <2>3 DEF ALibrary
  <2> QED
    BY <1>1, <1>3, <2>1, <2>5, <2>7, <2>8, SaveStarts
<1> QED
  BY <1>4, <1>5

-----------------------------------------------------------------------------
(* What a save comes to, and a program.                                    *)

\* The file is renamed: the disk and the author's memory take the save together, and
\* no other program has a save of its own.
LEMMA Renames ==
    ASSUME LibraryInv, OneAuthor, NEW s \in Sessions, Rename(s)
    PROVE  LibraryInv' /\ Keeps(disk, disk')
<1> DEFINE w == writing[s]
<1>1. /\ w # Idle /\ lib[s].open /\ lib[s].home /\ Promise(disk, w) /\ s \notin Readers
      /\ disk' = Saved(disk, w)
      /\ lib' = [t \in Sessions |-> IF t = s THEN w.after ELSE lib[t]]
      /\ writing' = [t \in Sessions |-> IF t = s THEN Idle ELSE writing[t]]
  BY DEF LibraryInv, Rename, SaveUnderway, Saved
<1>2. Sound(disk') /\ Keeps(disk, disk')
  BY <1>1 DEF Promise
<1>3. ALibrary(lib'[s]) /\ \A book \in Shelf : lib'[s][book] = disk'[book]
  BY <1>1 DEF Promise
<1>4. ASSUME NEW t \in Sessions, t # s
      PROVE  /\ lib'[t] = lib[t] /\ ~(lib[t].open /\ lib[t].home)
             /\ writing'[t] = writing[t] /\ writing[t] = Idle
  <2>1. t \in Readers
    BY <1>1, <1>4 DEF OneAuthor
  <2> QED
    BY <1>1, <1>4, <2>1 DEF LibraryInv, SaveUnderway
<1>5. ASSUME NEW t \in Sessions
      PROVE  /\ ALibrary(lib'[t]) /\ InStep(t)' /\ SaveUnderway(t)'
             /\ t \in Readers => ~(lib'[t].open /\ lib'[t].home)
  <2>1. CASE t = s
    BY <1>1, <1>3, <2>1 DEF InStep, SaveUnderway
  <2>2. CASE t # s
    BY <1>4, <2>2 DEF InStep, SaveUnderway, LibraryInv
  <2> QED
    BY <2>1, <2>2
<1> HIDE DEF w
<1> QED
  BY <1>1, <1>2, <1>5 DEF LibraryInv

\* A save that fails, a program that stops: the disk and the memory stay as they were.
LEMMA Fails ==
    ASSUME LibraryInv, NEW s \in Sessions, Fail(s)
    PROVE  LibraryInv'
<1>1. /\ disk' = disk /\ lib' = lib
      /\ writing' = [t \in Sessions |-> IF t = s THEN Idle ELSE writing[t]]
  BY DEF Fail, LibraryInv
<1> QED
  BY <1>1 DEF LibraryInv, InStep, SaveUnderway

\* A session that stops leaves the directory readable.
LEMMA Stops ==
    ASSUME LibraryInv, NEW s \in Sessions, Stop(s)
    PROVE  LibraryInv'
<1>1. /\ disk' = disk
      /\ lib' = [t \in Sessions |-> IF t = s THEN Closed ELSE lib[t]]
      /\ writing' = [t \in Sessions |-> IF t = s THEN Idle ELSE writing[t]]
  BY DEF Stop, LibraryInv
<1>2. ~Closed.open /\ ALibrary(Closed)
  BY DEF Closed, ALibrary
<1>3. ASSUME NEW t \in Sessions
      PROVE  /\ ALibrary(lib'[t]) /\ InStep(t)' /\ SaveUnderway(t)'
             /\ t \in Readers => ~(lib'[t].open /\ lib'[t].home)
  <2>1. CASE t = s
    BY <1>1, <1>2, <2>1 DEF InStep, SaveUnderway
  <2>2. CASE t # s
    BY <1>1, <2>2 DEF LibraryInv, InStep, SaveUnderway
  <2> QED
    BY <2>1, <2>2
<1> QED
  BY <1>1, <1>3 DEF LibraryInv

\* A program starts: with what is on disk, or with the embedded copy and nowhere to save.
LEMMA Starts ==
    ASSUME LibraryInv, NEW s \in Sessions, Load(s) \/ LoadEmbedded(s)
    PROVE  LibraryInv'
<1>0. PICK home \in BOOLEAN :
        \E books :
          /\ lib' = [t \in Sessions |-> IF t = s THEN Library(home, books) ELSE lib[t]]
          /\ ~lib[s].open /\ disk' = disk /\ writing' = writing
          /\ home => books = disk
          /\ s \in Readers => ~home
  BY DEF Load, LoadEmbedded, LibraryInv
<1>1. PICK books :
        /\ lib' = [t \in Sessions |-> IF t = s THEN Library(home, books) ELSE lib[t]]
        /\ ~lib[s].open /\ disk' = disk /\ writing' = writing
        /\ home => books = disk
        /\ s \in Readers => ~home
  BY <1>0
<1> DEFINE known == Library(home, books)
<1>2. /\ known = [field \in Shelf \cup {"home", "open"} |-> known[field]]
      /\ known.open /\ known.home = home
      /\ known.passives = Shipped.passives
      /\ \A book \in Books : known[book] = books[book]
  BY DEF Library, Shelf, Books
<1> HIDE DEF known
<1>3. disk.passives = Shipped.passives
  BY DEF LibraryInv, Sound
<1>4. ASSUME NEW t \in Sessions
      PROVE  /\ ALibrary(lib'[t]) /\ InStep(t)' /\ SaveUnderway(t)'
             /\ t \in Readers => ~(lib'[t].open /\ lib'[t].home)
  <2>1. CASE t = s
    <3>1. lib'[s] = known
      BY <1>1 DEF known
    <3>2. SaveUnderway(s) /\ ~lib[s].open
      BY <1>1 DEF LibraryInv
    <3>3. ALibrary(known)
      BY <1>2 DEF ALibrary
    <3>4. known.home => \A book \in Shelf : known[book] = disk[book]
      BY <1>1, <1>2, <1>3 DEF Shelf
    <3> QED
      BY <1>1, <1>2, <2>1, <3>1, <3>2, <3>3, <3>4 DEF InStep, SaveUnderway
  <2>2. CASE t # s
    BY <1>1, <2>2 DEF LibraryInv, InStep, SaveUnderway
  <2> QED
    BY <2>1, <2>2
<1> QED
  BY <1>1, <1>4 DEF LibraryInv

-----------------------------------------------------------------------------
(* The invariant, and what it is for.                                      *)

\* LibraryInv holds of the shipped directory and of every step, for one author.
LEMMA Initial == ASSUME ForgeInit PROVE LibraryInv
<1>1. Sound(disk)
  BY ForgeAssumption DEF ForgeInit, Sound
<1>2. ~Closed.open
  BY DEF Closed
<1> QED
  BY <1>1, <1>2 DEF ForgeInit, LibraryInv, ALibrary, InStep, SaveUnderway

\* No step of the author's session, or of anybody's reading, breaks the invariant.
LEMMA Inductive ==
    ASSUME OneAuthor, SquadsAreNamed, LibraryInv, [ForgeNext]_forgeVars
    PROVE  LibraryInv'
<1>1. CASE UNCHANGED forgeVars
  BY <1>1 DEF forgeVars, LibraryInv, InStep, SaveUnderway
<1>2. ASSUME NEW s \in Sessions,
             \/ Load(s) \/ LoadEmbedded(s) \/ Stop(s) \/ Rename(s) \/ Fail(s)
             \/ SaveCharacter(s) \/ SaveOrigin(s) \/ SaveSpecies(s) \/ SaveSkill(s)
             \/ EditSkill(s) \/ SaveSquad(s) \/ DeleteSquad(s) \/ SaveBattleLog(s)
      PROVE  LibraryInv'
  BY <1>2, Starts, Stops, Renames, Fails, SavesCharacter, SavesOrigin, SavesSpecies,
     SavesSkill, EditsASkill, SavesSquad, DeletesSquad, SavesLog
<1> QED
  BY <1>1, <1>2 DEF ForgeNext

\* With one author, whatever is saved, refused, half-written or stopped, the next
\* program to read the directory is not refused by it (forge/library.go, Load).
THEOREM NextReaderLoads ==
    ASSUME OneAuthor, SquadsAreNamed
    PROVE  ForgeSpec => []DirectoryLoads
<1>1. ForgeInit => LibraryInv
  BY Initial
<1>2. LibraryInv /\ [ForgeNext]_forgeVars => LibraryInv'
  BY Inductive
<1>3. LibraryInv => DirectoryLoads
  BY DEF LibraryInv, Sound, DirectoryLoads
<1> QED
  BY <1>1, <1>2, <1>3, PTL DEF ForgeSpec

\* What the author's program shows is what is on disk, at every point of every save
\* (forge/library.go: the file is written before the memory is changed).
THEOREM MemoryFollowsTheDisk ==
    ASSUME OneAuthor, SquadsAreNamed
    PROVE  ForgeSpec => []LibraryIsTheDirectory
<1>1. ForgeInit => LibraryInv
  BY Initial
<1>2. LibraryInv /\ [ForgeNext]_forgeVars => LibraryInv'
  BY Inductive
<1>3. LibraryInv => LibraryIsTheDirectory
  BY DEF LibraryInv, InStep, LibraryIsTheDirectory, Shelf
<1> QED
  BY <1>1, <1>2, <1>3, PTL DEF ForgeSpec

\* The disk changes only where a save is renamed onto it.
LEMMA OnlyARenameWrites ==
    ASSUME OneAuthor, LibraryInv, [ForgeNext]_forgeVars
    PROVE  disk' = disk \/ Keeps(disk, disk')
<1>1. ASSUME NEW s \in Sessions, Rename(s)
      PROVE  Keeps(disk, disk')
  BY <1>1, Renames
<1>2. ASSUME NEW s \in Sessions,
             \/ Load(s) \/ LoadEmbedded(s) \/ Stop(s) \/ Fail(s)
             \/ DeleteSquad(s) \/ SaveBattleLog(s)
      PROVE  disk' = disk
  BY <1>2 DEF Load, LoadEmbedded, Stop, Fail, DeleteSquad, DropsSquad, SaveBattleLog, Writes
<1>3. ASSUME NEW s \in Sessions,
             \/ SaveCharacter(s) \/ SaveOrigin(s) \/ SaveSpecies(s) \/ SaveSkill(s)
             \/ SaveSquad(s)
      PROVE  disk' = disk
  BY <1>3 DEF SaveCharacter, AddsCharacter, SaveOrigin, AddsOrigin, SaveSpecies, SaveSkill,
              AddsSkill, SaveSquad, KeepsSquad, Grows, Writes
<1>4. ASSUME NEW s \in Sessions, EditSkill(s)
      PROVE  disk' = disk
  BY <1>4 DEF EditSkill, EditsSkill, Writes
<1>5. CASE UNCHANGED forgeVars
  BY <1>5 DEF forgeVars
<1> QED
  BY <1>1, <1>2, <1>3, <1>4, <1>5 DEF ForgeNext

\* No step loses anything on disk but the one squad it replaces or deletes, and an edit
\* leaves what its form does not ask for (forge/skills.go, resolveOnto).
THEOREM NothingIsLost ==
    ASSUME OneAuthor, SquadsAreNamed
    PROVE  ForgeSpec => NothingElseIsLost
<1>1. ForgeInit => LibraryInv
  BY Initial
<1>2. LibraryInv /\ [ForgeNext]_forgeVars => LibraryInv'
  BY Inductive
<1>3. ASSUME LibraryInv, [ForgeNext]_forgeVars
      PROVE  [Keeps(disk, disk')]_disk
  BY <1>3, OnlyARenameWrites
<1> QED
  BY <1>1, <1>2, <1>3, PTL DEF ForgeSpec, NothingElseIsLost, Keeps

-----------------------------------------------------------------------------
(* The editing program.                                                    *)
(*                                                                          *)
(* The way back: every screen with the two slots behind it.                *)

Trail(screen, from, over) ==
    \/ screen \in Menu \cup {"menu", "spar"} /\ from = "menu" /\ over = "menu"
    \/ screen \in {"squads", "fight"} /\ from = "squads" /\ over \in {"menu", "squads"}
    \/ screen = "play" /\ from = "fight" /\ over \in {"menu", "squads"}
    \/ screen = "blurb" /\ from = "play" /\ over = "fight"
    \/ /\ over = "menu"
       /\ \/ screen = "preview" /\ from = "browse"
          \/ screen = "chart" /\ from = "elements"
          \/ screen = "statuses" /\ from = "passives"
          \/ screen = "blurb" /\ from \in {"browse", "skills"}

Asking == {"new", "origins", "skills", "squads"}
Ways ==
    /\ ui = [running |-> ui.running, screen |-> ui.screen, raisedFrom |-> ui.raisedFrom,
             raisedOver |-> ui.raisedOver, guard |-> ui.guard, picker |-> ui.picker]
    /\ Trail(ui.screen, ui.raisedFrom, ui.raisedOver)
    /\ ui.guard # Unasked => ui.guard.asked = ui.screen /\ ui.screen \in Asking

\* The actions that leave the screens as they are.
Stays ==
    \/ FormTypes \/ FormSaves \/ OriginsAdd \/ OriginsType \/ OriginsSave
    \/ SkillsAdd \/ SkillsEdit \/ SkillsType \/ SkillsSave
    \/ SquadsBegin \/ SquadsOpen \/ SquadsType \/ AddUnit \/ TakeUnit \/ ChangeUnit \/ SquadsSave
    \/ \E written \in BOOLEAN : SaveReturns(written)

\* They do.
LEMMA Staying == Stays => ui' = ui
<1>1. FormTypes \/ FormSaves \/ OriginsAdd \/ OriginsType \/ OriginsSave => ui' = ui
  BY DEF FormTypes, FormSaves, OriginsAdd, OriginsType, OriginsSave, vars
<1>2. SkillsAdd \/ SkillsEdit \/ SkillsType \/ SkillsSave => ui' = ui
  BY DEF SkillsAdd, SkillsEdit, SkillsType, SkillsSave, vars
<1>3. SquadsBegin \/ SquadsOpen \/ SquadsType \/ AddUnit \/ TakeUnit \/ ChangeUnit \/ SquadsSave
        => ui' = ui
  BY DEF SquadsBegin, SquadsOpen, SquadsType, AddUnit, TakeUnit, ChangeUnit, SquadsSave, vars
<1>4. (\E written \in BOOLEAN : SaveReturns(written)) => ui' = ui
  BY DEF SaveReturns
<1> QED
  BY <1>1, <1>2, <1>3, <1>4 DEF Stays

\* Opening a list changes that, raising a question that.
LEMMA AskingStays ==
    ASSUME Ways, NEW guard, guard # Unasked => guard.asked = ui.screen /\ ui.screen \in Asking,
           ui' = [ui EXCEPT !.guard = guard]
    PROVE  Ways'
BY DEF Ways

\* So does opening a list.
LEMMA ListingStays ==
    ASSUME Ways, NEW picker, ui' = [ui EXCEPT !.picker = picker]
    PROVE  Ways'
BY DEF Ways

\* A step back, a screen raised, a screen named, with no question in front.
LEMMA StepsBack ==
    ASSUME Ways, ui' = GoBack, ui.guard = Unasked, ui.screen \notin {"menu", "spar"}
    PROVE  Ways'
BY DEF Ways, GoBack, Trail, Menu, Asking

\* A screen raised over the one in front.
LEMMA StepsUp ==
    ASSUME Ways, NEW to, ui' = Raised(to), ui.guard = Unasked,
           \/ ui.screen = "browse" /\ to \in {"preview", "blurb"}
           \/ ui.screen = "skills" /\ to = "blurb"
           \/ ui.screen = "play" /\ to = "blurb"
           \/ ui.screen = "passives" /\ to = "statuses"
           \/ ui.screen = "elements" /\ to = "chart"
           \/ ui.screen = "squads" /\ to = "fight"
           \/ ui.screen = "fight" /\ to = "play"
    PROVE  Ways'
BY DEF Ways, Raised, Trail, Menu, Asking

\* A screen named.
LEMMA StepsTo ==
    ASSUME Ways, NEW to, ui' = [ui EXCEPT !.screen = to], ui.guard = Unasked,
           \/ ui.screen = "menu" /\ to \in Menu
           \/ ui.screen = "new" /\ to = "menu"
           \/ ui.screen = "fight" /\ to = "squads"
           \/ ui.screen = "check" /\ to \in {"menu", "spar"}
           \/ ui.screen = "spar" /\ to = "check"
    PROVE  Ways'
BY DEF Ways, Trail, Menu, Asking

\* The way back is right at first, and no key makes it wrong.
LEMMA WaysInit == Init => Ways
BY DEF Init, Ways, Trail, Menu, Unasked

\* Every key that moves the author goes back, up or to a screen by name.
LEMMA WaysNext == Ways /\ [Next]_vars => Ways'
<1> SUFFICES ASSUME Ways, [Next]_vars PROVE Ways'
  OBVIOUS
<1>1. CASE Stays \/ UNCHANGED vars
  BY <1>1, Staying DEF Ways, vars
<1>2. CASE Enter
  BY <1>2, StepsTo DEF Enter, Quiet
<1>3. CASE Reads
  <2>1. CASE BrowseKeys
    BY <2>1, StepsBack, StepsUp DEF BrowseKeys, Keys, Quiet
  <2>2. CASE PreviewKeys \/ BlurbKeys \/ StatusesKeys \/ BonusesKeys \/ ChartKeys \/ SpeciesKeys
             \/ BuildsKeys
    BY <2>2, StepsBack DEF PreviewKeys, BlurbKeys, StatusesKeys, BonusesKeys, ChartKeys,
         SpeciesKeys, BuildsKeys, Keys, Quiet
  <2>3. CASE PassivesKeys \/ ElementsKeys \/ PlayKeys
    BY <2>3, StepsBack, StepsUp DEF PassivesKeys, ElementsKeys, PlayKeys, Keys, Quiet
  <2>4. CASE CheckKeys \/ SparKeys
    BY <2>4, StepsTo DEF CheckKeys, SparKeys, Keys, Quiet
  <2> QED
    BY <1>3, <2>1, <2>2, <2>3, <2>4 DEF Reads
<1>4. CASE FormLeaves
  <2>1. CASE form.touched
    <3> DEFINE guard == [asked |-> "new", about |-> Blank]
    <3>1. ui' = [ui EXCEPT !.guard = guard] /\ guard.asked = ui.screen /\ ui.screen \in Asking
      BY <1>4, <2>1 DEF FormLeaves, Quiet, Asking
    <3> HIDE DEF guard
    <3> QED
      BY <3>1, AskingStays
  <2>2. CASE ~form.touched
    BY <1>4, <2>2, StepsTo DEF FormLeaves, Quiet
  <2> QED
    BY <2>1, <2>2
<1>5. CASE FormPicks \/ SkillsPick \/ UnitPicks \/ Toggle \/ PickerDropped \/ PickerAnswered
  <2>1. FormPicks \/ SkillsPick \/ UnitPicks => \E picker : ui' = [ui EXCEPT !.picker = picker]
    BY DEF FormPicks, SkillsPick, UnitPicks, Picker
  <2>2. Toggle => \E picker : ui' = [ui EXCEPT !.picker = picker]
    <3> SUFFICES ASSUME Toggle PROVE \E picker : ui' = [ui EXCEPT !.picker = picker]
      OBVIOUS
    <3> DEFINE Chosen(list) == [ui.picker EXCEPT !.chosen = list]
    <3>1. \E list : ui' = [ui EXCEPT !.picker.chosen = list]
      BY DEF Toggle
    <3>2. \A list : [ui EXCEPT !.picker.chosen = list] = [ui EXCEPT !.picker = Chosen(list)]
      BY DEF Ways
    <3> QED
      BY <3>1, <3>2
  <2>3. PickerDropped \/ PickerAnswered => \E picker : ui' = [ui EXCEPT !.picker = picker]
    BY DEF PickerDropped, PickerAnswered
  <2> QED
    BY <1>5, <2>1, <2>2, <2>3, ListingStays
<1>6. CASE OriginsLeave
  BY <1>6, StepsBack, AskingStays DEF OriginsLeave, Quiet, Asking, Ways
<1>7. CASE SkillsLeave
  BY <1>7, StepsBack, AskingStays DEF SkillsLeave, Quiet, Asking, Ways
<1>8. CASE SquadsLeave
  BY <1>8, StepsBack, AskingStays DEF SquadsLeave, Quiet, Asking, Ways
<1>9. CASE SkillsRaise \/ SquadsFight
  BY <1>9, StepsUp DEF SkillsRaise, SquadsFight, Quiet
<1>10. CASE Fight
  BY <1>10, StepsUp, StepsTo DEF Fight, Quiet
<1>11. CASE AnswerNo \/ ConfirmOrigins \/ ConfirmSkills \/ ConfirmSquads
  BY <1>11, AskingStays DEF AnswerNo, ConfirmOrigins, ConfirmSkills, ConfirmSquads
<1>12. CASE ConfirmForm
  BY <1>12 DEF ConfirmForm, Unanswered, GoBack, Ways, Trail, Menu, Unasked, Asking
<1>13. CASE Quit
  BY <1>13 DEF Quit, Ways
<1> QED
  BY <1>1, <1>2, <1>3, <1>4, <1>5, <1>6, <1>7, <1>8, <1>9, <1>10, <1>11, <1>12, <1>13
     DEF Next, Stays

\* Following the way back from a screen nobody finds on the menu leads to one that raises
\* it (model.go, raise and goBack).
THEOREM WayBackHolds == Spec => []WayBack
<1>1. Ways => WayBack
  BY DEF Ways, WayBack, Trail, Menu
<1> QED
  BY <1>1, WaysInit, WaysNext, PTL DEF Spec

-----------------------------------------------------------------------------
(* What a step changes.                                                    *)

ReadOnly == Reads \/ FormLeaves \/ FormPicks \/ SkillsPick \/ SkillsRaise \/ Fight \/ AnswerNo
            \/ Toggle \/ PickerDropped
OfTheForm == FormTypes \/ ConfirmForm
OfOrigins == OriginsAdd \/ OriginsType \/ OriginsLeave \/ ConfirmOrigins
OfSkills == SkillsAdd \/ SkillsEdit \/ SkillsType \/ SkillsLeave \/ ConfirmSkills
OfSquads == SquadsBegin \/ SquadsOpen \/ SquadsType \/ AddUnit \/ TakeUnit \/ ChangeUnit \/ UnitPicks
            \/ SquadsLeave \/ SquadsFight
Saves == FormSaves \/ OriginsSave \/ SkillsSave \/ SquadsSave
Returns == \E written \in BOOLEAN : SaveReturns(written)

\* Every step is of one of these kinds.
LEMMA Kinds ==
    Next => \/ ReadOnly \/ OfTheForm \/ OfOrigins \/ OfSkills \/ OfSquads \/ Saves \/ Returns
            \/ Enter \/ ConfirmSquads \/ PickerAnswered \/ Quit
BY DEF Next, ReadOnly, OfTheForm, OfOrigins, OfSkills, OfSquads, Saves, Returns

\* What only reads leaves the files and the work in hand as they are.
LEMMA ReadOnlyKeeps == ReadOnly => UNCHANGED <<forgeVars, ownVars>>
<1>1. Reads => UNCHANGED <<forgeVars, ownVars>>
  BY DEF Reads, BrowseKeys, PreviewKeys, BlurbKeys, StatusesKeys, PassivesKeys, BonusesKeys,
         ElementsKeys, ChartKeys, SpeciesKeys, BuildsKeys, PlayKeys, CheckKeys, SparKeys, Keys
<1>2. FormLeaves \/ FormPicks \/ SkillsPick \/ SkillsRaise \/ Fight => UNCHANGED <<forgeVars, ownVars>>
  BY DEF FormLeaves, FormPicks, SkillsPick, SkillsRaise, Fight
<1>3. AnswerNo \/ Toggle \/ PickerDropped => UNCHANGED <<forgeVars, ownVars>>
  BY DEF AnswerNo, Toggle, PickerDropped
<1> QED
  BY <1>1, <1>2, <1>3 DEF ReadOnly

\* The keys of each screen leave the other screens and the files alone.
LEMMA FormKeeps == OfTheForm => UNCHANGED <<forgeVars, origins, skills, squads>>
BY DEF OfTheForm, FormTypes, ConfirmForm

\* The keys of the origins.
LEMMA OriginsKeep == OfOrigins => UNCHANGED <<forgeVars, form, skills, squads>>
BY DEF OfOrigins, OriginsAdd, OriginsType, OriginsLeave, ConfirmOrigins

\* The keys of the skills.
LEMMA SkillsKeep == OfSkills => UNCHANGED <<forgeVars, form, origins, squads>>
BY DEF OfSkills, SkillsAdd, SkillsEdit, SkillsType, SkillsLeave, ConfirmSkills

\* The keys of the squads.
LEMMA SquadsKeep == OfSquads => UNCHANGED <<forgeVars, form, origins, skills>>
<1>1. SquadsBegin \/ SquadsOpen \/ SquadsType \/ AddUnit => UNCHANGED <<forgeVars, form, origins, skills>>
  BY DEF SquadsBegin, SquadsOpen, SquadsType, AddUnit
<1>2. TakeUnit \/ ChangeUnit \/ UnitPicks => UNCHANGED <<forgeVars, form, origins, skills>>
  BY DEF TakeUnit, ChangeUnit, UnitPicks
<1>3. SquadsLeave \/ SquadsFight => UNCHANGED <<forgeVars, form, origins, skills>>
  BY DEF SquadsLeave, SquadsFight
<1> QED
  BY <1>1, <1>2, <1>3 DEF OfSquads

\* A save that begins changes nothing yet but what is being written.
LEMMA SavesKeep == Saves => UNCHANGED <<disk, ownVars, ui>>
<1>1. FormSaves => UNCHANGED <<disk, ownVars, ui>>
  BY DEF FormSaves, AddsCharacter, Grows, Writes, vars, forgeVars
<1>2. OriginsSave => UNCHANGED <<disk, ownVars, ui>>
  BY DEF OriginsSave, AddsOrigin, Grows, Writes, vars, forgeVars
<1>3. SkillsSave => UNCHANGED <<disk, ownVars, ui>>
  BY DEF SkillsSave, AddsSkill, EditsSkill, Grows, Writes, vars, forgeVars
<1>4. SquadsSave => UNCHANGED <<disk, ownVars, ui>>
  BY DEF SquadsSave, KeepsSquad, Grows, Writes, vars, forgeVars
<1> QED
  BY <1>1, <1>2, <1>3, <1>4 DEF Saves

\* Nor does the end of the program, on disk.
LEMMA QuitKeeps == Quit => UNCHANGED <<disk, ownVars>> /\ ui' = [ui EXCEPT !.running = FALSE]
BY DEF Quit, Stop

-----------------------------------------------------------------------------
(* What is in hand is in front.                                            *)

\* The shape of each screen's state.
IsForm(s) ==
    s = [touched |-> s.touched, follows |-> s.follows, origins |-> s.origins,
         archetypes |-> s.archetypes, draft |-> s.draft]
IsOrigins(s) == s = [list |-> s.list, adding |-> s.adding, touched |-> s.touched, draft |-> s.draft]
IsSkills(s) ==
    s = [list |-> s.list, adding |-> s.adding, editing |-> s.editing, touched |-> s.touched,
         drawn |-> s.drawn, draft |-> s.draft]
IsSquads(s) ==
    s = [mode |-> s.mode, saved |-> s.saved, characters |-> s.characters, editing |-> s.editing,
         baseline |-> s.baseline, editingID |-> s.editingID, unit |-> s.unit, index |-> s.index,
         openedAs |-> s.openedAs]
Shaped == IsForm(form) /\ IsOrigins(origins) /\ IsSkills(skills) /\ IsSquads(squads)

\* A skill in hand that is edited counts as touched, and is the one it was.
LEMMA TouchedSkills ==
    ASSUME IsSkills(skills), NEW d, skills' = TouchSkill(d)
    PROVE  skills'.touched /\ skills'.adding = skills.adding /\ skills'.editing = skills.editing
BY DEF TouchSkill, IsSkills

\* Where a list lands.
LEMMA Lands ==
    ASSUME NEW into, NEW chosen, Land(into, chosen)
    PROVE  /\ into = "kit" =>
                form' = [Touch([form.draft EXCEPT !.skills = chosen]) EXCEPT !.follows = FALSE]
           /\ into = "species" => form' = Touch([form.draft EXCEPT !.species = chosen])
           /\ into \notin {"kit", "species"} => form' = form
           /\ into = "keptFor" =>
                skills' = TouchSkill([skills.draft EXCEPT !.restrict.characters = ToSet(chosen)])
           /\ into = "keptOf" =>
                skills' = TouchSkill([skills.draft EXCEPT !.restrict.origins = ToSet(chosen)])
           /\ into \notin {"keptFor", "keptOf"} => skills' = skills
           /\ into = "unitKit" => squads' = Commit([squads EXCEPT !.unit.skills = chosen])
           /\ into = "unitTraits" => squads' = Commit([squads EXCEPT !.unit.passives = chosen])
           /\ into \notin {"unitKit", "unitTraits"} => squads' = squads
<1> DEFINE kit == [Touch([form.draft EXCEPT !.skills = chosen]) EXCEPT !.follows = FALSE]
           kind == Touch([form.draft EXCEPT !.species = chosen])
           for == TouchSkill([skills.draft EXCEPT !.restrict.characters = ToSet(chosen)])
           of == TouchSkill([skills.draft EXCEPT !.restrict.origins = ToSet(chosen)])
           loadout == Commit([squads EXCEPT !.unit.skills = chosen])
           traits == Commit([squads EXCEPT !.unit.passives = chosen])
<1>1. /\ form' = CASE into = "kit" -> kit [] into = "species" -> kind [] OTHER -> form
      /\ skills' = CASE into = "keptFor" -> for [] into = "keptOf" -> of [] OTHER -> skills
      /\ squads' = CASE into = "unitKit" -> loadout [] into = "unitTraits" -> traits [] OTHER -> squads
  BY DEF Land
<1> HIDE DEF kit, kind, for, of, loadout, traits
<1>2. /\ into = "kit" => form' = kit
      /\ into = "species" => form' = kind
      /\ into \notin {"kit", "species"} => form' = form
  BY <1>1
<1>3. /\ into = "keptFor" => skills' = for
      /\ into = "keptOf" => skills' = of
      /\ into \notin {"keptFor", "keptOf"} => skills' = skills
  BY <1>1
<1>4. /\ into = "unitKit" => squads' = loadout
      /\ into = "unitTraits" => squads' = traits
      /\ into \notin {"unitKit", "unitTraits"} => squads' = squads
  BY <1>1
<1> QED
  BY <1>2, <1>3, <1>4 DEF kit, kind, for, of, loadout, traits

\* What a save that returns changes.
LEMMA Returned ==
    ASSUME NEW written \in BOOLEAN, SaveReturns(written)
    PROVE  LET file == writing[Author].file IN
           /\ ui.running /\ writing[Author] # Idle /\ UNCHANGED ui
           /\ written => Rename(Author)
           /\ ~written => Fail(Author)
           /\ IF written /\ file = "characters" THEN form' = NewFormScreen(lib'[Author])
              ELSE form' = form
           /\ IF written /\ file = "origins" THEN origins' = ResetOrigins(lib'[Author])
              ELSE origins' = origins
           /\ IF written /\ file = "skills" THEN skills' = ResetSkills(lib'[Author].skills)
              ELSE skills' = skills
           /\ IF written /\ file = "squads" THEN squads' = SquadsAfter(TRUE)
              ELSE squads' = squads
<1> DEFINE file == writing[Author].file
<1>1. form' = IF file = "characters" THEN FormAfter(written) ELSE form
  BY DEF SaveReturns
<1>2. origins' = IF file = "origins" /\ written THEN ResetOrigins(lib'[Author]) ELSE origins
  BY DEF SaveReturns
<1>3. skills' = IF file = "skills" THEN SkillsAfter(written) ELSE skills
  BY DEF SaveReturns
<1>4. squads' = IF file = "squads" THEN SquadsAfter(written) ELSE squads
  BY DEF SaveReturns
<1>5. ui.running /\ writing[Author] # Idle /\ UNCHANGED ui /\ IF written THEN Rename(Author) ELSE Fail(Author)
  BY DEF SaveReturns
<1> HIDE DEF file
<1>6. IF written /\ file = "characters" THEN form' = NewFormScreen(lib'[Author]) ELSE form' = form
  BY <1>1 DEF FormAfter
<1>7. IF written /\ file = "origins" THEN origins' = ResetOrigins(lib'[Author])
      ELSE origins' = origins
  BY <1>2
<1>8. IF written /\ file = "skills" THEN skills' = ResetSkills(lib'[Author].skills)
      ELSE skills' = skills
  BY <1>3 DEF SkillsAfter
<1>9. IF written /\ file = "squads" THEN squads' = SquadsAfter(TRUE) ELSE squads' = squads
  <2>1. CASE written
    BY <1>4, <2>1
  <2>2. CASE ~written
    BY <1>4, <2>2 DEF SquadsAfter
  <2> QED
    BY <2>1, <2>2
<1> QED
  BY <1>5, <1>6, <1>7, <1>8, <1>9 DEF file

\* Every screen's state is a record of its own fields.
LEMMA ShapedInit == Init => Shaped
BY DEF Init, Shaped, IsForm, IsOrigins, IsSkills, IsSquads, NewFormScreen, ResetOrigins,
       ResetSkills, NewSquads

\* The form of a character stays one,
LEMMA FormShaped == Shaped /\ [Next]_vars => IsForm(form)'
<1> SUFFICES ASSUME Shaped, [Next]_vars PROVE IsForm(form)'
  OBVIOUS
<1>1. CASE FormTypes
  BY <1>1 DEF FormTypes, Touch, IsForm, Shaped
<1>2. CASE ConfirmForm
  BY <1>2 DEF ConfirmForm, NewFormScreen, IsForm
<1>3. CASE Returns
  <2>1. PICK written \in BOOLEAN : SaveReturns(written)
    BY <1>3 DEF Returns
  <2>2. form' = form \/ form' = NewFormScreen(lib'[Author])
    BY <2>1, Returned
  <2> QED
    BY <2>2 DEF NewFormScreen, IsForm, Shaped
<1>4. CASE PickerAnswered
  <2>1. Land(ui.picker.into, ui.picker.chosen)
    BY <1>4 DEF PickerAnswered
  <2> QED
    BY <2>1, Lands DEF Touch, IsForm, Shaped
<1>5. CASE UNCHANGED form
  BY <1>5 DEF Shaped
<1>6. CASE ReadOnly \/ OfOrigins \/ OfSkills \/ OfSquads \/ Saves \/ Enter \/ ConfirmSquads \/ Quit
  BY <1>5, <1>6, ReadOnlyKeeps, OriginsKeep, SkillsKeep, SquadsKeep, SavesKeep, QuitKeeps
     DEF Enter, ConfirmSquads, ownVars
<1> QED
  BY <1>1, <1>2, <1>3, <1>4, <1>5, <1>6, Kinds DEF OfTheForm, vars, ownVars

\* the origins stay one,
LEMMA OriginsShaped == Shaped /\ [Next]_vars => IsOrigins(origins)'
<1> SUFFICES ASSUME Shaped, [Next]_vars PROVE IsOrigins(origins)'
  OBVIOUS
<1>1. CASE UNCHANGED origins
  BY <1>1 DEF Shaped
<1>2. CASE OfOrigins
  BY <1>1, <1>2 DEF OfOrigins, OriginsAdd, OriginsType, OriginsLeave, ConfirmOrigins, IsOrigins, Shaped
<1>3. CASE Enter
  BY <1>3 DEF Enter, IsOrigins, Shaped
<1>4. CASE Returns
  <2>1. PICK written \in BOOLEAN : SaveReturns(written)
    BY <1>4 DEF Returns
  <2>2. origins' = origins \/ origins' = ResetOrigins(lib'[Author])
    BY <2>1, Returned
  <2> QED
    BY <2>2 DEF ResetOrigins, IsOrigins, Shaped
<1>5. CASE ReadOnly \/ OfTheForm \/ OfSkills \/ OfSquads \/ Saves \/ ConfirmSquads \/ PickerAnswered
          \/ Quit
  BY <1>1, <1>5, ReadOnlyKeeps, FormKeeps, SkillsKeep, SquadsKeep, SavesKeep, QuitKeeps
     DEF ConfirmSquads, PickerAnswered, ownVars
<1> QED
  BY <1>1, <1>2, <1>3, <1>4, <1>5, Kinds DEF vars, ownVars

\* the skills,
LEMMA SkillsShaped == Shaped /\ [Next]_vars => IsSkills(skills)'
<1> SUFFICES ASSUME Shaped, [Next]_vars PROVE IsSkills(skills)'
  OBVIOUS
<1>1. CASE UNCHANGED skills
  BY <1>1 DEF Shaped
<1>2. CASE OfSkills
  <2>1. CASE SkillsAdd \/ SkillsEdit \/ SkillsLeave \/ ConfirmSkills
    BY <1>1, <2>1 DEF SkillsAdd, SkillsEdit, SkillsLeave, ConfirmSkills, ResetSkills, IsSkills
  <2>2. CASE SkillsType
    BY <2>2 DEF SkillsType, TouchSkill, IsSkills, Shaped
  <2> QED
    BY <1>2, <2>1, <2>2 DEF OfSkills
<1>3. CASE Enter
  BY <1>3 DEF Enter, IsSkills, Shaped
<1>4. CASE Returns
  <2>1. PICK written \in BOOLEAN : SaveReturns(written)
    BY <1>4 DEF Returns
  <2>2. skills' = skills \/ skills' = ResetSkills(lib'[Author].skills)
    BY <2>1, Returned
  <2> QED
    BY <2>2 DEF ResetSkills, IsSkills, Shaped
<1>5. CASE PickerAnswered
  <2>1. Land(ui.picker.into, ui.picker.chosen)
    BY <1>5 DEF PickerAnswered
  <2> QED
    BY <2>1, Lands DEF TouchSkill, IsSkills, Shaped
<1>6. CASE ReadOnly \/ OfTheForm \/ OfOrigins \/ OfSquads \/ Saves \/ ConfirmSquads \/ Quit
  BY <1>1, <1>6, ReadOnlyKeeps, FormKeeps, OriginsKeep, SquadsKeep, SavesKeep, QuitKeeps
     DEF ConfirmSquads, ownVars
<1> QED
  BY <1>1, <1>2, <1>3, <1>4, <1>5, <1>6, Kinds DEF vars, ownVars

\* and the squads.
LEMMA SquadsShaped == Shaped /\ [Next]_vars => IsSquads(squads)'
<1> SUFFICES ASSUME Shaped, [Next]_vars PROVE IsSquads(squads)'
  OBVIOUS
<1>1. CASE UNCHANGED squads
  BY <1>1 DEF Shaped
<1>2. CASE OfSquads
  <2>1. CASE SquadsBegin \/ SquadsOpen \/ SquadsType
    BY <2>1 DEF SquadsBegin, SquadsOpen, SquadsType, IsSquads, Shaped
  <2>2. CASE AddUnit \/ TakeUnit
    BY <2>2 DEF AddUnit, TakeUnit, EditUnit, IsSquads, Shaped
  <2>3. CASE ChangeUnit
    BY <2>3 DEF ChangeUnit, IsSquads, Shaped
  <2>4. CASE UnitPicks
    BY <2>4 DEF UnitPicks, Commit, IsSquads, Shaped
  <2>5. CASE SquadsLeave \/ SquadsFight
    BY <1>1, <2>5 DEF SquadsLeave, SquadsFight, Commit, Refresh, ToList, IsSquads, Shaped
  <2> QED
    BY <1>2, <2>1, <2>2, <2>3, <2>4, <2>5 DEF OfSquads
<1>3. CASE Enter
  BY <1>1, <1>3 DEF Enter, Refresh, IsSquads, Shaped
<1>4. CASE Returns
  BY <1>1, <1>4, Returned DEF Returns, SquadsAfter, Refresh, IsSquads, Shaped
<1>5. CASE PickerAnswered
  <2>1. Land(ui.picker.into, ui.picker.chosen)
    BY <1>5 DEF PickerAnswered
  <2> QED
    BY <2>1, Lands DEF Commit, IsSquads, Shaped
<1>6. CASE ConfirmSquads
  BY <1>1, <1>6 DEF ConfirmSquads, Refresh, ToList, IsSquads, Shaped, ownVars
<1>7. CASE ReadOnly \/ OfTheForm \/ OfOrigins \/ OfSkills \/ Saves \/ Quit
  BY <1>1, <1>7, ReadOnlyKeeps, FormKeeps, OriginsKeep, SkillsKeep, SavesKeep, QuitKeeps DEF ownVars
<1> QED
  BY <1>1, <1>2, <1>3, <1>4, <1>5, <1>6, <1>7, Kinds DEF vars, ownVars

\* So every step keeps the four.
LEMMA ShapedNext == Shaped /\ [Next]_vars => Shaped'
BY FormShaped, OriginsShaped, SkillsShaped, SquadsShaped DEF Shaped

-----------------------------------------------------------------------------
(* What is in hand is in front.                                            *)

Start == StartOf(form.origins, form.archetypes)
Filled == IF skills.editing = Blank THEN NoAnswers
          ELSE SkillAnswers(skills.editing, skills.list[skills.editing])

FormHeld ==
    /\ form.touched => ui.screen = "new"
    /\ ~form.touched => form.draft = Start
OriginsHeld ==
    /\ origins.touched => origins.adding
    /\ origins.adding => ui.screen = "origins"
    /\ origins.adding /\ ~origins.touched => origins.draft = NoOrigin
SkillsHeld ==
    /\ skills.touched => FormInFront
    /\ FormInFront => ui.screen = "skills"
    /\ FormInFront /\ ~skills.touched => skills.draft = Filled
SquadsHeld == squads.mode # "list" => ui.screen = "squads"
IsPicker(s) == s = [into |-> s.into, options |-> s.options, chosen |-> s.chosen, slots |-> s.slots]
Lists ==
    /\ ui.guard # Unasked => ui.picker = NoPicker
    /\ writing[Author] # Idle => ui.guard = Unasked /\ ui.picker = NoPicker
    /\ ui.picker # NoPicker =>
         /\ IsPicker(ui.picker)
         /\ ui.picker.into \in DOMAIN PickedOn /\ ui.screen = PickedOn[ui.picker.into]
         /\ ui.picker.into \in {"keptFor", "keptOf"} => FormInFront
         /\ ui.picker.into \in {"unitKit", "unitTraits"} => squads.mode = "unit"
InFront == FormHeld /\ OriginsHeld /\ SkillsHeld /\ SquadsHeld /\ Lists

\* Nothing is in hand at first.
LEMMA HeldInit == Init => InFront
BY DEF Init, InFront, FormHeld, Start, OriginsHeld, SkillsHeld, FormInFront, SquadsHeld, Lists,
       NewFormScreen, ResetOrigins, ResetSkills, NewSquads

\* A screen is left with nothing in hand, or by a yes.
LEMMA Leaving ==
    ASSUME Ways, [Next]_vars, ui'.screen # ui.screen
    PROVE  /\ \/ Quiet(ui.screen) /\ (ui.screen = "new" => ~form.touched)
              \/ ConfirmForm
           /\ ui.screen = "origins" => ~origins.adding /\ ~origins'.adding
           /\ ui.screen = "skills" => ~FormInFront /\ ~FormInFront'
           /\ ui.screen = "squads" => squads.mode = "list" /\ squads'.mode = "list"
<1>1. CASE Stays \/ UNCHANGED vars
  BY <1>1, Staying DEF vars
<1>2. CASE Enter
  BY <1>2 DEF Enter, Quiet
<1>3. CASE Reads
  <2>1. Quiet(ui.screen) /\ ui.screen \notin {"new", "origins", "skills", "squads"}
    BY <1>3 DEF Reads, BrowseKeys, PreviewKeys, BlurbKeys, StatusesKeys, PassivesKeys, BonusesKeys,
       ElementsKeys, ChartKeys, SpeciesKeys, BuildsKeys, PlayKeys, CheckKeys, SparKeys, Keys, Quiet
  <2> QED
    BY <2>1
<1>4. CASE FormLeaves
  BY <1>4 DEF FormLeaves, Quiet, Ways
<1>5. CASE FormPicks \/ SkillsPick \/ UnitPicks \/ Toggle \/ PickerDropped \/ PickerAnswered
  BY <1>5 DEF FormPicks, SkillsPick, UnitPicks, Picker, Toggle, PickerDropped, PickerAnswered, Ways
<1>6. CASE OriginsLeave
  BY <1>6 DEF OriginsLeave, Quiet, Ways
<1>7. CASE SkillsLeave \/ SkillsRaise
  BY <1>7 DEF SkillsLeave, SkillsRaise, Quiet, Ways, FormInFront, ownVars
<1>8. CASE SquadsLeave
  BY <1>8 DEF SquadsLeave, Quiet, Ways
<1>9. CASE SquadsFight
  BY <1>9 DEF SquadsFight, Quiet, Ways, Refresh
<1>10. CASE Fight
  BY <1>10 DEF Fight, Quiet
<1>11. CASE AnswerNo \/ ConfirmOrigins \/ ConfirmSkills \/ ConfirmSquads
  BY <1>11 DEF AnswerNo, ConfirmOrigins, ConfirmSkills, ConfirmSquads, Ways
<1>12. CASE ConfirmForm
  BY <1>12 DEF ConfirmForm, Unanswered, Ways
<1>13. CASE Quit
  BY <1>13 DEF Quit, Ways
<1> QED
  BY <1>1, <1>2, <1>3, <1>4, <1>5, <1>6, <1>7, <1>8, <1>9, <1>10, <1>11, <1>12, <1>13
     DEF Next, Stays

\* The list in front is about the screen in front.
LEMMA FieldOf ==
    ASSUME Lists, Listed
    PROVE  /\ ui.picker.into \in {"kit", "species"} => ui.screen = "new"
           /\ ui.picker.into \in {"keptFor", "keptOf"} => ui.screen = "skills" /\ FormInFront
           /\ ui.picker.into \in {"unitKit", "unitTraits"} =>
                ui.screen = "squads" /\ squads.mode = "unit"
BY DEF Lists, Listed, PickedOn

\* The form of a character is touched only in front, and not touched holds what it began with.
LEMMA FormHeldNext == Ways /\ Shaped /\ InFront /\ [Next]_vars => FormHeld'
<1> SUFFICES ASSUME Ways, Shaped, InFront, [Next]_vars PROVE FormHeld'
  OBVIOUS
<1>1. CASE UNCHANGED form /\ ~ConfirmForm
  <2>1. Start' = Start
    BY <1>1 DEF Start
  <2>2. ui'.screen = ui.screen \/ ~form.touched
    BY <1>1, Leaving DEF InFront, FormHeld, Quiet
  <2> QED
    BY <1>1, <2>1, <2>2 DEF InFront, FormHeld
<1>2. CASE FormTypes
  <2>1. form'.touched
    BY <1>2 DEF FormTypes, Touch, Shaped, IsForm
  <2>2. ui'.screen = "new"
    BY <1>2 DEF FormTypes, Quiet
  <2> QED
    BY <2>1, <2>2 DEF FormHeld
<1>3. \A books : form' = NewFormScreen(books) => FormHeld'
  BY DEF FormHeld, NewFormScreen, Start
<1>4. CASE ConfirmForm
  BY <1>3, <1>4 DEF ConfirmForm
<1>5. CASE Returns
  <2>1. PICK written \in BOOLEAN : SaveReturns(written)
    BY <1>5 DEF Returns
  <2>2. form' = form \/ form' = NewFormScreen(lib'[Author])
    BY <2>1, Returned
  <2>3. UNCHANGED ui
    BY <2>1, Returned
  <2> QED
    BY <1>3, <2>2, <2>3 DEF InFront, FormHeld, Start
<1>6. CASE PickerAnswered
  <2>1. Listed /\ Land(ui.picker.into, ui.picker.chosen) /\ ui' = [ui EXCEPT !.picker = NoPicker]
    BY <1>6 DEF PickerAnswered
  <2>2. ui'.screen = ui.screen
    BY <2>1 DEF Ways
  <2>3. CASE ui.picker.into \in {"kit", "species"}
    <3>1. form'.touched
      BY <2>1, <2>3, Lands DEF Touch, Shaped, IsForm
    <3>2. ui.screen = "new"
      BY <2>1, <2>3, FieldOf DEF InFront
    <3> QED
      BY <2>2, <3>1, <3>2 DEF FormHeld
  <2>4. CASE ui.picker.into \notin {"kit", "species"}
    <3>1. form' = form
      BY <2>1, <2>4, Lands
    <3> QED
      BY <2>2, <3>1 DEF InFront, FormHeld, Start
  <2> QED
    BY <2>3, <2>4
<1>7. CASE ReadOnly \/ OfOrigins \/ OfSkills \/ OfSquads \/ Saves \/ Enter \/ ConfirmSquads \/ Quit
  <2>1. UNCHANGED form
    BY <1>7, ReadOnlyKeeps, OriginsKeep, SkillsKeep, SquadsKeep, SavesKeep, QuitKeeps
       DEF Enter, ConfirmSquads, ownVars
  <2> QED
    BY <1>1, <1>4, <2>1
<1> QED
  BY <1>1, <1>2, <1>4, <1>5, <1>6, <1>7, Kinds DEF OfTheForm, vars, ownVars

\* The form of an origin likewise.
LEMMA OriginsHeldNext == Ways /\ Shaped /\ InFront /\ [Next]_vars => OriginsHeld'
<1> SUFFICES ASSUME Ways, Shaped, InFront, [Next]_vars PROVE OriginsHeld'
  OBVIOUS
<1>1. CASE UNCHANGED origins
  <2>1. ui'.screen = ui.screen \/ ~origins.adding
    BY Leaving DEF InFront, OriginsHeld
  <2> QED
    BY <1>1, <2>1 DEF InFront, OriginsHeld
<1>2. CASE OriginsAdd \/ OriginsType
  BY <1>2 DEF OriginsAdd, OriginsType, Quiet, OriginsHeld, Shaped, IsOrigins
<1>3. CASE OriginsLeave
  BY <1>1, <1>3 DEF OriginsLeave, Quiet, OriginsHeld, Shaped, IsOrigins, InFront
<1>4. CASE ConfirmOrigins
  BY <1>4 DEF ConfirmOrigins, OriginsHeld, Shaped, IsOrigins
<1>5. CASE Enter
  <2>1. ~origins.adding /\ ~origins.touched
    BY <1>5 DEF Enter, Quiet, InFront, OriginsHeld
  <2>2. ~origins'.adding /\ ~origins'.touched
    BY <1>5, <2>1 DEF Enter, Shaped, IsOrigins
  <2> QED
    BY <2>2 DEF OriginsHeld
<1>6. CASE Returns
  <2>1. PICK written \in BOOLEAN : SaveReturns(written)
    BY <1>6 DEF Returns
  <2>2. origins' = origins \/ origins' = ResetOrigins(lib'[Author])
    BY <2>1, Returned
  <2> QED
    BY <1>1, <2>2 DEF OriginsHeld, ResetOrigins
<1>7. CASE ReadOnly \/ OfTheForm \/ OfSkills \/ OfSquads \/ Saves \/ ConfirmSquads \/ PickerAnswered
          \/ Quit
  <2>1. UNCHANGED origins
    BY <1>7, ReadOnlyKeeps, FormKeeps, SkillsKeep, SquadsKeep, SavesKeep, QuitKeeps
       DEF ConfirmSquads, PickerAnswered, ownVars
  <2> QED
    BY <1>1, <2>1
<1> QED
  BY <1>1, <1>2, <1>3, <1>4, <1>5, <1>6, <1>7, Kinds DEF OfOrigins, vars, ownVars

\* The form of a skill likewise, with the skill it was filled with when it edits one.
LEMMA SkillsHeldNext == Ways /\ Shaped /\ InFront /\ [Next]_vars => SkillsHeld'
<1> SUFFICES ASSUME Ways, Shaped, InFront, [Next]_vars PROVE SkillsHeld'
  OBVIOUS
<1>1. CASE UNCHANGED skills
  <2>1. ui'.screen = ui.screen \/ ~FormInFront
    BY Leaving DEF InFront, SkillsHeld
  <2>2. FormInFront' = FormInFront /\ Filled' = Filled
    BY <1>1 DEF FormInFront, Filled
  <2> QED
    BY <1>1, <2>1, <2>2 DEF InFront, SkillsHeld
<1>2. \A list : skills' = ResetSkills(list) => SkillsHeld'
  BY DEF SkillsHeld, ResetSkills, FormInFront
<1>3. CASE SkillsAdd
  <2>1. ~skills'.touched /\ skills'.draft = Filled'
    BY <1>3 DEF SkillsAdd, ResetSkills, Filled
  <2>2. skills'.adding /\ ui'.screen = "skills"
    BY <1>3 DEF SkillsAdd, ResetSkills, Quiet
  <2> QED
    BY <2>1, <2>2 DEF SkillsHeld, FormInFront
<1>4. CASE SkillsEdit
  <2>1. PICK id \in DOMAIN skills.list :
          skills' = [ResetSkills(skills.list) EXCEPT !.editing = id,
                                                     !.draft = SkillAnswers(id, skills.list[id])]
    BY <1>4 DEF SkillsEdit
  <2>2. /\ skills'.editing = id /\ skills'.list = skills.list /\ ~skills'.touched
        /\ skills'.adding = FALSE
        /\ skills'.draft = SkillAnswers(id, skills.list[id])
    BY <2>1 DEF ResetSkills
  <2>3. ui'.screen = "skills"
    BY <1>4 DEF SkillsEdit, Quiet
  <2>4. FormInFront' => skills'.draft = Filled'
    BY <2>2 DEF Filled, FormInFront
  <2> QED
    BY <2>2, <2>3, <2>4 DEF SkillsHeld
<1>5. CASE SkillsType
  <2>1. /\ skills'.editing = skills.editing /\ skills'.adding = skills.adding
        /\ skills'.touched \/ (skills'.touched = skills.touched /\ skills'.draft = skills.draft
                                /\ skills'.list = skills.list)
    BY <1>5 DEF SkillsType, TouchSkill, Shaped, IsSkills
  <2>2. FormInFront /\ ui'.screen = "skills"
    BY <1>5 DEF SkillsType, Quiet
  <2> QED
    BY <2>1, <2>2 DEF InFront, SkillsHeld, FormInFront, Filled
<1>6. CASE SkillsLeave
  BY <1>1, <1>2, <1>6 DEF SkillsLeave
<1>7. CASE ConfirmSkills
  BY <1>2, <1>7 DEF ConfirmSkills
<1>8. CASE Enter
  <2>1. ~FormInFront /\ ~skills.touched
    BY <1>8 DEF Enter, Quiet, InFront, SkillsHeld
  <2>2. skills'.adding = skills.adding /\ skills'.editing = skills.editing
        /\ skills'.touched = skills.touched
    BY <1>8 DEF Enter, Shaped, IsSkills
  <2> QED
    BY <2>1, <2>2 DEF SkillsHeld, FormInFront
<1>9. CASE Returns
  <2>1. PICK written \in BOOLEAN : SaveReturns(written)
    BY <1>9 DEF Returns
  <2>2. skills' = skills \/ skills' = ResetSkills(lib'[Author].skills)
    BY <2>1, Returned
  <2> QED
    BY <1>1, <1>2, <2>2
<1>10. CASE PickerAnswered
  <2>1. Listed /\ Land(ui.picker.into, ui.picker.chosen) /\ ui' = [ui EXCEPT !.picker = NoPicker]
    BY <1>10 DEF PickerAnswered
  <2>2. ui'.screen = ui.screen
    BY <2>1 DEF Ways
  <2>3. CASE ui.picker.into \in {"keptFor", "keptOf"}
    <3>1. PICK into, chosen : into = ui.picker.into /\ chosen = ui.picker.chosen
      OBVIOUS
    <3>2. Land(into, chosen)
      BY <2>1, <3>1
    <3>3. PICK one, other : /\ one = [skills.draft EXCEPT !.restrict.characters = ToSet(chosen)]
                            /\ other = [skills.draft EXCEPT !.restrict.origins = ToSet(chosen)]
      OBVIOUS
    <3>4. /\ into = "keptFor" => skills' = TouchSkill(one)
          /\ into = "keptOf" => skills' = TouchSkill(other)
      BY <3>2, <3>3, Lands
    <3>5. skills' = TouchSkill(one) \/ skills' = TouchSkill(other)
      BY <2>3, <3>1, <3>4
    <3>6. skills'.touched /\ skills'.adding = skills.adding /\ skills'.editing = skills.editing
      BY <3>5, TouchedSkills DEF Shaped
    <3>7. ui.screen = "skills" /\ FormInFront
      BY <2>1, <2>3, FieldOf DEF InFront
    <3> QED
      BY <2>2, <3>6, <3>7 DEF SkillsHeld, FormInFront
  <2>4. CASE ui.picker.into \notin {"keptFor", "keptOf"}
    <3>1. skills' = skills
      BY <2>1, <2>4, Lands
    <3> QED
      BY <1>1, <3>1
  <2> QED
    BY <2>3, <2>4
<1>11. CASE ReadOnly \/ OfTheForm \/ OfOrigins \/ OfSquads \/ Saves \/ ConfirmSquads \/ Quit
  <2>1. UNCHANGED skills
    BY <1>11, ReadOnlyKeeps, FormKeeps, OriginsKeep, SquadsKeep, SavesKeep, QuitKeeps
       DEF ConfirmSquads, ownVars
  <2> QED
    BY <1>1, <2>1
<1> QED
  BY <1>1, <1>3, <1>4, <1>5, <1>6, <1>7, <1>8, <1>9, <1>10, <1>11, Kinds DEF OfSkills, vars, ownVars

\* A squad or a member is in hand only in front.
LEMMA SquadsHeldNext == Ways /\ Shaped /\ InFront /\ [Next]_vars => SquadsHeld'
<1> SUFFICES ASSUME Ways, Shaped, InFront, [Next]_vars PROVE SquadsHeld'
  OBVIOUS
<1>1. SquadsHeld
  BY DEF InFront
<1>2. squads'.mode = squads.mode \/ squads'.mode = "list" \/ ui.screen = "squads"
  <2>1. CASE UNCHANGED squads
    BY <2>1
  <2>2. CASE OfSquads
    BY <2>2 DEF OfSquads, SquadsBegin, SquadsOpen, SquadsType, AddUnit, TakeUnit, ChangeUnit, UnitPicks,
       SquadsLeave, SquadsFight, Quiet
  <2>3. CASE Enter
    BY <2>3 DEF Enter, Refresh, Shaped, IsSquads
  <2>4. CASE Returns
    <3>1. PICK written \in BOOLEAN : SaveReturns(written)
      BY <2>4 DEF Returns
    <3>2. squads' = squads \/ squads' = SquadsAfter(TRUE)
      BY <3>1, Returned
    <3> QED
      BY <3>2 DEF SquadsAfter, Refresh, Shaped, IsSquads
  <2>5. CASE ConfirmSquads
    BY <2>5 DEF ConfirmSquads, Refresh, ToList, Shaped, IsSquads, ownVars
  <2>6. CASE PickerAnswered
    <3>1. Listed /\ Land(ui.picker.into, ui.picker.chosen)
      BY <2>6 DEF PickerAnswered
    <3>2. ui.picker.into \in {"unitKit", "unitTraits"} \/ squads' = squads
      BY <3>1, Lands
    <3> QED
      BY <3>1, <3>2, FieldOf DEF InFront
  <2>7. CASE ReadOnly \/ OfTheForm \/ OfOrigins \/ OfSkills \/ Saves \/ Quit
    BY <2>7, ReadOnlyKeeps, FormKeeps, OriginsKeep, SkillsKeep, SavesKeep, QuitKeeps DEF ownVars
  <2> QED
    BY <2>1, <2>2, <2>3, <2>4, <2>5, <2>6, <2>7, Kinds DEF vars, ownVars
<1>3. CASE ui'.screen = ui.screen
  BY <1>1, <1>2, <1>3 DEF SquadsHeld
<1>4. CASE ui'.screen # ui.screen
  <2>1. ui.screen = "squads" => squads.mode = "list" /\ squads'.mode = "list"
    BY <1>4, Leaving
  <2> QED
    BY <1>1, <1>2, <2>1 DEF SquadsHeld
<1> QED
  BY <1>3, <1>4

\* No list in front, and nothing being written.
LEMMA Calm ==
    ASSUME writing'[Author] = Idle, ui'.picker = NoPicker
    PROVE  Lists'
BY DEF Lists

\* A question, a list and a save under way keep each other out.
LEMMA ListsNext == Ways /\ Shaped /\ InFront /\ [Next]_vars => Lists'
<1> SUFFICES ASSUME Ways, Shaped, InFront, [Next]_vars PROVE Lists'
  OBVIOUS
<1>1. CASE UNCHANGED vars
  BY <1>1 DEF vars, ownVars, forgeVars, InFront, Lists, FormInFront
<1>2. CASE Saves
  <2>1. ui.guard = Unasked /\ ui.picker = NoPicker
    BY <1>2 DEF Saves, FormSaves, OriginsSave, SkillsSave, SquadsSave, Quiet
  <2> QED
    BY <1>2, <2>1, SavesKeep DEF Lists
<1>3. CASE Returns
  <2>1. ui.guard = Unasked /\ ui.picker = NoPicker /\ UNCHANGED ui
    BY <1>3, Returned DEF Returns, InFront, Lists
  <2> QED
    BY <2>1 DEF Lists
<1>4. CASE Quit
  <2>1. /\ ui'.screen = ui.screen /\ ui'.guard = ui.guard /\ ui'.picker = ui.picker
        /\ UNCHANGED <<skills, squads>>
    BY <1>4, QuitKeeps DEF Ways, ownVars
  <2>2. writing'[Author] = Idle \/ writing'[Author] = writing[Author]
    BY <1>4 DEF Quit, Stop
  <2> QED
    BY <2>1, <2>2 DEF InFront, Lists, FormInFront
<1>5. CASE FormPicks \/ SkillsPick \/ UnitPicks
  <2>1. /\ writing'[Author] = Idle /\ ui'.guard = Unasked /\ ui'.screen = ui.screen
    BY <1>5 DEF FormPicks, SkillsPick, UnitPicks, Quiet, Picker, Ways, forgeVars
  <2>2. IsPicker(ui'.picker)
    BY <1>5 DEF FormPicks, SkillsPick, UnitPicks, Picker, IsPicker, Ways
  <2>3. FormPicks => ui'.picker.into \in {"kit", "species"} /\ ui.screen = "new"
    BY DEF FormPicks, Picker, Quiet, Ways
  <2>4. SkillsPick => ui'.picker.into \in {"keptFor", "keptOf"} /\ ui.screen = "skills" /\ FormInFront'
    BY DEF SkillsPick, Picker, Quiet, Ways, FormInFront, ownVars
  <2>5. UnitPicks => /\ ui'.picker.into \in {"unitKit", "unitTraits"} /\ ui.screen = "squads"
                     /\ squads'.mode = "unit"
    BY DEF UnitPicks, Picker, Quiet, Ways, Commit, Shaped, IsSquads
  <2>6. PickedOn = [kit |-> "new", species |-> "new", keptFor |-> "skills", keptOf |-> "skills",
                    unitKit |-> "squads", unitTraits |-> "squads"]
    BY DEF PickedOn
  <2>7. ui'.picker.into \in DOMAIN PickedOn /\ ui'.screen = PickedOn[ui'.picker.into]
    BY <1>5, <2>1, <2>3, <2>4, <2>5, <2>6
  <2> QED
    BY <1>5, <2>1, <2>2, <2>3, <2>4, <2>5, <2>7 DEF Lists
<1>6. CASE Toggle
  <2>1. PICK list : ui' = [ui EXCEPT !.picker.chosen = list]
    BY <1>6 DEF Toggle
  <2>2. Listed /\ UNCHANGED <<skills, squads, writing>>
    BY <1>6 DEF Toggle, forgeVars, ownVars
  <2>3. /\ ui'.screen = ui.screen /\ ui'.guard = ui.guard
        /\ ui'.picker = [ui.picker EXCEPT !.chosen = list]
    BY <2>1 DEF Ways
  <2>4. IsPicker(ui.picker)
    BY <2>2 DEF Listed, InFront, Lists
  <2>5. IsPicker(ui'.picker) /\ ui'.picker.into = ui.picker.into
    BY <2>3, <2>4 DEF IsPicker
  <2> QED
    BY <2>2, <2>3, <2>5 DEF Listed, InFront, Lists, FormInFront
<1>7. CASE PickerDropped \/ PickerAnswered
  BY <1>7, Calm DEF PickerDropped, PickerAnswered, Listed, Ways, forgeVars
<1>8. CASE AnswerNo \/ ConfirmForm \/ ConfirmOrigins \/ ConfirmSkills
  BY <1>8, Calm DEF AnswerNo, ConfirmForm, ConfirmOrigins, ConfirmSkills, Unanswered, Ways, forgeVars,
     InFront, Lists, GoBack
<1>9. CASE ConfirmSquads
  <2>1. ui'.guard = Unasked /\ ui'.picker = NoPicker
    BY <1>9 DEF ConfirmSquads, Unanswered, Ways, InFront, Lists
  <2> QED
    BY <2>1 DEF Lists
<1>10. CASE Reads
  <2>1. writing'[Author] = Idle
    BY <1>10 DEF Reads, BrowseKeys, PreviewKeys, BlurbKeys, StatusesKeys, PassivesKeys, BonusesKeys,
       ElementsKeys, ChartKeys, SpeciesKeys, BuildsKeys, PlayKeys, CheckKeys, SparKeys, Keys, Quiet,
       forgeVars
  <2>2. ui'.picker = ui.picker /\ ui.picker = NoPicker
    BY <1>10 DEF Reads, BrowseKeys, PreviewKeys, BlurbKeys, StatusesKeys, PassivesKeys, BonusesKeys,
       ElementsKeys, ChartKeys, SpeciesKeys, BuildsKeys, PlayKeys, CheckKeys, SparKeys, Keys, Quiet,
       GoBack, Raised, Ways
  <2> QED
    BY <2>1, <2>2, Calm
<1>11. CASE FormTypes \/ FormLeaves \/ Enter \/ Fight
  BY <1>11, Calm DEF FormTypes, FormLeaves, Enter, Fight, Quiet, Raised, Ways, forgeVars
<1>12. CASE OriginsAdd \/ OriginsType \/ OriginsLeave
  BY <1>12, Calm DEF OriginsAdd, OriginsType, OriginsLeave, Quiet, GoBack, Ways, forgeVars
<1>13. CASE SkillsAdd \/ SkillsEdit \/ SkillsType \/ SkillsLeave \/ SkillsRaise
  BY <1>13, Calm DEF SkillsAdd, SkillsEdit, SkillsType, SkillsLeave, SkillsRaise, Quiet, GoBack, Raised,
     Ways, forgeVars
<1>14. CASE SquadsBegin \/ SquadsOpen \/ SquadsType \/ AddUnit \/ TakeUnit \/ ChangeUnit
  BY <1>14, Calm DEF SquadsBegin, SquadsOpen, SquadsType, AddUnit, TakeUnit, ChangeUnit, Quiet, forgeVars
<1>15. CASE SquadsLeave \/ SquadsFight
  BY <1>15, Calm DEF SquadsLeave, SquadsFight, Quiet, GoBack, Raised, Ways, forgeVars
<1> QED
  BY <1>1, <1>2, <1>3, <1>4, <1>5, <1>6, <1>7, <1>8, <1>9, <1>10, <1>11, <1>12, <1>13, <1>14, <1>15
     DEF Next, Saves, Returns

\* So what is in hand stays in front.
LEMMA HeldNext == Ways /\ Shaped /\ InFront /\ [Next]_vars => InFront'
BY FormHeldNext, OriginsHeldNext, SkillsHeldNext, SquadsHeldNext, ListsNext DEF InFront

-----------------------------------------------------------------------------
(* The files: what the program has in memory is what is on disk, and a     *)
(* save under way will leave it so.                                        *)

IsLibrary(known) ==
    /\ known = [field \in Books \cup {"home", "open", "passives"} |-> known[field]]
    /\ known.open /\ known.home
Shelved ==
    /\ disk = [file \in Files |-> disk[file]]
    /\ lib = [s \in Sessions |-> lib[s]] /\ writing = [s \in Sessions |-> writing[s]]
    /\ ui.running => IsLibrary(lib[Author]) /\ \A book \in Books : lib[Author][book] = disk[book]

\* What a write leaves in memory.
LeavesInMemory(w) ==
    /\ w.file \in Books /\ IsLibrary(w.after)
    /\ \A book \in Books : w.after[book] = IF book = w.file THEN w.data ELSE disk[book]

\* A write begun.
LEMMA Begins ==
    ASSUME Shelved, NEW file \in Books, NEW data, NEW after,
           Writes(Author, file, data, after)
    PROVE  /\ UNCHANGED <<disk, lib>>
           /\ writing' = [s \in Sessions |-> writing'[s]]
           /\ writing'[Author].file = file /\ writing'[Author].data = data
           /\ writing'[Author].after = after
<1>1. Author \in Sessions
  BY EditorAssumption
<1> QED
  BY <1>1 DEF Writes, Shelved

\* A book that grows by an entry.
LEMMA GrowsInMemory ==
    ASSUME Shelved, ui.running, NEW file \in Books, NEW id, NEW entry, Grows(Author, file, id, entry)
    PROVE  /\ UNCHANGED <<disk, lib>> /\ writing' = [s \in Sessions |-> writing'[s]]
           /\ writing'[Author].file = file /\ writing'[Author].data = With(disk[file], id, entry)
           /\ LeavesInMemory(writing'[Author])
<1> DEFINE grown == With(lib[Author][file], id, entry)
           after == [lib[Author] EXCEPT ![file] = grown]
<1>1. Writes(Author, file, grown, after)
  BY DEF Grows
<1>2. grown = With(disk[file], id, entry)
  BY DEF Shelved
<1> HIDE DEF grown
<1>3. file \notin {"home", "open"}
  BY DEF Books
<1>4. IsLibrary(after) /\ \A book \in Books : after[book] = IF book = file THEN grown ELSE disk[book]
  BY <1>3 DEF Shelved, IsLibrary
<1> HIDE DEF after
<1> QED
  BY <1>1, <1>2, <1>4, Begins DEF LeavesInMemory

\* A squad dropped.
LEMMA DropsInMemory ==
    ASSUME Shelved, ui.running, NEW id, DropsSquad(Author, id)
    PROVE  /\ UNCHANGED <<disk, lib>> /\ writing' = [s \in Sessions |-> writing'[s]]
           /\ writing'[Author].file = "squads" /\ writing'[Author].data = Kept(disk.squads, id)
           /\ LeavesInMemory(writing'[Author])
<1> DEFINE kept == Kept(lib[Author].squads, id)
           after == [lib[Author] EXCEPT !.squads = kept]
<1>0. "squads" \in Books /\ lib[Author].squads = disk.squads
  BY DEF Shelved, Books
<1>1. Writes(Author, "squads", kept, after)
  BY DEF DropsSquad
<1>2. kept = Kept(disk.squads, id)
  BY <1>0
<1> HIDE DEF kept
<1>4. IsLibrary(after) /\ \A book \in Books : after[book] = IF book = "squads" THEN kept ELSE disk[book]
  BY <1>0 DEF Shelved, IsLibrary
<1> HIDE DEF after
<1> QED
  BY <1>0, <1>1, <1>2, <1>4, Begins DEF LeavesInMemory

\* A skill edited, unless the edit is refused.
LEMMA EditsInMemory ==
    ASSUME Shelved, ui.running, NEW draft, EditsSkill(Author, draft)
    PROVE  /\ UNCHANGED <<disk, lib>>
           /\ \/ UNCHANGED writing
              \/ /\ writing' = [s \in Sessions |-> writing'[s]]
                 /\ writing'[Author].file = "skills" /\ draft.id \in DOMAIN disk.skills
                 /\ writing'[Author].data =
                        [disk.skills EXCEPT ![draft.id] = Onto(draft, disk.skills[draft.id])]
                 /\ LeavesInMemory(writing'[Author])
<1> DEFINE id == draft.id
           edited == [lib[Author].skills EXCEPT ![id] = Onto(draft, @)]
           after == Rechecked(lib[Author], edited)
<1>0. "skills" \in Books /\ lib[Author].skills = disk.skills
  BY DEF Shelved, Books
<1>1. id \in DOMAIN lib[Author].skills
  BY DEF EditsSkill
<1>2. Writes(Author, "skills", edited, after) \/ UNCHANGED <<disk, lib, writing>>
  BY DEF EditsSkill
<1>3. edited = [disk.skills EXCEPT ![id] = Onto(draft, disk.skills[id])]
  BY <1>0
<1> HIDE DEF edited
<1>4. IsLibrary(after) /\ \A book \in Books : after[book] = IF book = "skills" THEN edited ELSE disk[book]
  BY DEF Shelved, IsLibrary, Rechecked, Books
<1> HIDE DEF after
<1> QED
  BY <1>0, <1>1, <1>2, <1>3, <1>4, Begins DEF LeavesInMemory

\* A write that is done, and one that failed.
LEMMA Renamed ==
    ASSUME Shelved, Rename(Author), LeavesInMemory(writing[Author])
    PROVE  LET w == writing[Author] IN
           /\ disk' = [file \in Files |-> disk'[file]] /\ lib' = [s \in Sessions |-> lib'[s]]
           /\ writing' = [s \in Sessions |-> writing'[s]] /\ writing'[Author] = Idle
           /\ \A file \in Files : disk'[file] = IF file = w.file THEN w.data ELSE disk[file]
           /\ lib'[Author] = w.after
           /\ \A book \in Books : lib'[Author][book] = disk'[book]
<1>1. Author \in Sessions /\ Books \subseteq Files
  BY EditorAssumption DEF Files
<1> QED
  BY <1>1 DEF Rename, Shelved, LeavesInMemory

\* A write that fails leaves disk and memory alone.
LEMMA Failed ==
    ASSUME Shelved, Fail(Author)
    PROVE  /\ UNCHANGED <<disk, lib>> /\ writing' = [s \in Sessions |-> writing'[s]]
           /\ writing'[Author] = Idle
<1>1. Author \in Sessions
  BY EditorAssumption
<1> QED
  BY <1>1 DEF Fail, Shelved

-----------------------------------------------------------------------------
(* What the screens say of the disk, and what a save under way will write. *)

OnFile(squad, book) == squad.id \in DOMAIN book /\ book[squad.id] = Catalogued(squad)
SquadBook(book) == book = [id \in DOMAIN book |-> Catalogued(book[id])]
Askable(book) == \A id \in DOMAIN book : {"element", "power", "restrict"} \subseteq DOMAIN book[id]
IsAnswers(s) == s = [id |-> s.id, element |-> s.element, power |-> s.power, restrict |-> s.restrict]

CharacterToCome(data) == form.draft.id \in DOMAIN data /\ form.draft.id \notin DOMAIN disk.characters
OriginToCome(data) == data[origins.draft.id].title = origins.draft.title
SkillToCome(data) ==
    Askable(data) /\ SkillAnswers(skills.draft.id, data[skills.draft.id]) = skills.draft
SquadToCome(data) ==
    /\ SquadBook(data) /\ squads.mode \in {"list", "edit"}
    /\ squads.mode = "edit" => OnFile(squads.editing, data)
ToCome(w) ==
    /\ LeavesInMemory(w)
    /\ w.file = "characters" => CharacterToCome(w.data)
    /\ w.file = "origins" => OriginToCome(w.data)
    /\ w.file = "skills" => SkillToCome(w.data)
    /\ w.file = "squads" => SquadToCome(w.data)
Underway == writing[Author] # Idle => ToCome(writing[Author])

\* The lists are read again before they are shown, and are on screen until they are not.
SquadsShown == \/ ui.screen \in {"squads", "fight", "play"}
               \/ ui.screen = "blurb" /\ ui.raisedFrom = "play"
SkillsShown == \/ ui.screen = "skills"
               \/ ui.screen = "blurb" /\ ui.raisedFrom = "skills"
Shown ==
    /\ SquadsShown => squads.saved = disk.squads
    /\ SkillsShown => skills.list = disk.skills
Asked ==
    ui.guard # Unasked /\ ui.guard.about # Blank =>
        squads.mode = "list" /\ ui.guard.about \in DOMAIN disk.squads
Baselined ==
    squads.mode # "list" => squads.baseline = NoSquad \/ OnFile(squads.baseline, disk.squads)
Stored ==
    /\ Shelved /\ SquadBook(disk.squads) /\ Askable(disk.skills) /\ IsAnswers(skills.draft)
    /\ Underway /\ Shown /\ Asked /\ Baselined

\* A library read off the disk holds what is on it.
LEMMA LibraryIs ==
    ASSUME NEW books
    PROVE  /\ IsLibrary(Library(TRUE, books))
           /\ \A book \in Books : Library(TRUE, books)[book] = books[book]
BY DEF Library, IsLibrary, Books

\* At first nothing is under way, and what is shipped is what is shown.
LEMMA StoredInit == Init => Stored
<1> SUFFICES ASSUME Init PROVE Stored
  OBVIOUS
<1>1. Author \in Sessions /\ disk = Shipped /\ lib[Author] = Library(TRUE, disk)
  BY EditorAssumption DEF Init
<1>2. Shelved
  <2>1. lib = [s \in Sessions |-> lib[s]] /\ writing = [s \in Sessions |-> writing[s]]
    BY DEF Init
  <2> QED
    BY <1>1, <2>1, LibraryIs, ForgeAssumption DEF Shelved
<1>3. SquadBook(disk.squads) /\ Askable(disk.skills)
  BY <1>1, EditorAssumption DEF SquadBook, Askable
<1>4. IsAnswers(skills.draft)
  BY DEF Init, ResetSkills, NoAnswers, IsAnswers
<1>5. Underway
  BY <1>1 DEF Init, Underway
<1>6. Shown /\ Asked /\ Baselined
  BY DEF Init, Shown, SquadsShown, SkillsShown, Asked, Baselined, NewSquads
<1> QED
  BY <1>2, <1>3, <1>4, <1>5, <1>6 DEF Stored

\* A save that begins writes what its form holds.
LEMMA SaveBegins ==
    ASSUME Stored, Saves
    PROVE  Shelved' /\ Underway'
<1>0. Shelved /\ SquadBook(disk.squads) /\ Askable(disk.skills) /\ IsAnswers(skills.draft)
  BY DEF Stored
<1>1. UNCHANGED <<disk, ownVars, ui>> /\ ui.running /\ writing[Author] = Idle
  BY SavesKeep DEF Saves, FormSaves, OriginsSave, SkillsSave, SquadsSave, Quiet
<1>2. \A book \in Books : lib[Author][book] = disk[book]
  BY <1>0, <1>1 DEF Shelved
<1>3. CASE UNCHANGED forgeVars
  BY <1>0, <1>1, <1>3 DEF forgeVars, Shelved, Underway
<1>4. ASSUME UNCHANGED <<disk, lib>>, writing' = [s \in Sessions |-> writing'[s]],
             ToCome(writing[Author])'
      PROVE  Shelved' /\ Underway'
  BY <1>0, <1>1, <1>4 DEF Shelved, Underway
<1>5. CASE FormSaves
  <2>1. CASE UNCHANGED vars
    BY <1>3, <2>1 DEF vars
  <2>2. CASE AddsCharacter(Author, form.draft)
    <3> DEFINE id == form.draft.id
               built == Built(form.draft, lib[Author])
    <3>1. Grows(Author, "characters", id, built) /\ id \notin DOMAIN lib[Author].characters
      BY <2>2 DEF AddsCharacter, ResolvesDraft, Appends
    <3>2. "characters" \in Books
      BY DEF Books
    <3> HIDE DEF id, built
    <3>3. /\ UNCHANGED <<disk, lib>> /\ writing' = [s \in Sessions |-> writing'[s]]
          /\ writing'[Author].file = "characters"
          /\ writing'[Author].data = With(disk.characters, id, built)
          /\ LeavesInMemory(writing'[Author])
      BY <1>0, <1>1, <3>1, <3>2, GrowsInMemory
    <3>4. id \in DOMAIN writing'[Author].data /\ id \notin DOMAIN disk.characters
      BY <1>2, <3>1, <3>2, <3>3 DEF With
    <3>5. CharacterToCome(writing[Author].data)'
      BY <1>1, <3>4 DEF id, CharacterToCome, ownVars
    <3>6. ToCome(writing[Author])'
      BY <1>1, <3>3, <3>5 DEF ToCome, LeavesInMemory
    <3> QED
      BY <1>4, <3>3, <3>6
  <2> QED
    BY <1>5, <2>1, <2>2 DEF FormSaves
<1>6. CASE OriginsSave
  <2>1. CASE UNCHANGED vars
    BY <1>3, <2>1 DEF vars
  <2>2. CASE AddsOrigin(Author, origins.draft)
    <3> DEFINE id == origins.draft.id
               entry == [title |-> origins.draft.title]
    <3>1. Grows(Author, "origins", id, entry)
      BY <2>2 DEF AddsOrigin
    <3>2. "origins" \in Books
      BY DEF Books
    <3> HIDE DEF id, entry
    <3>3. /\ UNCHANGED <<disk, lib>> /\ writing' = [s \in Sessions |-> writing'[s]]
          /\ writing'[Author].file = "origins"
          /\ writing'[Author].data = With(disk.origins, id, entry)
          /\ LeavesInMemory(writing'[Author])
      BY <1>0, <1>1, <3>1, <3>2, GrowsInMemory
    <3>4. writing'[Author].data[id] = entry
      BY <3>3 DEF With
    <3>5. OriginToCome(writing[Author].data)'
      BY <1>1, <3>4 DEF id, entry, OriginToCome, ownVars
    <3>6. ToCome(writing[Author])'
      BY <1>1, <3>3, <3>5 DEF ToCome, LeavesInMemory
    <3> QED
      BY <1>4, <3>3, <3>6
  <2> QED
    BY <1>6, <2>1, <2>2 DEF OriginsSave
<1>7. CASE SkillsSave
  <2>1. CASE UNCHANGED vars
    BY <1>3, <2>1 DEF vars
  <2>9. \A base : {"element", "power", "restrict"} \subseteq DOMAIN base =>
            LET laid == Onto(skills.draft, base) IN
            /\ SkillAnswers(skills.draft.id, laid) = skills.draft
            /\ {"element", "power", "restrict"} \subseteq DOMAIN laid
    BY <1>0 DEF Onto, SkillAnswers, IsAnswers
  <2>2. CASE AddsSkill(Author, skills.draft)
    <3> DEFINE id == skills.draft.id
               entry == Onto(skills.draft, Fresh)
    <3>1. Grows(Author, "skills", id, entry)
      BY <2>2 DEF AddsSkill
    <3>2. "skills" \in Books
      BY DEF Books
    <3>3. SkillAnswers(id, entry) = skills.draft /\ {"element", "power", "restrict"} \subseteq DOMAIN entry
      <4>1. {"element", "power", "restrict"} \subseteq DOMAIN Fresh
        BY DEF Fresh
      <4> QED
        BY <2>9, <4>1
    <3> HIDE DEF id, entry
    <3>4. /\ UNCHANGED <<disk, lib>> /\ writing' = [s \in Sessions |-> writing'[s]]
          /\ writing'[Author].file = "skills"
          /\ writing'[Author].data = With(disk.skills, id, entry)
          /\ LeavesInMemory(writing'[Author])
      BY <1>0, <1>1, <3>1, <3>2, GrowsInMemory
    <3>5. writing'[Author].data[id] = entry /\ Askable(writing'[Author].data)
      BY <1>0, <3>3, <3>4 DEF With, Askable
    <3>6. SkillToCome(writing[Author].data)'
      BY <1>1, <3>3, <3>5 DEF id, SkillToCome, Askable, SkillAnswers, ownVars
    <3>7. ToCome(writing[Author])'
      BY <1>1, <3>4, <3>6 DEF ToCome, LeavesInMemory
    <3> QED
      BY <1>4, <3>4, <3>7
  <2>3. CASE EditsSkill(Author, skills.draft)
    <3> DEFINE id == skills.draft.id
               entry == Onto(skills.draft, disk.skills[id])
    <3>1. /\ UNCHANGED <<disk, lib>>
          /\ \/ UNCHANGED writing
             \/ /\ writing' = [s \in Sessions |-> writing'[s]]
                /\ writing'[Author].file = "skills" /\ id \in DOMAIN disk.skills
                /\ writing'[Author].data = [disk.skills EXCEPT ![id] = entry]
                /\ LeavesInMemory(writing'[Author])
      BY <1>0, <1>1, <2>3, EditsInMemory
    <3>2. CASE UNCHANGED writing
      BY <1>0, <1>1, <3>1, <3>2 DEF Shelved, Underway
    <3>3. CASE writing' # writing
      <4>1. SkillAnswers(id, entry) = skills.draft /\ {"element", "power", "restrict"} \subseteq DOMAIN entry
        BY <1>0, <2>9, <3>1, <3>3 DEF Askable
      <4> HIDE DEF id, entry
      <4>2. writing'[Author].data[id] = entry /\ Askable(writing'[Author].data)
        BY <1>0, <3>1, <3>3, <4>1 DEF Askable
      <4>3. SkillToCome(writing[Author].data)'
        BY <1>1, <4>1, <4>2 DEF id, SkillToCome, Askable, SkillAnswers, ownVars
      <4>4. ToCome(writing[Author])'
        BY <1>1, <3>1, <3>3, <4>3 DEF ToCome, LeavesInMemory
      <4> QED
        BY <1>4, <3>1, <3>3, <4>4
    <3> QED
      BY <3>2, <3>3
  <2> QED
    BY <1>7, <2>1, <2>2, <2>3 DEF SkillsSave
<1>8. CASE SquadsSave
  <2>1. CASE UNCHANGED vars
    BY <1>3, <2>1 DEF vars
  <2>2. CASE KeepsSquad(Author, squads.editing)
    <3> DEFINE id == squads.editing.id
               entry == Catalogued(squads.editing)
    <3>1. Grows(Author, "squads", id, entry)
      BY <2>2 DEF KeepsSquad, Catalogued
    <3>2. "squads" \in Books /\ squads.mode = "edit"
      BY <1>8 DEF Books, SquadsSave
    <3>3. Catalogued(entry) = entry
      BY DEF Catalogued
    <3> HIDE DEF id, entry
    <3>4. /\ UNCHANGED <<disk, lib>> /\ writing' = [s \in Sessions |-> writing'[s]]
          /\ writing'[Author].file = "squads"
          /\ writing'[Author].data = With(disk.squads, id, entry)
          /\ LeavesInMemory(writing'[Author])
      BY <1>0, <1>1, <3>1, <3>2, GrowsInMemory
    <3>5. /\ id \in DOMAIN writing'[Author].data /\ writing'[Author].data[id] = entry
          /\ SquadBook(writing'[Author].data)
      BY <1>0, <3>3, <3>4 DEF With, SquadBook
    <3>6. SquadToCome(writing[Author].data)'
      BY <1>1, <3>2, <3>5 DEF id, entry, SquadToCome, OnFile, SquadBook, Catalogued, ownVars
    <3>7. ToCome(writing[Author])'
      BY <1>1, <3>4, <3>6 DEF ToCome, LeavesInMemory
    <3> QED
      BY <1>4, <3>4, <3>7
  <2> QED
    BY <1>8, <2>1, <2>2 DEF SquadsSave
<1> QED
  BY <1>5, <1>6, <1>7, <1>8 DEF Saves

\* The steps that leave the files alone.
OnScreen == \/ ReadOnly \/ OfTheForm \/ OfOrigins \/ OfSkills \/ OfSquads \/ Enter \/ PickerAnswered
            \/ ConfirmSquads /\ ui.guard.about = Blank
\* They do.
LEMMA OnScreenKeeps == OnScreen => UNCHANGED forgeVars
<1>1. Enter \/ PickerAnswered \/ (ConfirmSquads /\ ui.guard.about = Blank) => UNCHANGED forgeVars
  BY DEF Enter, PickerAnswered, ConfirmSquads
<1>2. ReadOnly \/ OfTheForm \/ OfOrigins => UNCHANGED forgeVars
  BY ReadOnlyKeeps, FormKeeps, OriginsKeep DEF forgeVars
<1>3. OfSkills \/ OfSquads => UNCHANGED forgeVars
  BY SkillsKeep, SquadsKeep DEF forgeVars
<1> QED
  BY <1>1, <1>2, <1>3 DEF OnScreen

\* Every step is one of those, begins or ends a save, deletes a squad or quits.
LEMMA Sorts ==
    [Next]_vars => \/ OnScreen \/ Saves \/ Returns \/ Quit \/ UNCHANGED vars
                   \/ ConfirmSquads /\ ui.guard.about # Blank
BY Kinds DEF OnScreen

\* No key is read once the program is left, or while a save is under way.
LEMMA AtRest == OnScreen \/ Saves \/ ConfirmSquads => ui.running /\ writing[Author] = Idle
<1> DEFINE Rest == ui.running /\ writing[Author] = Idle
<1>1. Reads => Rest
  BY DEF Reads, BrowseKeys, PreviewKeys, BlurbKeys, StatusesKeys, PassivesKeys, BonusesKeys,
         ElementsKeys, ChartKeys, SpeciesKeys, BuildsKeys, PlayKeys, CheckKeys, SparKeys, Keys, Quiet
<1>2. Saves \/ Enter \/ FormTypes \/ FormLeaves \/ FormPicks => Rest
  BY DEF Saves, FormSaves, OriginsSave, SkillsSave, SquadsSave, Enter, FormTypes, FormLeaves, FormPicks,
         Quiet
<1>3. OriginsAdd \/ OriginsType \/ OriginsLeave \/ SkillsAdd \/ SkillsEdit \/ SkillsType \/ SkillsPick
        \/ SkillsLeave \/ SkillsRaise => Rest
  BY DEF OriginsAdd, OriginsType, OriginsLeave, SkillsAdd, SkillsEdit, SkillsType, SkillsPick,
         SkillsLeave, SkillsRaise, Quiet
<1>4. OfSquads \/ Fight => Rest
  BY DEF OfSquads, SquadsBegin, SquadsOpen, SquadsType, AddUnit, TakeUnit, ChangeUnit, UnitPicks,
         SquadsLeave, SquadsFight, Fight, Quiet
<1>5. AnswerNo \/ ConfirmForm \/ ConfirmOrigins \/ ConfirmSkills \/ ConfirmSquads => Rest
  BY DEF AnswerNo, ConfirmForm, ConfirmOrigins, ConfirmSkills, ConfirmSquads, Unanswered
<1>6. Toggle \/ PickerDropped \/ PickerAnswered => Rest
  BY DEF Toggle, PickerDropped, PickerAnswered, Listed
<1> HIDE DEF Rest
<1>7. OnScreen \/ Saves \/ ConfirmSquads => Rest
  BY <1>1, <1>2, <1>3, <1>4, <1>5, <1>6 DEF OnScreen, ReadOnly, OfTheForm, OfOrigins, OfSkills
<1> QED
  BY <1>7 DEF Rest

\* A squad deleted: the rest of the file is to be written.
LEMMA SquadDropped ==
    ASSUME Stored, ConfirmSquads, ui.guard.about # Blank
    PROVE  Shelved' /\ Underway' /\ UNCHANGED <<disk, form, origins, skills, squads>>
<1>0. Shelved /\ SquadBook(disk.squads)
  BY DEF Stored
<1>1. /\ DropsSquad(Author, ui.guard.about) /\ UNCHANGED ownVars
      /\ ui.running /\ ui.guard # Unasked
  BY DEF ConfirmSquads, Unanswered
<1>2. /\ UNCHANGED <<disk, lib>> /\ writing' = [s \in Sessions |-> writing'[s]]
      /\ writing'[Author].file = "squads"
      /\ writing'[Author].data = Kept(disk.squads, ui.guard.about)
      /\ LeavesInMemory(writing'[Author])
  BY <1>0, <1>1, DropsInMemory
<1>3. SquadBook(writing'[Author].data)
  BY <1>0, <1>2 DEF Kept, SquadBook
<1>4. squads.mode = "list"
  BY <1>1 DEF Stored, Asked
<1>5. SquadToCome(writing[Author].data)'
  BY <1>1, <1>3, <1>4 DEF SquadToCome, SquadBook, Catalogued, ownVars
<1>6. ToCome(writing[Author])'
  BY <1>1, <1>2, <1>5 DEF ToCome, LeavesInMemory
<1>7. Shelved'
  BY <1>0, <1>1, <1>2 DEF Shelved
<1> QED
  BY <1>1, <1>2, <1>6, <1>7 DEF Underway, ownVars

\* A save that returns, written or not.
LEMMA WrittenStored ==
    ASSUME Stored, NEW written \in BOOLEAN, SaveReturns(written)
    PROVE  /\ Shelved' /\ writing'[Author] = Idle
           /\ IF written
              THEN LET w == writing[Author] IN
                   /\ ToCome(w) /\ \A file \in Files : disk'[file] = IF file = w.file THEN w.data ELSE disk[file]
                   /\ \A book \in Books : lib'[Author][book] = disk'[book]
              ELSE UNCHANGED disk
<1>1. Shelved /\ Underway
  BY DEF Stored
<1>2. ui.running /\ writing[Author] # Idle /\ UNCHANGED ui
  BY Returned
<1>3. LeavesInMemory(writing[Author]) /\ ToCome(writing[Author])
  BY <1>1, <1>2 DEF Underway, ToCome
<1>4. CASE written
  <2>1. Rename(Author)
    BY <1>4, Returned
  <2>2. LET w == writing[Author] IN
        /\ disk' = [file \in Files |-> disk'[file]] /\ lib' = [s \in Sessions |-> lib'[s]]
        /\ writing' = [s \in Sessions |-> writing'[s]] /\ writing'[Author] = Idle
        /\ \A file \in Files : disk'[file] = IF file = w.file THEN w.data ELSE disk[file]
        /\ lib'[Author] = w.after
        /\ \A book \in Books : lib'[Author][book] = disk'[book]
    BY <1>1, <1>3, <2>1, Renamed
  <2>3. IsLibrary(lib'[Author])
    BY <1>3, <2>2 DEF LeavesInMemory
  <2>4. Shelved'
    BY <2>2, <2>3 DEF Shelved, IsLibrary
  <2> QED
    BY <1>3, <1>4, <2>2, <2>4
<1>5. CASE ~written
  <2>1. Fail(Author)
    BY <1>5, Returned
  <2>2. UNCHANGED <<disk, lib>> /\ writing' = [s \in Sessions |-> writing'[s]] /\ writing'[Author] = Idle
    BY <1>1, <2>1, Failed
  <2>3. Shelved'
    BY <1>1, <1>2, <2>2 DEF Shelved
  <2> QED
    BY <1>5, <2>2, <2>3
<1> QED
  BY <1>4, <1>5

\* Memory stays what is on disk, and a save under way what its form held.
LEMMA ShelvedNext == Ways /\ Stored /\ [Next]_vars => Shelved' /\ Underway'
<1> SUFFICES ASSUME Ways, Stored, [Next]_vars PROVE Shelved' /\ Underway'
  OBVIOUS
<1>0. Shelved
  BY DEF Stored
<1>1. CASE UNCHANGED vars
  <2>1. UNCHANGED <<disk, lib, writing, ui, form, origins, skills, squads>>
    BY <1>1 DEF vars, forgeVars, ownVars
  <2>2. Shelved'
    BY <1>0, <2>1 DEF Shelved
  <2>3. Underway'
    BY <2>1 DEF Stored, Underway, ToCome, LeavesInMemory, CharacterToCome, OriginToCome, SkillToCome,
       SquadToCome
  <2> QED
    BY <2>2, <2>3
<1>2. CASE OnScreen
  <2>1. UNCHANGED <<disk, lib, writing>> /\ ui.running /\ writing[Author] = Idle
    BY <1>2, OnScreenKeeps, AtRest DEF forgeVars
  <2> QED
    BY <1>0, <2>1 DEF Shelved, Underway
<1>3. CASE Saves
  BY <1>3, SaveBegins
<1>4. CASE ConfirmSquads /\ ui.guard.about # Blank
  BY <1>4, SquadDropped
<1>5. CASE Returns
  <2>1. PICK written \in BOOLEAN : SaveReturns(written)
    BY <1>5 DEF Returns
  <2> QED
    BY <2>1, WrittenStored DEF Underway
<1>6. CASE Quit
  <2>1. UNCHANGED disk /\ ~ui'.running
    BY <1>6, QuitKeeps DEF Ways
  <2>2. /\ lib' = [s \in Sessions |-> lib'[s]] /\ writing' = [s \in Sessions |-> writing'[s]]
        /\ writing'[Author] = Idle
    BY <1>0, <1>6, EditorAssumption DEF Quit, Stop, Shelved
  <2> QED
    BY <1>0, <2>1, <2>2 DEF Shelved, Underway
<1> QED
  BY <1>1, <1>2, <1>3, <1>4, <1>5, <1>6, Kinds DEF OnScreen

\* The books on disk keep their shape, and the answers of the skill form theirs.
LEMMA BooksNext == Stored /\ [Next]_vars => SquadBook(disk'.squads) /\ Askable(disk'.skills)
<1> SUFFICES ASSUME Stored, [Next]_vars PROVE SquadBook(disk'.squads) /\ Askable(disk'.skills)
  OBVIOUS
<1>1. CASE UNCHANGED disk
  BY <1>1 DEF Stored
<1>2. CASE OnScreen \/ Saves \/ (ConfirmSquads /\ ui.guard.about # Blank) \/ Quit \/ UNCHANGED vars
  <2>1. UNCHANGED disk
    BY <1>2, OnScreenKeeps, SavesKeep, SquadDropped, QuitKeeps DEF forgeVars, vars
  <2> QED
    BY <1>1, <2>1
<1>3. CASE Returns
  <2>1. PICK written \in BOOLEAN : SaveReturns(written)
    BY <1>3 DEF Returns
  <2>2. CASE written
    <3>1. /\ ToCome(writing[Author])
          /\ \A file \in Files : disk'[file] = IF file = writing[Author].file THEN writing[Author].data
                                             ELSE disk[file]
      BY <2>1, <2>2, WrittenStored
    <3>2. "squads" \in Files /\ "skills" \in Files
      BY DEF Files, Books
    <3> QED
      BY <3>1, <3>2 DEF Stored, ToCome, SquadToCome, SkillToCome
  <2>3. CASE ~written
    BY <1>1, <2>1, <2>3, WrittenStored
  <2> QED
    BY <2>2, <2>3
<1> QED
  BY <1>2, <1>3, Sorts

\* The form of a skill always has its four answers.
LEMMA AnswersNext == Shaped /\ InFront /\ Stored /\ [Next]_vars => IsAnswers(skills'.draft)
<1> SUFFICES ASSUME Shaped, InFront, Stored, [Next]_vars PROVE IsAnswers(skills'.draft)
  OBVIOUS
<1>0. IsAnswers(skills.draft)
  BY DEF Stored
<1>1. CASE skills'.draft = skills.draft
  BY <1>0, <1>1
<1>2. \A list : skills' = ResetSkills(list) => IsAnswers(skills'.draft)
  BY DEF ResetSkills, NoAnswers, IsAnswers
<1>3. CASE SkillsAdd
  BY <1>3 DEF SkillsAdd, ResetSkills, NoAnswers, IsAnswers
<1>4. CASE SkillsEdit
  BY <1>4 DEF SkillsEdit, ResetSkills, SkillAnswers, IsAnswers
<1>5. CASE SkillsType
  <2>1. \A draft : TouchSkill(draft).draft = draft
    BY DEF TouchSkill, Shaped, IsSkills
  <2>2. \/ \E id : skills' = TouchSkill([skills.draft EXCEPT !.id = id])
        \/ \E power : skills' = TouchSkill([skills.draft EXCEPT !.power = power])
        \/ \E element : skills' = TouchSkill([skills.draft EXCEPT !.element = element])
        \/ skills'.draft = skills.draft
    BY <1>5 DEF SkillsType, Shaped, IsSkills
  <2>3. ASSUME NEW id, skills' = TouchSkill([skills.draft EXCEPT !.id = id]) PROVE IsAnswers(skills'.draft)
    BY <1>0, <2>1, <2>3 DEF IsAnswers
  <2>4. ASSUME NEW power, skills' = TouchSkill([skills.draft EXCEPT !.power = power])
        PROVE  IsAnswers(skills'.draft)
    BY <1>0, <2>1, <2>4 DEF IsAnswers
  <2>5. ASSUME NEW element, skills' = TouchSkill([skills.draft EXCEPT !.element = element])
        PROVE  IsAnswers(skills'.draft)
    BY <1>0, <2>1, <2>5 DEF IsAnswers
  <2> QED
    BY <1>1, <2>2, <2>3, <2>4, <2>5
<1>6. CASE SkillsLeave \/ ConfirmSkills
  BY <1>1, <1>2, <1>6 DEF SkillsLeave, ConfirmSkills
<1>7. CASE Enter
  BY <1>0, <1>7 DEF Enter, Shaped, IsSkills
<1>8. CASE Returns
  <2>1. PICK written \in BOOLEAN : SaveReturns(written)
    BY <1>8 DEF Returns
  <2>2. skills' = skills \/ skills' = ResetSkills(lib'[Author].skills)
    BY <2>1, Returned
  <2> QED
    BY <1>1, <1>2, <2>2
<1>9. CASE PickerAnswered
  <2>1. Land(ui.picker.into, ui.picker.chosen)
    BY <1>9 DEF PickerAnswered
  <2>2. \A draft : TouchSkill(draft).draft = draft
    BY DEF TouchSkill, Shaped, IsSkills
  <2> DEFINE who == ToSet(ui.picker.chosen)
  <2>3. \/ skills' = skills
        \/ skills' = TouchSkill([skills.draft EXCEPT !.restrict.characters = who])
        \/ skills' = TouchSkill([skills.draft EXCEPT !.restrict.origins = who])
    BY <2>1, Lands
  <2> HIDE DEF who
  <2>4. CASE skills' = TouchSkill([skills.draft EXCEPT !.restrict.characters = who])
    BY <1>0, <2>2, <2>4 DEF IsAnswers
  <2>5. CASE skills' = TouchSkill([skills.draft EXCEPT !.restrict.origins = who])
    BY <1>0, <2>2, <2>5 DEF IsAnswers
  <2> QED
    BY <1>1, <2>3, <2>4, <2>5
<1>10. CASE UNCHANGED skills
  BY <1>1, <1>10
<1>11. CASE ReadOnly \/ OfTheForm \/ OfOrigins \/ OfSquads \/ Saves \/ ConfirmSquads \/ Quit
  <2>1. UNCHANGED skills
    BY <1>11, ReadOnlyKeeps, FormKeeps, OriginsKeep, SquadsKeep, SavesKeep, QuitKeeps
       DEF ConfirmSquads, ownVars
  <2> QED
    BY <1>10, <2>1
<1> QED
  BY <1>3, <1>4, <1>5, <1>6, <1>7, <1>8, <1>9, <1>10, <1>11, Kinds DEF OfSkills, vars, ownVars

\* What is shown has been on screen since it was read.
LEMMA ShownStays ==
    ASSUME Ways, [Next]_vars, ~Enter
    PROVE  /\ SquadsShown' => SquadsShown \/ SquadsFight
           /\ SkillsShown' => SkillsShown
<1>1. CASE Stays \/ UNCHANGED vars
  BY <1>1, Staying DEF SquadsShown, SkillsShown, vars
<1>2. CASE ui'.screen = ui.screen /\ ui'.raisedFrom = ui.raisedFrom
  BY <1>2 DEF SquadsShown, SkillsShown
<1>3. CASE Reads
  <2>1. CASE BrowseKeys
    BY <2>1 DEF BrowseKeys, Keys, Quiet, GoBack, Raised, Ways, Trail, Menu, SquadsShown, SkillsShown
  <2>2. CASE PreviewKeys \/ BlurbKeys \/ StatusesKeys \/ BonusesKeys \/ ChartKeys \/ SpeciesKeys
             \/ BuildsKeys
    BY <2>2 DEF PreviewKeys, BlurbKeys, StatusesKeys, BonusesKeys, ChartKeys, SpeciesKeys, BuildsKeys,
       Keys, Quiet, GoBack, Ways, Trail, Menu, SquadsShown, SkillsShown
  <2>3. CASE PassivesKeys \/ ElementsKeys \/ PlayKeys
    BY <2>3 DEF PassivesKeys, ElementsKeys, PlayKeys, Keys, Quiet, GoBack, Raised, Ways, Trail, Menu,
       SquadsShown, SkillsShown
  <2>4. CASE CheckKeys \/ SparKeys
    BY <2>4 DEF CheckKeys, SparKeys, Keys, Quiet, Ways, Trail, Menu, SquadsShown, SkillsShown
  <2> QED
    BY <1>3, <2>1, <2>2, <2>3, <2>4 DEF Reads
<1>4. CASE FormLeaves
  BY <1>4 DEF FormLeaves, Quiet, Ways, SquadsShown, SkillsShown
<1>5. CASE FormPicks \/ SkillsPick \/ UnitPicks \/ Toggle \/ PickerDropped \/ PickerAnswered
  <2>1. ui'.screen = ui.screen /\ ui'.raisedFrom = ui.raisedFrom
    BY <1>5 DEF FormPicks, SkillsPick, UnitPicks, Picker, Toggle, PickerDropped, PickerAnswered, Ways
  <2> QED
    BY <1>2, <2>1
<1>6. CASE OriginsLeave \/ SkillsLeave \/ SkillsRaise
  <2>1. CASE OriginsLeave
    BY <2>1 DEF OriginsLeave, Quiet, GoBack, Ways, Trail, Menu, SquadsShown, SkillsShown
  <2>2. CASE SkillsLeave
    BY <2>2 DEF SkillsLeave, Quiet, GoBack, Ways, Trail, Menu, SquadsShown, SkillsShown
  <2>3. CASE SkillsRaise
    BY <2>3 DEF SkillsRaise, Quiet, Raised, Ways, SquadsShown, SkillsShown
  <2> QED
    BY <1>6, <2>1, <2>2, <2>3
<1>7. CASE SquadsLeave
  BY <1>7 DEF SquadsLeave, Quiet, GoBack, Ways, Trail, Menu, SquadsShown, SkillsShown
<1>8. CASE SquadsFight \/ Fight
  BY <1>8 DEF SquadsFight, Fight, Quiet, Raised, Ways, SquadsShown, SkillsShown
<1>9. CASE AnswerNo \/ ConfirmOrigins \/ ConfirmSkills \/ ConfirmSquads \/ Quit
  <2>1. ui'.screen = ui.screen /\ ui'.raisedFrom = ui.raisedFrom
    BY <1>9 DEF AnswerNo, ConfirmOrigins, ConfirmSkills, ConfirmSquads, Quit, Ways
  <2> QED
    BY <1>2, <2>1
<1>10. CASE ConfirmForm
  BY <1>10 DEF ConfirmForm, Unanswered, GoBack, Ways, Trail, Menu, SquadsShown, SkillsShown
<1> QED
  BY <1>1, <1>2, <1>3, <1>4, <1>5, <1>6, <1>7, <1>8, <1>9, <1>10 DEF Next, Stays

\* With no squads of a player's own, what is offered is the book.
LEMMA Offered == ASSUME NEW book, SquadBook(book) PROVE SquadsOffered(book, <<>>) = book
BY DEF SquadsOffered, SquadBook

\* What is shown is what is on disk.
LEMMA ShownNext == Ways /\ Shaped /\ InFront /\ Stored /\ [Next]_vars => Shown'
<1> SUFFICES ASSUME Ways, Shaped, InFront, Stored, [Next]_vars PROVE Shown'
  OBVIOUS
<1>0. /\ Shown /\ SquadBook(disk.squads) /\ "squads" \in Books /\ "skills" \in Books
      /\ "squads" \in Files /\ "skills" \in Files
  BY DEF Stored, Books, Files
<1>1. CASE Enter
  <2>1. /\ UNCHANGED disk /\ Known.squads = disk.squads /\ Known.skills = disk.skills
    BY <1>0, <1>1 DEF Enter, Quiet, Stored, Shelved, Known, forgeVars
  <2>2. PICK screen \in Menu :
          /\ ui' = [ui EXCEPT !.screen = screen]
          /\ skills' = IF screen = "skills" THEN [skills EXCEPT !.list = Known.skills] ELSE skills
          /\ squads' = IF screen \in {"squads", "fight"} THEN Refresh(squads, Known) ELSE squads
    BY <1>1 DEF Enter
  <2>3. ui'.screen = screen
    BY <2>2 DEF Ways
  <2>4. screen \notin {"play", "blurb"}
    BY DEF Menu
  <2>5. screen \in {"squads", "fight"} => squads'.saved = disk.squads
    BY <1>0, <2>1, <2>2, Offered DEF Refresh, Shaped, IsSquads
  <2>6. screen = "skills" => skills'.list = disk.skills
    BY <2>1, <2>2 DEF Shaped, IsSkills
  <2> QED
    BY <2>1, <2>3, <2>4, <2>5, <2>6 DEF Shown, SquadsShown, SkillsShown
<1>2. CASE ~Enter
  <2>0. /\ SquadsShown' => SquadsShown \/ SquadsFight
        /\ SkillsShown' => SkillsShown
    BY <1>2, ShownStays
  <2>1. SkillsShown' => skills'.list = disk'.skills
    <3>1. CASE UNCHANGED disk /\ skills'.list = skills.list
      BY <1>0, <2>0, <3>1 DEF Shown
    <3>2. CASE Returns
      <4>1. PICK written \in BOOLEAN : SaveReturns(written)
        BY <3>2 DEF Returns
      <4>2. CASE written /\ writing[Author].file = "skills"
        <5>1. skills' = ResetSkills(lib'[Author].skills)
          BY <4>1, <4>2, Returned
        <5>2. lib'[Author].skills = disk'.skills
          BY <1>0, <4>1, <4>2, WrittenStored
        <5> QED
          BY <5>1, <5>2 DEF ResetSkills
      <4>3. CASE ~(written /\ writing[Author].file = "skills")
        <5>1. skills' = skills
          BY <4>1, <4>3, Returned
        <5>2. disk'.skills = disk.skills
          BY <1>0, <4>1, <4>3, WrittenStored
        <5> QED
          BY <1>0, <2>0, <5>1, <5>2 DEF Shown
      <4> QED
        BY <4>2, <4>3
    <3>3. CASE OfSkills
      <4>1. skills'.list = skills.list
        <5>1. CASE SkillsAdd \/ SkillsEdit
          BY <5>1 DEF SkillsAdd, SkillsEdit, ResetSkills
        <5>2. CASE SkillsLeave \/ ConfirmSkills
          BY <5>2 DEF SkillsLeave, ConfirmSkills, ResetSkills
        <5>3. CASE SkillsType
          <6>1. \A draft : TouchSkill(draft).list = skills.list
            BY DEF TouchSkill, Shaped, IsSkills
          <6>2. \/ \E draft : skills' = TouchSkill(draft)
                \/ skills' = [skills EXCEPT !.drawn = ~@]
                \/ skills' = [skills EXCEPT !.touched = TRUE]
            BY <5>3 DEF SkillsType
          <6> QED
            BY <6>1, <6>2 DEF Shaped, IsSkills
        <5> QED
          BY <3>3, <5>1, <5>2, <5>3 DEF OfSkills
      <4>2. UNCHANGED disk
        BY <3>3, SkillsKeep DEF forgeVars
      <4> QED
        BY <3>1, <4>1, <4>2
    <3>4. CASE PickerAnswered
      <4>1. Land(ui.picker.into, ui.picker.chosen) /\ UNCHANGED disk
        BY <3>4 DEF PickerAnswered, forgeVars
      <4>2. skills'.list = skills.list
        BY <4>1, Lands DEF TouchSkill, Shaped, IsSkills
      <4> QED
        BY <3>1, <4>1, <4>2
    <3>5. CASE ReadOnly \/ OfTheForm \/ OfOrigins \/ OfSquads \/ Saves \/ Quit \/ UNCHANGED vars
      <4>1. UNCHANGED <<disk, skills>>
        BY <3>5, ReadOnlyKeeps, FormKeeps, OriginsKeep, SquadsKeep, SavesKeep, QuitKeeps
           DEF vars, forgeVars, ownVars
      <4> QED
        BY <3>1, <4>1
    <3>6. CASE ConfirmSquads
      <4>1. UNCHANGED <<disk, skills>>
        BY <3>6, SquadDropped DEF ConfirmSquads, forgeVars
      <4> QED
        BY <3>1, <4>1
    <3> QED
      BY <1>2, <3>2, <3>3, <3>4, <3>5, <3>6, Kinds
  <2>2. SquadsShown' => squads'.saved = disk'.squads
    <3>1. CASE UNCHANGED disk /\ squads'.saved = squads.saved /\ ~SquadsFight
      BY <1>0, <2>0, <3>1 DEF Shown
    <3>2. CASE Returns
      <4>1. PICK written \in BOOLEAN : SaveReturns(written)
        BY <3>2 DEF Returns
      <4>2. CASE written /\ writing[Author].file = "squads"
        <5>1. squads' = SquadsAfter(TRUE)
          BY <4>1, <4>2, Returned
        <5>2. lib'[Author].squads = disk'.squads
          BY <1>0, <4>1, <4>2, WrittenStored
        <5>3. SquadBook(disk'.squads)
          BY BooksNext
        <5>4. SquadsOffered(lib'[Author].squads, <<>>) = disk'.squads
          BY <5>2, <5>3, Offered
        <5> QED
          BY <5>1, <5>4 DEF SquadsAfter, Refresh, Shaped, IsSquads
      <4>3. CASE ~(written /\ writing[Author].file = "squads")
        <5>1. squads' = squads /\ UNCHANGED ui
          BY <4>1, <4>3, Returned
        <5>2. disk'.squads = disk.squads
          BY <1>0, <4>1, <4>3, WrittenStored
        <5> QED
          BY <1>0, <5>1, <5>2 DEF Shown, SquadsShown
      <4> QED
        BY <4>2, <4>3
    <3>3. CASE SquadsBegin \/ SquadsOpen \/ SquadsType \/ AddUnit \/ TakeUnit \/ ChangeUnit \/ UnitPicks
      <4>1. squads'.saved = squads.saved
        <5>1. CASE SquadsBegin \/ SquadsOpen \/ SquadsType
          BY <5>1 DEF SquadsBegin, SquadsOpen, SquadsType, Shaped, IsSquads
        <5>2. CASE AddUnit \/ TakeUnit
          BY <5>2 DEF AddUnit, TakeUnit, EditUnit, Shaped, IsSquads
        <5>3. CASE ChangeUnit
          BY <5>3 DEF ChangeUnit, Shaped, IsSquads
        <5>4. CASE UnitPicks
          BY <5>4 DEF UnitPicks, Commit, Shaped, IsSquads
        <5> QED
          BY <3>3, <5>1, <5>2, <5>3, <5>4
      <4>2. UNCHANGED disk
        BY <3>3, SquadsKeep DEF OfSquads, forgeVars
      <4>3. ui.screen = "squads"
        BY <3>3 DEF SquadsBegin, SquadsOpen, SquadsType, AddUnit, TakeUnit, ChangeUnit, UnitPicks, Quiet
      <4> QED
        BY <1>0, <4>1, <4>2, <4>3 DEF Shown, SquadsShown
    <3>4. CASE SquadsLeave \/ SquadsFight \/ (ConfirmSquads /\ ui.guard.about = Blank)
      <4>1. UNCHANGED disk /\ ui.running /\ ui.screen = "squads"
        BY <3>4, OnScreenKeeps, AtRest
           DEF OnScreen, OfSquads, SquadsLeave, SquadsFight, ConfirmSquads, Unanswered, Quiet, Ways, forgeVars
      <4>2. Known.squads = disk.squads /\ squads.saved = disk.squads
        BY <1>0, <4>1 DEF Stored, Shelved, Known, Shown, SquadsShown
      <4>3. SquadsOffered(Known.squads, <<>>) = disk.squads
        BY <1>0, <4>2, Offered
      <4>4. squads'.saved = disk.squads
        <5>1. CASE SquadsLeave
          BY <4>2, <4>3, <5>1 DEF SquadsLeave, Refresh, ToList, Commit, Shaped, IsSquads
        <5>2. CASE SquadsFight
          BY <4>3, <5>2 DEF SquadsFight, Refresh, Shaped, IsSquads
        <5>3. CASE ConfirmSquads /\ ui.guard.about = Blank
          BY <4>3, <5>3 DEF ConfirmSquads, Refresh, ToList, Shaped, IsSquads
        <5> QED
          BY <3>4, <5>1, <5>2, <5>3
      <4> QED
        BY <4>1, <4>4
    <3>5. CASE PickerAnswered
      <4>1. Land(ui.picker.into, ui.picker.chosen) /\ UNCHANGED disk
        BY <3>5 DEF PickerAnswered, forgeVars
      <4>2. squads'.saved = squads.saved
        BY <4>1, Lands DEF Commit, Shaped, IsSquads
      <4>3. ui'.screen = ui.screen /\ ui'.raisedFrom = ui.raisedFrom
        BY <3>5 DEF PickerAnswered, Ways
      <4> QED
        BY <1>0, <4>1, <4>2, <4>3 DEF Shown, SquadsShown
    <3>6. CASE ConfirmSquads /\ ui.guard.about # Blank
      <4>1. UNCHANGED <<disk, squads>>
        BY <3>6, SquadDropped
      <4>2. ui'.screen = ui.screen /\ ui'.raisedFrom = ui.raisedFrom
        BY <3>6 DEF ConfirmSquads, Ways
      <4> QED
        BY <1>0, <4>1, <4>2 DEF Shown, SquadsShown
    <3>7. CASE ReadOnly \/ OfTheForm \/ OfOrigins \/ OfSkills \/ Saves \/ Quit \/ UNCHANGED vars
      <4>1. UNCHANGED <<disk, squads>>
        BY <3>7, ReadOnlyKeeps, FormKeeps, OriginsKeep, SkillsKeep, SavesKeep, QuitKeeps
           DEF vars, forgeVars, ownVars
      <4> QED
        BY <3>1, <3>4, <4>1
    <3> QED
      BY <1>2, <3>2, <3>3, <3>4, <3>5, <3>6, <3>7, Kinds DEF OfSquads
  <2> QED
    BY <2>1, <2>2 DEF Shown
<1> QED
  BY <1>1, <1>2

\* A question about a squad is asked on the list, about a squad of it.
LEMMA AskedNext == Ways /\ Shaped /\ InFront /\ Stored /\ [Next]_vars => Asked'
<1> SUFFICES ASSUME Ways, Shaped, InFront, Stored, [Next]_vars,
                    ui'.guard # Unasked, ui'.guard.about # Blank
             PROVE  squads'.mode = "list" /\ ui'.guard.about \in DOMAIN disk'.squads
  BY DEF Asked
<1>0. Asked /\ Shown /\ Lists
  BY DEF Stored, InFront
<1>1. CASE UNCHANGED <<disk, squads>> /\ ui'.guard = ui.guard
  BY <1>0, <1>1 DEF Asked
<1>2. CASE SquadsLeave
  <2>1. Quiet("squads") /\ UNCHANGED disk
    BY <1>2 DEF SquadsLeave, forgeVars
  <2>2. UNCHANGED ui => FALSE
    BY <2>1 DEF Quiet
  <2>3. ui' = GoBack => FALSE
    BY <2>1 DEF Quiet, GoBack, Ways
  <2>4. ui' = [ui EXCEPT !.guard = [asked |-> "squads", about |-> Blank]] => FALSE
    BY DEF Ways
  <2>5. \/ UNCHANGED ui \/ ui' = GoBack
        \/ ui' = [ui EXCEPT !.guard = [asked |-> "squads", about |-> Blank]]
        \/ /\ squads.mode = "list" /\ UNCHANGED squads
           /\ \E id \in DOMAIN squads.saved : ui' = [ui EXCEPT !.guard = [asked |-> "squads", about |-> id]]
    BY <1>2 DEF SquadsLeave
  <2>6. PICK id \in DOMAIN squads.saved : ui' = [ui EXCEPT !.guard = [asked |-> "squads", about |-> id]]
    BY <2>2, <2>3, <2>4, <2>5
  <2>7. ui'.guard.about = id
    BY <2>6 DEF Ways
  <2> QED
    BY <1>0, <2>1, <2>2, <2>3, <2>4, <2>5, <2>7 DEF Shown, SquadsShown, Quiet
<1>3. CASE Returns
  <2>1. PICK written \in BOOLEAN : SaveReturns(written)
    BY <1>3 DEF Returns
  <2>2. UNCHANGED ui /\ writing[Author] # Idle
    BY <2>1, Returned
  <2> QED
    BY <1>0, <2>2 DEF Lists
<1>4. CASE AnswerNo \/ ConfirmForm \/ ConfirmOrigins \/ ConfirmSkills \/ ConfirmSquads
  <2>1. CASE AnswerNo \/ ConfirmOrigins \/ ConfirmSkills
    BY <2>1 DEF AnswerNo, ConfirmOrigins, ConfirmSkills, Ways
  <2>2. CASE ConfirmForm
    BY <2>2 DEF ConfirmForm, GoBack, Ways
  <2>3. CASE ConfirmSquads
    BY <2>3 DEF ConfirmSquads, Ways
  <2> QED
    BY <1>4, <2>1, <2>2, <2>3
<1>5. CASE FormLeaves \/ OriginsLeave \/ SkillsLeave
  <2>1. ui.guard = Unasked
    BY <1>5 DEF FormLeaves, OriginsLeave, SkillsLeave, Quiet
  <2>2. CASE FormLeaves
    BY <2>1, <2>2 DEF FormLeaves, Ways
  <2>3. ui' = GoBack \/ UNCHANGED ui => FALSE
    BY <2>1 DEF GoBack, Ways
  <2>4. ASSUME NEW screen, ui' = [ui EXCEPT !.guard = [asked |-> screen, about |-> Blank]]
        PROVE  FALSE
    BY <2>4 DEF Ways
  <2>5. CASE OriginsLeave
    <3>1. \/ ui' = GoBack \/ UNCHANGED ui
          \/ ui' = [ui EXCEPT !.guard = [asked |-> "origins", about |-> Blank]]
      BY <2>5 DEF OriginsLeave
    <3> QED
      BY <2>3, <2>4, <3>1
  <2>6. CASE SkillsLeave
    <3>1. \/ ui' = GoBack \/ UNCHANGED ui
          \/ ui' = [ui EXCEPT !.guard = [asked |-> "skills", about |-> Blank]]
      BY <2>6 DEF SkillsLeave
    <3> QED
      BY <2>3, <2>4, <3>1
  <2> QED
    BY <1>5, <2>2, <2>5, <2>6
<1>6. CASE Quit \/ UNCHANGED vars \/ Saves
  <2>1. UNCHANGED <<disk, squads>> /\ ui'.guard = ui.guard
    BY <1>6, QuitKeeps, SavesKeep DEF Ways, vars, forgeVars, ownVars
  <2> QED
    BY <1>1, <2>1
<1>7. CASE \/ Enter \/ Reads \/ FormTypes \/ FormPicks \/ OriginsAdd \/ OriginsType
              \/ SkillsAdd \/ SkillsEdit \/ SkillsType \/ SkillsPick \/ SkillsRaise
              \/ SquadsBegin \/ SquadsOpen \/ SquadsType \/ AddUnit \/ TakeUnit \/ ChangeUnit
              \/ UnitPicks \/ SquadsFight \/ Fight
              \/ Toggle \/ PickerDropped \/ PickerAnswered
  <2>1. ui'.guard = ui.guard /\ ui.guard = Unasked
    <3>1. CASE Enter \/ FormTypes \/ FormPicks \/ OriginsAdd \/ OriginsType
      BY <3>1 DEF Enter, FormTypes, FormPicks, OriginsAdd, OriginsType, Quiet, Picker, Ways
    <3>2. CASE SkillsAdd \/ SkillsEdit \/ SkillsType \/ SkillsPick \/ SkillsRaise
      BY <3>2 DEF SkillsAdd, SkillsEdit, SkillsType, SkillsPick, SkillsRaise, Quiet, Picker, Raised, Ways
    <3>3. CASE SquadsBegin \/ SquadsOpen \/ SquadsType \/ AddUnit \/ TakeUnit \/ ChangeUnit
      BY <3>3 DEF SquadsBegin, SquadsOpen, SquadsType, AddUnit, TakeUnit, ChangeUnit, Quiet
    <3>4. CASE UnitPicks \/ SquadsFight \/ Fight
      BY <3>4 DEF UnitPicks, SquadsFight, Fight, Quiet, Picker, Raised, Ways
    <3>5. CASE Toggle \/ PickerDropped \/ PickerAnswered
      BY <3>5 DEF Toggle, PickerDropped, PickerAnswered, Listed, Ways
    <3>6. CASE Reads
      BY <3>6 DEF Reads, BrowseKeys, PreviewKeys, BlurbKeys, StatusesKeys, PassivesKeys, BonusesKeys,
         ElementsKeys, ChartKeys, SpeciesKeys, BuildsKeys, PlayKeys, CheckKeys, SparKeys, Keys, Quiet,
         GoBack, Raised, Ways
    <3> QED
      BY <1>7, <3>1, <3>2, <3>3, <3>4, <3>5, <3>6
  <2> QED
    BY <2>1
<1> QED
  BY <1>2, <1>3, <1>4, <1>5, <1>6, <1>7 DEF Next, Returns, Saves

\* The squad an author compares with is the one on disk.
LEMMA BaselinedNext == Ways /\ Shaped /\ InFront /\ Stored /\ [Next]_vars => Baselined'
<1> SUFFICES ASSUME Ways, Shaped, InFront, Stored, [Next]_vars PROVE Baselined'
  OBVIOUS
<1>0. Baselined /\ Shown /\ Lists /\ SquadBook(disk.squads)
  BY DEF Stored, InFront
<1>1. CASE /\ UNCHANGED disk /\ squads'.baseline = squads.baseline
           /\ squads.mode # "list"
  BY <1>0, <1>1 DEF Baselined, OnFile
<1>2. CASE squads'.mode = "list"
  BY <1>2 DEF Baselined
<1>3. CASE UNCHANGED <<disk, squads>>
  BY <1>0, <1>3 DEF Baselined, OnFile
<1>4. CASE SquadsBegin
  <2>1. squads'.baseline = NoSquad
    BY <1>4 DEF SquadsBegin, Shaped, IsSquads
  <2> QED
    BY <2>1 DEF Baselined
<1>5. CASE SquadsOpen
  <2>1. PICK id \in DOMAIN squads.saved :
          squads'.baseline = [id |-> id, name |-> squads.saved[id].name, units |-> squads.saved[id].units]
    BY <1>5 DEF SquadsOpen, Shaped, IsSquads
  <2>2. UNCHANGED disk /\ squads.saved = disk.squads
    BY <1>0, <1>5 DEF SquadsOpen, Quiet, Shown, SquadsShown, forgeVars
  <2>3. disk.squads[id] = Catalogued(disk.squads[id])
    BY <1>0, <2>1, <2>2 DEF SquadBook
  <2>4. OnFile(squads'.baseline, disk'.squads)
    BY <2>1, <2>2, <2>3 DEF OnFile, Catalogued
  <2> QED
    BY <2>4 DEF Baselined
<1>6. CASE SquadsType \/ AddUnit \/ TakeUnit \/ ChangeUnit \/ UnitPicks
  <2>1. UNCHANGED disk
    BY <1>6, SquadsKeep DEF OfSquads, forgeVars
  <2>2. squads'.baseline = squads.baseline /\ squads.mode # "list"
    <3>1. CASE SquadsType \/ AddUnit \/ TakeUnit
      BY <3>1 DEF SquadsType, AddUnit, TakeUnit, EditUnit, Shaped, IsSquads
    <3>2. CASE ChangeUnit
      BY <3>2 DEF ChangeUnit, Shaped, IsSquads
    <3>3. CASE UnitPicks
      BY <3>3 DEF UnitPicks, Commit, Shaped, IsSquads
    <3> QED
      BY <1>6, <3>1, <3>2, <3>3
  <2> QED
    BY <1>1, <2>1, <2>2
<1>7. CASE SquadsLeave
  <2>1. CASE squads.mode = "unit"
    <3>1. squads'.baseline = squads.baseline /\ UNCHANGED disk
      BY <1>7, <2>1 DEF SquadsLeave, Commit, Shaped, IsSquads, forgeVars
    <3> QED
      BY <1>1, <2>1, <3>1
  <2>2. CASE squads.mode = "list"
    BY <1>3, <1>7, <2>2 DEF SquadsLeave, forgeVars
  <2>3. CASE squads.mode = "edit"
    <3>1. UNCHANGED squads \/ squads'.mode = "list"
      BY <1>7, <2>3 DEF SquadsLeave, Refresh, ToList, Shaped, IsSquads
    <3> QED
      BY <1>2, <1>3, <1>7, <3>1 DEF SquadsLeave, forgeVars
  <2> QED
    BY <1>7, <2>1, <2>2, <2>3 DEF SquadsLeave
<1>8. CASE SquadsFight
  <2>1. squads'.mode = "list"
    BY <1>8 DEF SquadsFight, Refresh, Shaped, IsSquads
  <2> QED
    BY <1>2, <2>1
<1>9. CASE ConfirmSquads /\ ui.guard.about = Blank
  <2>1. squads'.mode = "list"
    BY <1>9 DEF ConfirmSquads, Refresh, ToList, Shaped, IsSquads
  <2> QED
    BY <1>2, <2>1
<1>10. CASE ConfirmSquads /\ ui.guard.about # Blank
  BY <1>3, <1>10, SquadDropped
<1>11. CASE Enter
  <2>1. UNCHANGED disk /\ squads'.mode = squads.mode /\ squads'.baseline = squads.baseline
    BY <1>11 DEF Enter, Refresh, Shaped, IsSquads, forgeVars
  <2> QED
    BY <1>0, <2>1 DEF Baselined, OnFile
<1>12. CASE PickerAnswered
  <2>1. Land(ui.picker.into, ui.picker.chosen) /\ UNCHANGED disk
    BY <1>12 DEF PickerAnswered, forgeVars
  <2>2. squads'.mode = squads.mode /\ squads'.baseline = squads.baseline
    BY <2>1, Lands DEF Commit, Shaped, IsSquads
  <2> QED
    BY <1>0, <2>1, <2>2 DEF Baselined, OnFile
<1>13. CASE Returns
  <2>1. PICK written \in BOOLEAN : SaveReturns(written)
    BY <1>13 DEF Returns
  <2>2. CASE ~written
    BY <1>3, <2>1, <2>2, WrittenStored, Returned
  <2>3. CASE written /\ writing[Author].file # "squads"
    <3>1. UNCHANGED squads
      BY <2>1, <2>3, Returned
    <3>2. disk'.squads = disk.squads
      BY <2>1, <2>3, WrittenStored DEF Files, Books
    <3> QED
      BY <1>0, <3>1, <3>2 DEF Baselined, OnFile
  <2>4. CASE written /\ writing[Author].file = "squads"
    <3>1. squads' = SquadsAfter(TRUE)
      BY <2>1, <2>4, Returned
    <3>2. SquadToCome(writing[Author].data) /\ disk'.squads = writing[Author].data
      BY <2>1, <2>4, WrittenStored DEF ToCome, Files, Books
    <3>3. CASE squads.mode = "edit"
      <4>1. squads'.baseline = squads.editing
        BY <3>1, <3>3 DEF SquadsAfter, Refresh, Shaped, IsSquads
      <4> QED
        BY <3>2, <3>3, <4>1 DEF Baselined, SquadToCome
    <3>4. CASE squads.mode # "edit"
      <4>1. squads'.mode = squads.mode
        BY <3>1, <3>4 DEF SquadsAfter, Refresh, Shaped, IsSquads
      <4> QED
        BY <1>2, <3>2, <3>4, <4>1 DEF SquadToCome
    <3> QED
      BY <3>3, <3>4
  <2> QED
    BY <2>2, <2>3, <2>4
<1>14. CASE ReadOnly \/ OfTheForm \/ OfOrigins \/ OfSkills \/ Saves \/ Quit \/ UNCHANGED vars
  <2>1. UNCHANGED <<disk, squads>>
    BY <1>14, ReadOnlyKeeps, FormKeeps, OriginsKeep, SkillsKeep, SavesKeep, QuitKeeps
       DEF vars, forgeVars, ownVars
  <2> QED
    BY <1>3, <2>1
<1> QED
  BY <1>4, <1>5, <1>6, <1>7, <1>8, <1>9, <1>10, <1>11, <1>12, <1>13, <1>14, Kinds DEF OfSquads

\* So every step keeps the disk, the memory and the screens together.
LEMMA StoredNext == Ways /\ Shaped /\ InFront /\ Stored /\ [Next]_vars => Stored'
<1> SUFFICES ASSUME Ways, Shaped, InFront, Stored, [Next]_vars PROVE Stored'
  OBVIOUS
<1>1. Shelved' /\ Underway'
  BY ShelvedNext
<1>2. SquadBook(disk'.squads) /\ Askable(disk'.skills)
  BY BooksNext
<1>3. IsAnswers(skills'.draft)
  BY AnswersNext
<1>4. Shown' /\ Asked' /\ Baselined'
  BY ShownNext, AskedNext, BaselinedNext
<1> QED
  BY <1>1, <1>2, <1>3, <1>4 DEF Stored

Kempt == Ways /\ Shaped /\ InFront /\ Stored

\* All of it holds at first,
LEMMA KemptInit == Init => Kempt
BY WaysInit, ShapedInit, HeldInit, StoredInit DEF Kempt

\* every step keeps it,
LEMMA KemptNext == Kempt /\ [Next]_vars => Kempt'
BY WaysNext, ShapedNext, HeldNext, StoredNext DEF Kempt

\* and it always holds.
LEMMA AlwaysKempt == Spec => []Kempt
BY KemptInit, KemptNext, PTL DEF Spec

-----------------------------------------------------------------------------
(* What the author relies on.                                              *)

\* Work nobody has saved is on the screen in front, and a question or a list is about that
\* screen (model.go, guard; the screens' Guard and touched).
THEOREM WorkNobodySavedIsInFront == Spec => []WorkIsInFront
<1>1. Kempt => WorkIsInFront
  <2> SUFFICES ASSUME Kempt PROVE WorkIsInFront
    OBVIOUS
  <2>0. /\ FormHeld /\ OriginsHeld /\ SkillsHeld /\ SquadsHeld /\ Lists
        /\ Asked
        /\ ui.guard # Unasked => ui.guard.asked = ui.screen
    BY DEF Kempt, InFront, Stored, Ways
  <2>1. InHand("new") => ui.screen = "new"
    BY <2>0 DEF InHand, FormHeld, Start
  <2>2. InHand("origins") => ui.screen = "origins"
    BY <2>0 DEF InHand, OriginsHeld
  <2>3. InHand("skills") => ui.screen = "skills"
    <3>1. InHand("skills") => FormInFront
      BY DEF InHand
    <3> QED
      BY <2>0, <3>1 DEF SkillsHeld
  <2>4. InHand("squads") => ui.screen = "squads"
    BY <2>0 DEF InHand, SquadsHeld
  <2>5. ui.guard # Unasked =>
          /\ ui.screen = ui.guard.asked
          /\ ui.guard.about # Blank => ui.guard.about \in DOMAIN disk.squads
    BY <2>0 DEF Asked
  <2>6. ui.picker # NoPicker =>
          /\ ui.screen = PickedOn[ui.picker.into]
          /\ ui.screen = "squads" => squads.mode = "unit"
    BY <2>0 DEF Lists, PickedOn
  <2> QED
    BY <2>1, <2>2, <2>3, <2>4, <2>5, <2>6 DEF WorkIsInFront
<1> QED
  BY <1>1, AlwaysKempt, PTL

\* A squad that is not asked about on the way out is on disk as it stands, and so is what
\* the lists show (squads.go, Dirty, Save, Refresh; skills.go, Refresh).
THEOREM WhatIsNotAskedAboutIsOnDisk == Spec => []CleanIsOnDisk
<1>1. Kempt => CleanIsOnDisk
  BY DEF Kempt, Stored, Baselined, Shown, SquadsShown, SkillsShown, CleanIsOnDisk, Dirty, OnFile
<1> QED
  BY <1>1, AlwaysKempt, PTL

\* The form of a new character starts over by a yes, or in the file.
LEMMA FormKept ==
    ASSUME Kempt, [Next]_vars, form.touched, ~form'.touched
    PROVE  \/ ui.guard.asked = "new"
           \/ form.draft.id \in DOMAIN disk'.characters \ DOMAIN disk.characters
<1>0. Shaped /\ Stored
  BY DEF Kempt
<1>1. \A draft : Touch(draft).touched
  BY <1>0 DEF Touch, Shaped, IsForm
<1>2. CASE FormTypes
  <2>1. \E draft : form' = Touch(draft)
    BY <1>2 DEF FormTypes
  <2> QED
    BY <1>1, <2>1
<1>3. CASE ConfirmForm
  BY <1>3 DEF ConfirmForm
<1>4. CASE PickerAnswered
  <2>1. Land(ui.picker.into, ui.picker.chosen)
    BY <1>4 DEF PickerAnswered
  <2>2. \/ \E draft : form' = [Touch(draft) EXCEPT !.follows = FALSE]
        \/ \E draft : form' = Touch(draft)
        \/ form' = form
    BY <2>1, Lands
  <2>3. \A draft : [Touch(draft) EXCEPT !.follows = FALSE].touched
    BY <1>0 DEF Touch, Shaped, IsForm
  <2> QED
    BY <1>1, <2>2, <2>3
<1>5. CASE Returns
  <2>1. PICK written \in BOOLEAN : SaveReturns(written)
    BY <1>5 DEF Returns
  <2>2. written /\ writing[Author].file = "characters"
    BY <2>1, Returned
  <2>3. CharacterToCome(writing[Author].data) /\ disk'.characters = writing[Author].data
    BY <1>0, <2>1, <2>2, WrittenStored DEF ToCome, Files, Books
  <2> QED
    BY <2>3 DEF CharacterToCome
<1>6. CASE ReadOnly \/ OfOrigins \/ OfSkills \/ OfSquads \/ Saves \/ Enter \/ ConfirmSquads \/ Quit
  <2>1. UNCHANGED form
    BY <1>6, ReadOnlyKeeps, OriginsKeep, SkillsKeep, SquadsKeep, SavesKeep, QuitKeeps
       DEF Enter, ConfirmSquads, ownVars
  <2> QED
    BY <2>1
<1> QED
  BY <1>2, <1>3, <1>4, <1>5, <1>6, Kinds DEF OfTheForm, vars, ownVars

\* And the form of an origin.
LEMMA OriginsKept ==
    ASSUME Kempt, [Next]_vars, origins.touched, ~origins'.touched
    PROVE  ui.guard.asked = "origins" \/ disk'.origins[origins.draft.id].title = origins.draft.title
<1>0. Shaped /\ Stored /\ OriginsHeld
  BY DEF Kempt, InFront
<1>1. CASE OfOrigins
  BY <1>0, <1>1 DEF OfOrigins, OriginsAdd, OriginsType, OriginsLeave, ConfirmOrigins, Shaped, IsOrigins,
     OriginsHeld
<1>2. CASE Enter
  BY <1>0, <1>2 DEF Enter, Shaped, IsOrigins
<1>3. CASE Returns
  <2>1. PICK written \in BOOLEAN : SaveReturns(written)
    BY <1>3 DEF Returns
  <2>2. written /\ writing[Author].file = "origins"
    BY <2>1, Returned
  <2>3. OriginToCome(writing[Author].data) /\ disk'.origins = writing[Author].data
    BY <1>0, <2>1, <2>2, WrittenStored DEF ToCome, Files, Books
  <2> QED
    BY <2>3 DEF OriginToCome
<1>4. CASE ReadOnly \/ OfTheForm \/ OfSkills \/ OfSquads \/ Saves \/ PickerAnswered \/ ConfirmSquads
           \/ Quit
  <2>1. UNCHANGED origins
    BY <1>4, ReadOnlyKeeps, FormKeeps, SkillsKeep, SquadsKeep, SavesKeep, QuitKeeps
       DEF PickerAnswered, ConfirmSquads, ownVars
  <2> QED
    BY <2>1
<1> QED
  BY <1>1, <1>2, <1>3, <1>4, Kinds DEF vars, ownVars

\* And the form of a skill.
LEMMA SkillsKept ==
    ASSUME Kempt, [Next]_vars, skills.touched, ~skills'.touched
    PROVE  \/ ui.guard.asked = "skills"
           \/ SkillAnswers(skills.draft.id, disk'.skills[skills.draft.id]) = skills.draft
<1>0. Shaped /\ Stored /\ SkillsHeld
  BY DEF Kempt, InFront
<1>1. \A draft : TouchSkill(draft).touched
  BY <1>0 DEF TouchSkill, Shaped, IsSkills
<1>2. CASE SkillsAdd \/ SkillsEdit
  BY <1>0, <1>2 DEF SkillsAdd, SkillsEdit, SkillsHeld
<1>3. CASE SkillsType
  <2>1. \/ \E draft : skills' = TouchSkill(draft)
        \/ skills' = [skills EXCEPT !.drawn = ~@]
        \/ skills' = [skills EXCEPT !.touched = TRUE]
    BY <1>3 DEF SkillsType
  <2> QED
    BY <1>0, <1>1, <2>1 DEF Shaped, IsSkills
<1>4. CASE SkillsLeave \/ ConfirmSkills
  BY <1>4 DEF SkillsLeave, ConfirmSkills
<1>5. CASE Enter
  BY <1>0, <1>5 DEF Enter, Shaped, IsSkills
<1>6. CASE PickerAnswered
  <2>1. Land(ui.picker.into, ui.picker.chosen)
    BY <1>6 DEF PickerAnswered
  <2>2. skills' = skills \/ \E draft : skills' = TouchSkill(draft)
    BY <2>1, Lands
  <2> QED
    BY <1>1, <2>2
<1>7. CASE Returns
  <2>1. PICK written \in BOOLEAN : SaveReturns(written)
    BY <1>7 DEF Returns
  <2>2. written /\ writing[Author].file = "skills"
    BY <2>1, Returned
  <2>3. SkillToCome(writing[Author].data) /\ disk'.skills = writing[Author].data
    BY <1>0, <2>1, <2>2, WrittenStored DEF ToCome, Files, Books
  <2> QED
    BY <2>3 DEF SkillToCome
<1>8. CASE ReadOnly \/ OfTheForm \/ OfOrigins \/ OfSquads \/ Saves \/ ConfirmSquads \/ Quit
  <2>1. UNCHANGED skills
    BY <1>8, ReadOnlyKeeps, FormKeeps, OriginsKeep, SquadsKeep, SavesKeep, QuitKeeps
       DEF ConfirmSquads, ownVars
  <2> QED
    BY <2>1
<1> QED
  BY <1>2, <1>3, <1>4, <1>5, <1>6, <1>7, <1>8, Kinds DEF OfSkills, vars, ownVars

\* And a squad in hand, unless it is as it was written down.
LEMMA SquadsKept ==
    ASSUME Kempt, [Next]_vars, squads.mode = "edit", Dirty, squads'.mode = "list"
    PROVE  ui.guard.asked = "squads"
<1>0. Shaped /\ Stored
  BY DEF Kempt
<1>1. CASE SquadsBegin \/ SquadsOpen \/ SquadsFight \/ ChangeUnit \/ UnitPicks
  BY <1>1 DEF SquadsBegin, SquadsOpen, SquadsFight, ChangeUnit, UnitPicks
<1>2. CASE SquadsType \/ AddUnit \/ TakeUnit
  BY <1>0, <1>2 DEF SquadsType, AddUnit, TakeUnit, EditUnit, Shaped, IsSquads
<1>3. CASE SquadsLeave
  BY <1>3 DEF SquadsLeave
<1>4. CASE ConfirmSquads
  BY <1>4 DEF ConfirmSquads
<1>5. CASE Enter
  BY <1>0, <1>5 DEF Enter, Refresh, Shaped, IsSquads
<1>6. CASE PickerAnswered
  <2>1. Land(ui.picker.into, ui.picker.chosen)
    BY <1>6 DEF PickerAnswered
  <2> QED
    BY <1>0, <2>1, Lands DEF Commit, Shaped, IsSquads
<1>7. CASE Returns
  <2>1. PICK written \in BOOLEAN : SaveReturns(written)
    BY <1>7 DEF Returns
  <2>2. squads' = squads \/ squads' = SquadsAfter(TRUE)
    BY <2>1, Returned
  <2> QED
    BY <1>0, <2>2 DEF SquadsAfter, Refresh, Shaped, IsSquads
<1>8. CASE ReadOnly \/ OfTheForm \/ OfOrigins \/ OfSkills \/ Saves \/ Quit
  <2>1. UNCHANGED squads
    BY <1>8, ReadOnlyKeeps, FormKeeps, OriginsKeep, SkillsKeep, SavesKeep, QuitKeeps DEF ownVars
  <2> QED
    BY <2>1
<1> QED
  BY <1>1, <1>2, <1>3, <1>4, <1>5, <1>6, <1>7, <1>8, Kinds DEF OfSquads, vars, ownVars

\* What was typed goes only by a yes to the question or into the file (form.go, skills.go,
\* origins.go, save; squads.go, Save).
THEOREM TypedWorkIsKept == Spec => WorkIsKept
<1>1. Kempt /\ [Next]_vars =>
        [/\ form.touched /\ ~form'.touched =>
                \/ ui.guard.asked = "new"
                \/ form.draft.id \in DOMAIN disk'.characters \ DOMAIN disk.characters
         /\ skills.touched /\ ~skills'.touched =>
                \/ ui.guard.asked = "skills"
                \/ SkillAnswers(skills.draft.id, disk'.skills[skills.draft.id]) = skills.draft
         /\ origins.touched /\ ~origins'.touched =>
                ui.guard.asked = "origins" \/ disk'.origins[origins.draft.id].title = origins.draft.title
         /\ squads.mode = "edit" /\ Dirty /\ squads'.mode = "list" => ui.guard.asked = "squads"]_vars
  BY FormKept, SkillsKept, OriginsKept, SquadsKept
<1> QED
  BY <1>1, AlwaysKempt, PTL DEF Spec, WorkIsKept

-----------------------------------------------------------------------------
(* No two members of a squad clash.                                        *)

\* A squad in hand: a sequence of members with every answer, apart from each other.
IsSeq(s) == \E S : s \in Seq(S)
Apart(units) ==
    \A i, j \in DOMAIN units : i # j => units[i].id # units[j].id /\ units[i].slot # units[j].slot
Fit(units) ==
    /\ IsSeq(units) /\ Len(units) <= MaxSquadSize /\ Apart(units)
    /\ \A k \in DOMAIN units : DOMAIN units[k] = Answers
\* A member that may stand at k among the others.
Free(unit, units, k) ==
    /\ DOMAIN unit = Answers
    /\ \A j \in DOMAIN units \ {k} : units[j].id # unit.id /\ units[j].slot # unit.slot

\* A squad of nobody is fit.
LEMMA FitEmpty == Fit(<<>>)
<1>1. <<>> \in Seq({}) /\ Len(<<>>) = 0 /\ DOMAIN <<>> = {}
  OBVIOUS
<1> QED
  BY <1>1, EditorAssumption DEF Fit, IsSeq, Apart

\* One more member that is free keeps a squad fit,
LEMMA FitGrows ==
    ASSUME NEW units, NEW unit, Fit(units), Len(units) < MaxSquadSize, Free(unit, units, 0)
    PROVE  LET grown == Append(units, unit) IN
           /\ Fit(grown) /\ Len(units) + 1 \in DOMAIN grown /\ grown[Len(units) + 1] = unit
           /\ Free(unit, grown, Len(units) + 1)
<1> DEFINE grown == Append(units, unit)
<1>1. PICK T : units \in Seq(T)
  BY DEF Fit, IsSeq
<1>2. units \in Seq(T \cup {unit})
  BY <1>1, SeqMonotonic
<1>3. /\ grown \in Seq(T \cup {unit}) /\ Len(grown) = Len(units) + 1
      /\ \A i \in 1..Len(units) : grown[i] = units[i]
      /\ grown[Len(units) + 1] = unit
  BY <1>2, AppendProperties
<1>4. Len(units) \in Nat /\ DOMAIN units = 1..Len(units) /\ DOMAIN grown = 1..Len(units) + 1
  BY <1>1, <1>3, LenProperties
<1> HIDE DEF grown
<1>5. \A i \in DOMAIN grown : i \in DOMAIN units \/ i = Len(units) + 1
  BY <1>4
<1>6. Len(units) + 1 \notin DOMAIN units /\ 0 \notin DOMAIN units
  BY <1>4
<1>7. IsSeq(grown) /\ Len(grown) <= MaxSquadSize
  BY <1>3, <1>4, EditorAssumption DEF IsSeq
<1>8. Apart(grown)
  BY <1>3, <1>4, <1>5, <1>6 DEF Apart, Fit, Free
<1>9. \A k \in DOMAIN grown : DOMAIN grown[k] = Answers
  BY <1>3, <1>4, <1>5 DEF Fit, Free
<1>10. Free(unit, grown, Len(units) + 1)
  BY <1>3, <1>4, <1>5, <1>6 DEF Free
<1> QED
  BY <1>3, <1>4, <1>7, <1>8, <1>9, <1>10 DEF Fit, grown

\* one fewer does,
LEMMA FitDrops ==
    ASSUME NEW units, NEW k \in DOMAIN units, Fit(units)
    PROVE  Fit(RemoveAt(units, k))
<1> DEFINE n == Len(units)
           before == SubSeq(units, 1, k - 1)
           after == SubSeq(units, k + 1, n)
           rest == before \o after
           was(i) == IF i < k THEN i ELSE i + 1
<1>1. PICK T : units \in Seq(T)
  BY DEF Fit, IsSeq
<1>2. n \in Nat /\ DOMAIN units = 1..n /\ k \in 1..n
  BY <1>1, LenProperties
<1>3. /\ before \in Seq(T) /\ Len(before) = k - 1
      /\ \A i \in 1..k - 1 : before[i] = units[i]
  <2>1. \A i \in 1..k - 1 : units[i] \in T
    BY <1>1, <1>2, ElementOfSeq
  <2> QED
    BY <1>1, <1>2, <2>1, SubSeqProperties
<1>4. /\ after \in Seq(T) /\ Len(after) = n - k
      /\ \A i \in 1..n - k : after[i] = units[k + i]
  BY <1>1, <1>2, SubSeqProperties
<1> HIDE DEF before, after
<1>5. /\ rest \in Seq(T) /\ Len(rest) = n - 1
      /\ \A i \in 1..n - 1 : rest[i] = IF i <= k - 1 THEN before[i] ELSE after[i - (k - 1)]
  <2>1. /\ rest \in Seq(T) /\ Len(rest) = Len(before) + Len(after)
        /\ \A i \in 1..Len(before) + Len(after) :
             rest[i] = IF i <= Len(before) THEN before[i] ELSE after[i - Len(before)]
    BY <1>3, <1>4, ConcatProperties
  <2>2. Len(before) + Len(after) = n - 1
    BY <1>2, <1>3, <1>4
  <2> HIDE DEF rest, n
  <2> QED
    BY <1>3, <2>1, <2>2
<1>6. DOMAIN rest = 1..n - 1
  BY <1>2, <1>5, LenProperties
<1> HIDE DEF rest
<1>7. \A i \in 1..n - 1 : was(i) \in 1..n /\ rest[i] = units[was(i)]
  <2> HIDE DEF n
  <2> TAKE i \in 1..n - 1
  <2>1. CASE i <= k - 1
    BY <1>2, <1>3, <1>5, <2>1
  <2>2. CASE i > k - 1
    <3>1. i - (k - 1) \in 1..n - k /\ k + (i - (k - 1)) = i + 1 /\ ~(i <= k - 1) /\ ~(i < k)
      BY <1>2, <2>2
    <3>2. rest[i] = after[i - (k - 1)] /\ after[i - (k - 1)] = units[k + (i - (k - 1))]
      BY <1>4, <1>5, <3>1
    <3> QED
      BY <1>2, <3>1, <3>2
  <2> QED
    BY <1>2, <2>1, <2>2
<1>8. \A i, j \in 1..n - 1 : was(i) = was(j) => i = j
  BY <1>2
<1> HIDE DEF was, n
<1>9. Apart(rest)
  BY <1>2, <1>6, <1>7, <1>8 DEF Apart, Fit
<1>10. \A i \in DOMAIN rest : DOMAIN rest[i] = Answers
  BY <1>2, <1>6, <1>7 DEF Fit
<1>11. Len(rest) <= MaxSquadSize
  BY <1>2, <1>5, EditorAssumption DEF Fit, n
<1> QED
  BY <1>5, <1>9, <1>10, <1>11 DEF Fit, IsSeq, RemoveAt, rest, before, after, n

\* and one changed for another that is free.
LEMMA FitChanges ==
    ASSUME NEW units, NEW k \in DOMAIN units, NEW unit, Fit(units), Free(unit, units, k)
    PROVE  LET changed == [units EXCEPT ![k] = unit] IN
           Fit(changed) /\ k \in DOMAIN changed /\ Free(unit, changed, k)
<1> DEFINE changed == [units EXCEPT ![k] = unit]
<1>1. PICK T : units \in Seq(T)
  BY DEF Fit, IsSeq
<1>2. units \in Seq(T \cup {unit})
  BY <1>1, SeqMonotonic
<1>3. changed \in Seq(T \cup {unit}) /\ Len(changed) = Len(units)
  BY <1>2
<1>4. DOMAIN changed = DOMAIN units /\ \A j \in DOMAIN units : changed[j] = IF j = k THEN unit ELSE units[j]
  OBVIOUS
<1> HIDE DEF changed
<1>5. Apart(changed)
  BY <1>4 DEF Apart, Fit, Free
<1>6. (\A j \in DOMAIN changed : DOMAIN changed[j] = Answers) /\ Free(unit, changed, k)
  BY <1>4 DEF Fit, Free
<1> QED
  BY <1>3, <1>4, <1>5, <1>6 DEF Fit, IsSeq, changed

\* A set of numbers has a least one.
LEMMA Least == ASSUME NEW T, T \subseteq Nat, T # {} PROVE \E n \in T : \A m \in T : n <= m
<1> DEFINE R == {pair \in Nat \X Nat : pair[1] < pair[2]}
<1>1. IsWellFoundedOn(R, Nat)
  BY NatLessThanWellFounded DEF OpToRel
<1> HIDE DEF R
<1>2. \E x \in T : \A y \in T : ~ (<<y, x>> \in R)
  BY <1>1, WFMin
<1>3. \A x, y \in Nat : ~(<<y, x>> \in R) => x <= y
  BY DEF R
<1> QED
  BY <1>2, <1>3

Characters == DOMAIN Shipped.characters \cup TypedIds \cup {Blank}
\* An id is found for a member, in a squad with room for it.
LEMMA FreeIDIsFree ==
    ASSUME NEW character \in Characters, NEW k, Fit(squads.editing.units),
           k \in DOMAIN squads.editing.units \/ Len(squads.editing.units) < MaxSquadSize
    PROVE  FreeID(character, k) \notin {unit.id : unit \in Others(k)}
<1> DEFINE units == squads.editing.units
           rest == DOMAIN units \ {k}
           taken == {unit.id : unit \in Others(k)}
           tries == 2..MaxSquadSize + 1
           numbered == {n \in tries : Nth(character, n) \notin taken}
           least == CHOOSE n \in numbered : \A other \in numbered : n <= other
<1>1. taken = {units[j].id : j \in rest}
  BY DEF Others
<1>2. IsFiniteSet(rest) /\ Cardinality(rest) < MaxSquadSize
  <2>1. PICK T : units \in Seq(T)
    BY DEF Fit, IsSeq
  <2>2. DOMAIN units = 1..Len(units) /\ Len(units) \in Nat /\ Len(units) <= MaxSquadSize
    BY <2>1, LenProperties DEF Fit
  <2>3. IsFiniteSet(DOMAIN units) /\ Cardinality(DOMAIN units) = Len(units)
    BY <2>2, FS_Interval
  <2>4. /\ IsFiniteSet(rest)
        /\ Cardinality(rest) = IF k \in DOMAIN units THEN Cardinality(DOMAIN units) - 1
                               ELSE Cardinality(DOMAIN units)
    BY <2>3, FS_RemoveElement
  <2> HIDE DEF rest
  <2> QED
    BY <2>2, <2>3, <2>4, EditorAssumption
<1>3. IsFiniteSet(tries) /\ Cardinality(tries) = MaxSquadSize
  BY EditorAssumption, FS_Interval
<1>4. numbered # {}
  <2> SUFFICES ASSUME \A n \in tries : Nth(character, n) \in taken PROVE FALSE
    OBVIOUS
  <2> DEFINE f == [n \in tries |-> CHOOSE j \in rest : units[j].id = Nth(character, n)]
  <2>1. \A n \in tries : f[n] \in rest /\ units[f[n]].id = Nth(character, n)
    <3> TAKE n \in tries
    <3>1. \E j \in rest : units[j].id = Nth(character, n)
      BY <1>1
    <3> QED
      BY <3>1
  <2>2. f \in [tries -> rest]
    BY <2>1
  <2> HIDE DEF f, rest, tries
  <2>3. PICK m, n \in tries : m # n /\ f[m] = f[n]
    BY <1>2, <1>3, <2>2, FS_PigeonHole
  <2>4. Nth(character, m) = Nth(character, n)
    BY <2>1, <2>3
  <2> QED
    BY <2>3, <2>4, EditorAssumption DEF tries, Characters
<1>5. \E n \in numbered : \A other \in numbered : n <= other
  <2>1. numbered \subseteq Nat
    OBVIOUS
  <2> HIDE DEF numbered
  <2> QED
    BY <1>4, <2>1, Least
<1>6. Nth(character, least) \notin taken
  <2>1. least \in numbered
    BY <1>5
  <2> QED
    BY <2>1
<1>7. FreeID(character, k) = IF character \notin taken THEN character ELSE Nth(character, least)
  BY DEF FreeID
<1> HIDE DEF taken, least
<1>8. FreeID(character, k) \notin taken
  BY <1>6, <1>7
<1> QED
  BY <1>8 DEF taken

\* The members in hand, on disk, and about to be.
IsSquad(squad) == squad = [id |-> squad.id, name |-> squad.name, units |-> squad.units]
FitBook(book) == \A id \in DOMAIN book : Fit(book[id].units)
HandFits == IsSquad(squads.editing) /\ Fit(squads.editing.units)
UnitFits ==
    squads.mode = "unit" =>
        /\ squads.index \in DOMAIN squads.editing.units
        /\ Free(squads.unit, squads.editing.units, squads.index)
DraftNamed == "id" \in DOMAIN form.draft /\ form.draft.id \in TypedIds \cup {Blank}
CastKnown == DOMAIN disk.characters \subseteq Characters
Offering == DOMAIN squads.characters \subseteq Characters
FitsToCome ==
    writing[Author] # Idle =>
        /\ writing[Author].file = "squads" => FitBook(writing[Author].data)
        /\ writing[Author].file = "characters" => DOMAIN writing[Author].data \subseteq Characters
Crew ==
    HandFits /\ UnitFits /\ FitBook(disk.squads) /\ DraftNamed /\ CastKnown /\ Offering /\ FitsToCome

\* What is shipped has no two members that clash.
LEMMA CrewInit == Init => Crew
<1> SUFFICES ASSUME Init PROVE Crew
  OBVIOUS
<1>1. Author \in Sessions /\ disk = Shipped /\ Known = Library(TRUE, disk)
  BY EditorAssumption DEF Init, Known
<1>2. Known.characters = disk.characters
  BY <1>1, LibraryIs DEF Books
<1>3. FitBook(disk.squads)
  <2> SUFFICES ASSUME NEW id \in DOMAIN Shipped.squads PROVE Fit(Shipped.squads[id].units)
    BY <1>1 DEF FitBook
  <2> DEFINE units == Shipped.squads[id].units
  <2>1. Answered(units)
    BY EditorAssumption
  <2>2. ValidUnits(units)
    BY ForgeAssumption DEF Loads, ParsesSquads
  <2> HIDE DEF units
  <2>3. IsSeq(units) /\ \A k \in DOMAIN units : DOMAIN units[k] = Answers
    BY <2>1 DEF Answered, IsSeq
  <2>4. Apart(units)
    BY <2>2 DEF ValidUnits, Apart
  <2>5. Len(units) <= MaxSquadSize
    BY <2>2, EditorAssumption DEF ValidUnits
  <2> QED
    BY <2>3, <2>4, <2>5 DEF Fit, units
<1>4. HandFits /\ UnitFits
  BY FitEmpty DEF Init, NewSquads, NoSquad, HandFits, UnitFits, IsSquad
<1>5. DraftNamed
  BY DEF Init, NewFormScreen, StartOf, DraftNamed
<1>6. CastKnown /\ Offering
  BY <1>1, <1>2 DEF Init, NewSquads, CastKnown, Offering, Characters
<1>7. FitsToCome
  BY <1>1 DEF Init, FitsToCome
<1> QED
  BY <1>3, <1>4, <1>5, <1>6, <1>7 DEF Crew

\* A new character is called what was typed.
LEMMA DraftNamedNext == Shaped /\ DraftNamed /\ [Next]_vars => DraftNamed'
<1> SUFFICES ASSUME Shaped, DraftNamed, [Next]_vars PROVE DraftNamed'
  OBVIOUS
<1> DEFINE Named(draft) == "id" \in DOMAIN draft /\ draft.id \in TypedIds \cup {Blank}
<1>0. DraftNamed' <=> Named(form'.draft)
  BY DEF DraftNamed
<1>1. Named(form.draft) /\ \A draft : Touch(draft).draft = draft
  BY DEF DraftNamed, Touch, Shaped, IsForm
<1>2. \A books : Named(NewFormScreen(books).draft)
  BY DEF NewFormScreen, StartOf
<1>3. CASE FormTypes
  <2>1. PICK draft : Named(draft) /\ form' = Touch(draft)
    BY <1>1, <1>3 DEF FormTypes
  <2> QED
    BY <1>0, <1>1, <2>1
<1>4. CASE ConfirmForm
  BY <1>0, <1>2, <1>4 DEF ConfirmForm
<1>5. CASE PickerAnswered
  <2>1. Land(ui.picker.into, ui.picker.chosen)
    BY <1>5 DEF PickerAnswered
  <2>2. PICK draft : /\ Named(draft)
                     /\ \/ form' = [Touch(draft) EXCEPT !.follows = FALSE]
                        \/ form' = Touch(draft) \/ form' = form
    BY <1>1, <2>1, Lands
  <2>3. \A other : [Touch(other) EXCEPT !.follows = FALSE].draft = other
    BY DEF Touch, Shaped, IsForm
  <2> QED
    BY <1>0, <1>1, <2>2, <2>3
<1>6. CASE Returns
  <2>1. PICK written \in BOOLEAN : SaveReturns(written)
    BY <1>6 DEF Returns
  <2>2. form' = form \/ form' = NewFormScreen(lib'[Author])
    BY <2>1, Returned
  <2> QED
    BY <1>0, <1>1, <1>2, <2>2
<1>7. CASE ReadOnly \/ OfOrigins \/ OfSkills \/ OfSquads \/ Saves \/ Enter \/ ConfirmSquads \/ Quit
  <2>1. UNCHANGED form
    BY <1>7, ReadOnlyKeeps, OriginsKeep, SkillsKeep, SquadsKeep, SavesKeep, QuitKeeps
       DEF Enter, ConfirmSquads, ownVars
  <2> QED
    BY <1>0, <1>1, <2>1
<1> QED
  BY <1>0, <1>1, <1>3, <1>4, <1>5, <1>6, <1>7, Kinds DEF OfTheForm, vars, ownVars

\* A book of fit squads with one more is one.
LEMMA FitBookGrows ==
    ASSUME NEW book, NEW id, NEW entry, FitBook(book), Fit(entry.units)
    PROVE  FitBook(With(book, id, entry))
BY DEF FitBook, With

\* A save that begins will write squads and characters like those.
LEMMA SaveFits == Kempt /\ Crew /\ Saves => FitsToCome'
<1> SUFFICES ASSUME Kempt, Crew, Saves PROVE FitsToCome'
  OBVIOUS
<1>0. Shelved /\ FitsToCome /\ CastKnown /\ HandFits /\ FitBook(disk.squads) /\ DraftNamed
  BY DEF Kempt, Stored, Crew
<1>1. CASE UNCHANGED vars
  BY <1>0, <1>1 DEF FitsToCome, FitBook, vars, forgeVars
<1>2. ui.running
  BY AtRest
<1>3. CASE FormSaves
  <2>1. AddsCharacter(Author, form.draft) \/ UNCHANGED vars
    BY <1>3 DEF FormSaves
  <2>2. CASE AddsCharacter(Author, form.draft)
    <3>1. Grows(Author, "characters", form.draft.id, Built(form.draft, lib[Author]))
      BY <2>2 DEF AddsCharacter
    <3>2. /\ writing'[Author].file = "characters"
          /\ writing'[Author].data = With(disk.characters, form.draft.id, Built(form.draft, lib[Author]))
      BY <1>0, <1>2, <3>1, GrowsInMemory DEF Books
    <3>3. DOMAIN writing'[Author].data \subseteq Characters
      BY <1>0, <3>2 DEF With, CastKnown, DraftNamed, Characters
    <3> QED
      BY <3>2, <3>3 DEF FitsToCome
  <2> QED
    BY <1>1, <2>1, <2>2
<1>4. CASE OriginsSave
  <2>1. AddsOrigin(Author, origins.draft) \/ UNCHANGED vars
    BY <1>4 DEF OriginsSave
  <2>2. CASE AddsOrigin(Author, origins.draft)
    <3>1. writing'[Author].file = "origins"
      BY <1>0, <1>2, <2>2, GrowsInMemory DEF AddsOrigin, Books
    <3> QED
      BY <3>1 DEF FitsToCome
  <2> QED
    BY <1>1, <2>1, <2>2
<1>5. CASE SkillsSave
  <2>1. AddsSkill(Author, skills.draft) \/ EditsSkill(Author, skills.draft) \/ UNCHANGED vars
    BY <1>5 DEF SkillsSave
  <2>2. CASE AddsSkill(Author, skills.draft)
    <3>1. writing'[Author].file = "skills"
      BY <1>0, <1>2, <2>2, GrowsInMemory DEF AddsSkill, Books
    <3> QED
      BY <3>1 DEF FitsToCome
  <2>3. CASE EditsSkill(Author, skills.draft)
    <3>1. UNCHANGED writing \/ writing'[Author].file = "skills"
      BY <1>0, <1>2, <2>3, EditsInMemory
    <3> QED
      BY <1>0, <3>1 DEF FitsToCome, FitBook
  <2> QED
    BY <1>1, <2>1, <2>2, <2>3
<1>6. CASE SquadsSave
  <2>1. KeepsSquad(Author, squads.editing) \/ UNCHANGED vars
    BY <1>6 DEF SquadsSave
  <2>2. CASE KeepsSquad(Author, squads.editing)
    <3> DEFINE entry == [name |-> squads.editing.name, units |-> squads.editing.units]
    <3>1. Grows(Author, "squads", squads.editing.id, entry)
      BY <2>2 DEF KeepsSquad
    <3>2. Fit(entry.units)
      BY <1>0 DEF HandFits
    <3> HIDE DEF entry
    <3>3. /\ writing'[Author].file = "squads"
          /\ writing'[Author].data = With(disk.squads, squads.editing.id, entry)
      BY <1>0, <1>2, <3>1, GrowsInMemory DEF Books
    <3>4. FitBook(writing'[Author].data)
      BY <1>0, <3>2, <3>3, FitBookGrows
    <3> QED
      BY <3>3, <3>4 DEF FitsToCome, FitBook
  <2> QED
    BY <1>1, <2>1, <2>2
<1> QED
  BY <1>3, <1>4, <1>5, <1>6 DEF Saves

\* The files keep to it.
LEMMA BooksFit == Kempt /\ Crew /\ [Next]_vars => FitBook(disk.squads)' /\ CastKnown' /\ FitsToCome'
<1> SUFFICES ASSUME Kempt, Crew, [Next]_vars PROVE FitBook(disk.squads)' /\ CastKnown' /\ FitsToCome'
  OBVIOUS
<1>0. Stored /\ Shelved /\ FitBook(disk.squads) /\ CastKnown /\ FitsToCome
  BY DEF Kempt, Stored, Crew
<1>1. UNCHANGED disk => FitBook(disk.squads)' /\ CastKnown'
  BY <1>0 DEF FitBook, CastKnown
<1>2. UNCHANGED writing => FitsToCome'
  BY <1>0 DEF FitsToCome, FitBook
<1>3. CASE OnScreen \/ UNCHANGED vars
  <2>1. UNCHANGED <<disk, writing>>
    BY <1>3, OnScreenKeeps DEF forgeVars, vars
  <2> QED
    BY <1>1, <1>2, <2>1
<1>4. CASE Saves
  BY <1>1, <1>4, SavesKeep, SaveFits
<1>5. CASE Quit
  <2>1. UNCHANGED disk /\ writing'[Author] = Idle
    BY <1>0, <1>5, EditorAssumption DEF Quit, Stop, Shelved
  <2> QED
    BY <1>1, <2>1 DEF FitsToCome
<1>6. CASE ConfirmSquads /\ ui.guard.about # Blank
  <2>1. /\ UNCHANGED disk /\ writing'[Author].file = "squads"
        /\ writing'[Author].data = Kept(disk.squads, ui.guard.about)
    <3>1. DropsSquad(Author, ui.guard.about) /\ ui.running
      BY <1>6 DEF ConfirmSquads, Unanswered
    <3> QED
      BY <1>0, <3>1, DropsInMemory
  <2>2. FitBook(writing'[Author].data)
    BY <1>0, <2>1 DEF Kept, FitBook
  <2> QED
    BY <1>1, <2>1, <2>2 DEF FitsToCome, FitBook
<1>7. CASE Returns
  <2>1. PICK written \in BOOLEAN : SaveReturns(written)
    BY <1>7 DEF Returns
  <2>2. writing'[Author] = Idle /\ writing[Author] # Idle
    BY <1>0, <2>1, WrittenStored, Returned
  <2>3. CASE ~written
    BY <1>0, <1>1, <2>1, <2>2, <2>3, WrittenStored DEF FitsToCome
  <2>4. CASE written
    <3>1. \A file \in Files : disk'[file] = IF file = writing[Author].file THEN writing[Author].data
                                            ELSE disk[file]
      BY <1>0, <2>1, <2>4, WrittenStored
    <3>2. "squads" \in Files /\ "characters" \in Files
      BY DEF Files, Books
    <3>3. FitBook(disk'.squads)
      BY <1>0, <2>2, <3>1, <3>2 DEF FitsToCome
    <3>4. DOMAIN disk'.characters \subseteq Characters
      BY <1>0, <2>2, <3>1, <3>2 DEF FitsToCome, CastKnown
    <3> QED
      BY <2>2, <3>3, <3>4 DEF FitsToCome, FitBook, CastKnown
  <2> QED
    BY <2>3, <2>4
<1> QED
  BY <1>3, <1>4, <1>5, <1>6, <1>7, Sorts

\* A member written back.
LEMMA Committed ==
    ASSUME Shaped, HandFits, UnitFits, squads.mode = "unit", NEW unit,
           Free(unit, squads.editing.units, squads.index),
           NEW screen, screen = Commit([squads EXCEPT !.unit = unit])
    PROVE  /\ screen.editing.units = [squads.editing.units EXCEPT ![squads.index] = unit]
           /\ IsSquad(screen.editing) /\ Fit(screen.editing.units)
           /\ screen.mode = "unit" /\ screen.index = squads.index /\ screen.unit = unit
           /\ screen.characters = squads.characters
           /\ squads.index \in DOMAIN screen.editing.units
           /\ Free(unit, screen.editing.units, squads.index)
<1> DEFINE units == squads.editing.units
           changed == [units EXCEPT ![squads.index] = unit]
<1>1. squads.index \in DOMAIN units /\ Fit(units)
  BY DEF HandFits, UnitFits
<1>2. Fit(changed) /\ squads.index \in DOMAIN changed /\ Free(unit, changed, squads.index)
  BY <1>1, FitChanges
<1>3. screen = [squads EXCEPT !.unit = unit, !.editing.units = changed]
  BY DEF Commit, Shaped, IsSquads
<1> HIDE DEF changed
<1>4. /\ screen.editing = [squads.editing EXCEPT !.units = changed]
      /\ screen.mode = "unit" /\ screen.index = squads.index /\ screen.unit = unit
      /\ screen.characters = squads.characters
  BY <1>3 DEF Shaped, IsSquads
<1>5. screen.editing.units = changed /\ IsSquad(screen.editing)
  BY <1>4 DEF HandFits, IsSquad
<1> QED
  BY <1>2, <1>4, <1>5 DEF changed

\* And so nothing clashes after it.
LEMMA CommitFits ==
    ASSUME Shaped, HandFits, UnitFits, Offering, squads.mode = "unit", NEW unit,
           Free(unit, squads.editing.units, squads.index),
           squads' = Commit([squads EXCEPT !.unit = unit])
    PROVE  HandFits' /\ UnitFits' /\ Offering'
<1>1. /\ IsSquad(squads'.editing) /\ Fit(squads'.editing.units)
      /\ squads'.index = squads.index /\ squads'.unit = unit
      /\ squads'.characters = squads.characters
      /\ squads.index \in DOMAIN squads'.editing.units
      /\ Free(unit, squads'.editing.units, squads.index)
  BY Committed
<1>2. HandFits' <=> IsSquad(squads'.editing) /\ Fit(squads'.editing.units)
  BY DEF HandFits, IsSquad
<1>3. UnitFits'
  BY <1>1 DEF UnitFits
<1> QED
  BY <1>1, <1>2, <1>3 DEF Offering

\* The ids and the cells that are offered are free.
LEMMA Offers ==
    ASSUME HandFits, Offering, NEW k,
           k \in DOMAIN squads.editing.units \/ Len(squads.editing.units) < MaxSquadSize
    PROVE  /\ \A keep : \A character \in OfferedCharacters(keep) :
                \A j \in DOMAIN squads.editing.units \ {k} :
                   squads.editing.units[j].id # FreeID(character, k)
           /\ \A slot \in FreeSlots(k) :
                \A j \in DOMAIN squads.editing.units \ {k} : squads.editing.units[j].slot # slot
<1>1. \A keep : OfferedCharacters(keep) \subseteq Characters
  BY DEF OfferedCharacters, Offering
<1>2. \A character \in Characters : FreeID(character, k) \notin {unit.id : unit \in Others(k)}
  BY FreeIDIsFree DEF HandFits
<1>3. \A j \in DOMAIN squads.editing.units \ {k} : squads.editing.units[j] \in Others(k)
  BY DEF Others
<1>4. \A slot \in FreeSlots(k) : slot \notin {unit.slot : unit \in Others(k)}
  BY DEF FreeSlots
<1>5. ASSUME NEW keep, NEW character \in OfferedCharacters(keep),
             NEW j \in DOMAIN squads.editing.units \ {k}
      PROVE  squads.editing.units[j].id # FreeID(character, k)
  BY <1>1, <1>2, <1>3
<1> QED
  BY <1>3, <1>4, <1>5

\* A squad begun, opened, or named.
LEMMA SquadOpened ==
    ASSUME Kempt, Crew, SquadsBegin \/ SquadsOpen \/ SquadsType
    PROVE  HandFits' /\ UnitFits' /\ Offering'
<1>0. /\ Shaped /\ Shown /\ HandFits /\ Offering /\ FitBook(disk.squads)
  BY DEF Kempt, Stored, Crew
<1>1. CASE SquadsBegin
  <2>1. /\ squads'.editing = NoSquad /\ squads'.mode = "edit"
        /\ squads'.characters = squads.characters
    BY <1>0, <1>1 DEF SquadsBegin, Shaped, IsSquads
  <2>2. IsSquad(NoSquad) /\ Fit(NoSquad.units)
    BY FitEmpty DEF NoSquad, IsSquad
  <2> QED
    BY <1>0, <2>1, <2>2 DEF HandFits, UnitFits, Offering
<1>2. CASE SquadsOpen
  <2>1. PICK id \in DOMAIN squads.saved :
          LET squad == [id |-> id, name |-> squads.saved[id].name, units |-> squads.saved[id].units] IN
          squads' = [squads EXCEPT !.mode = "edit", !.editing = squad, !.baseline = squad,
                                   !.editingID = FALSE]
    BY <1>2 DEF SquadsOpen
  <2>2. /\ squads'.editing = [id |-> id, name |-> squads.saved[id].name, units |-> squads.saved[id].units]
        /\ squads'.mode = "edit" /\ squads'.characters = squads.characters
    BY <1>0, <2>1 DEF Shaped, IsSquads
  <2>3. squads.saved = disk.squads
    BY <1>0, <1>2 DEF SquadsOpen, Quiet, Shown, SquadsShown
  <2>4. Fit(squads.saved[id].units)
    BY <1>0, <2>3 DEF FitBook
  <2> QED
    BY <1>0, <2>2, <2>4 DEF HandFits, UnitFits, IsSquad, Offering
<1>3. CASE SquadsType
  <2>1. PICK squad : /\ squad.units = squads.editing.units /\ IsSquad(squad)
                     /\ squads'.editing = squad /\ squads'.mode = squads.mode
                     /\ squads'.characters = squads.characters
    <3>1. CASE \E id \in TypedIds : squads' = [squads EXCEPT !.editing.id = id]
      <4>1. PICK id \in TypedIds : squads' = [squads EXCEPT !.editing.id = id]
        BY <3>1
      <4>2. squads'.editing = [squads.editing EXCEPT !.id = id] /\ squads'.mode = squads.mode
            /\ squads'.characters = squads.characters
        BY <1>0, <4>1 DEF Shaped, IsSquads
      <4> QED
        BY <1>0, <4>2 DEF HandFits, IsSquad
    <3>2. CASE \E name \in TypedTitles : squads' = [squads EXCEPT !.editing.name = name]
      <4>1. PICK name \in TypedTitles : squads' = [squads EXCEPT !.editing.name = name]
        BY <3>2
      <4>2. squads'.editing = [squads.editing EXCEPT !.name = name] /\ squads'.mode = squads.mode
            /\ squads'.characters = squads.characters
        BY <1>0, <4>1 DEF Shaped, IsSquads
      <4> QED
        BY <1>0, <4>2 DEF HandFits, IsSquad
    <3>3. CASE squads' = [squads EXCEPT !.editingID = ~@ /\ FreshSquad]
      <4>1. squads'.editing = squads.editing /\ squads'.mode = squads.mode
            /\ squads'.characters = squads.characters
        BY <1>0, <3>3 DEF Shaped, IsSquads
      <4> QED
        BY <1>0, <4>1 DEF HandFits
    <3> QED
      BY <1>3, <3>1, <3>2, <3>3 DEF SquadsType
  <2>2. squads.mode = "edit"
    BY <1>3 DEF SquadsType
  <2> QED
    BY <1>0, <2>1, <2>2 DEF HandFits, UnitFits, IsSquad, Offering
<1> QED
  BY <1>1, <1>2, <1>3

\* A member added, taken in hand or dropped.
LEMMA UnitTaken ==
    ASSUME Kempt, Crew, AddUnit \/ TakeUnit
    PROVE  HandFits' /\ UnitFits' /\ Offering'
<1>0. Shaped /\ HandFits /\ Offering
  BY DEF Kempt, Crew
<1> DEFINE units == squads.editing.units
<1>1. CASE AddUnit
  <2>1. Len(units) < MaxSquadSize
    BY <1>1 DEF AddUnit
  <2>2. PICK character \in OfferedCharacters(Blank), slot \in FreeSlots(0) :
          LET unit == [id |-> FreeID(character, 0), character |-> character, level |-> LevelCap,
                       stage |-> Blank, slot |-> slot, skills |-> <<>>, passives |-> <<>>]
          IN  squads' = EditUnit([squads EXCEPT !.editing.units = Append(@, unit)], Len(units) + 1)
    BY <1>1 DEF AddUnit
  <2> DEFINE unit == [id |-> FreeID(character, 0), character |-> character, level |-> LevelCap,
                      stage |-> Blank, slot |-> slot, skills |-> <<>>, passives |-> <<>>]
             grown == Append(units, unit)
  <2>3. Free(unit, units, 0)
    <3>1. DOMAIN unit = Answers
      BY DEF Answers
    <3>2. \A j \in DOMAIN units \ {0} : units[j].id # unit.id /\ units[j].slot # unit.slot
      BY <1>0, <2>1, Offers
    <3> QED
      BY <3>1, <3>2 DEF Free
  <2>4. squads' = EditUnit([squads EXCEPT !.editing.units = grown], Len(units) + 1)
    BY <2>2
  <2> HIDE DEF unit, grown
  <2>5. /\ Fit(grown) /\ Len(units) + 1 \in DOMAIN grown /\ grown[Len(units) + 1] = unit
        /\ Free(unit, grown, Len(units) + 1)
    BY <1>0, <2>1, <2>3, FitGrows DEF HandFits, grown
  <2>6. /\ squads'.editing = [squads.editing EXCEPT !.units = grown]
        /\ squads'.index = Len(units) + 1
        /\ squads'.characters = squads.characters
    BY <1>0, <2>4 DEF EditUnit, Shaped, IsSquads
  <2>7. squads'.editing.units = grown /\ IsSquad(squads'.editing)
    BY <1>0, <2>6 DEF HandFits, IsSquad
  <2>8. squads'.unit = squads'.editing.units[Len(units) + 1]
    BY <1>0, <2>4 DEF EditUnit, Shaped, IsSquads
  <2> QED
    BY <1>0, <2>5, <2>6, <2>7, <2>8 DEF HandFits, UnitFits, IsSquad, Offering
<1>2. CASE TakeUnit
  <2>1. PICK k \in DOMAIN units :
          \/ squads' = EditUnit(squads, k)
          \/ squads' = [squads EXCEPT !.editing.units = RemoveAt(units, k)]
    BY <1>2 DEF TakeUnit
  <2>2. CASE squads' = EditUnit(squads, k)
    <3>1. /\ squads'.editing = squads.editing /\ squads'.index = k /\ squads'.unit = units[k]
          /\ squads'.characters = squads.characters
      BY <1>0, <2>2 DEF EditUnit, Shaped, IsSquads
    <3>2. Free(units[k], units, k)
      BY <1>0 DEF HandFits, Fit, Apart, Free
    <3> QED
      BY <1>0, <3>1, <3>2 DEF HandFits, UnitFits, IsSquad, Offering
  <2>3. CASE squads' = [squads EXCEPT !.editing.units = RemoveAt(units, k)]
    <3> DEFINE rest == RemoveAt(units, k)
    <3>1. Fit(rest)
      BY <1>0, FitDrops DEF HandFits
    <3> HIDE DEF rest
    <3>2. /\ squads'.editing = [squads.editing EXCEPT !.units = rest]
          /\ squads'.mode = squads.mode /\ squads'.characters = squads.characters
      BY <1>0, <2>3 DEF Shaped, IsSquads, rest
    <3>3. squads'.editing.units = rest /\ IsSquad(squads'.editing)
      BY <1>0, <3>2 DEF HandFits, IsSquad
    <3>4. squads.mode = "edit"
      BY <1>2 DEF TakeUnit
    <3> QED
      BY <1>0, <3>1, <3>2, <3>3, <3>4 DEF HandFits, UnitFits, IsSquad, Offering
  <2> QED
    BY <2>1, <2>2, <2>3
<1> QED
  BY <1>1, <1>2

\* A member changed, or a list raised over it.
LEMMA UnitChanged ==
    ASSUME Kempt, Crew, ChangeUnit \/ UnitPicks
    PROVE  HandFits' /\ UnitFits' /\ Offering'
<1>0. Shaped /\ HandFits /\ UnitFits /\ Offering /\ squads.mode = "unit"
  BY DEF Kempt, Crew, ChangeUnit, UnitPicks
<1> DEFINE unit == squads.unit
           units == squads.editing.units
           k == squads.index
<1>1. k \in DOMAIN units /\ Free(unit, units, k)
  BY <1>0 DEF UnitFits
<1>2. CASE ChangeUnit
  <2>1. ASSUME NEW changed, Free(changed, units, k), squads' = [squads EXCEPT !.unit = changed]
        PROVE  HandFits' /\ UnitFits' /\ Offering'
    <3>1. /\ squads'.editing = squads.editing /\ squads'.index = k /\ squads'.unit = changed
          /\ squads'.characters = squads.characters
      BY <1>0, <2>1 DEF Shaped, IsSquads
    <3> QED
      BY <1>0, <1>1, <2>1, <3>1 DEF HandFits, UnitFits, IsSquad, Offering
  <2>2. ASSUME NEW one, Free(one, units, k) PROVE Free(Bare(one), units, k) /\ Free(SettleStage(one), units, k)
    <3>1. /\ DOMAIN Bare(one) = DOMAIN one /\ Bare(one).id = one.id /\ Bare(one).slot = one.slot
      BY DEF Bare
    <3>2. /\ DOMAIN SettleStage(one) = DOMAIN one /\ SettleStage(one).id = one.id
          /\ SettleStage(one).slot = one.slot
      BY DEF SettleStage
    <3> QED
      BY <2>2, <3>1, <3>2 DEF Free
  <2>3. CASE \E character \in OfferedCharacters(squads.openedAs) :
               squads' = [squads EXCEPT !.unit = SettleStage(Bare(
                   [unit EXCEPT !.character = character, !.id = FreeID(character, k)]))]
    <3>1. PICK character \in OfferedCharacters(squads.openedAs) :
               squads' = [squads EXCEPT !.unit = SettleStage(Bare(
                   [unit EXCEPT !.character = character, !.id = FreeID(character, k)]))]
      BY <2>3
    <3> DEFINE one == [unit EXCEPT !.character = character, !.id = FreeID(character, k)]
    <3>2. \A j \in DOMAIN units \ {k} : units[j].id # FreeID(character, k)
      BY <1>0, <1>1, Offers
    <3>3. DOMAIN one = Answers /\ one.id = FreeID(character, k) /\ one.slot = unit.slot
      BY <1>1 DEF Free, Answers
    <3> HIDE DEF one
    <3>4. Free(one, units, k)
      BY <1>1, <3>2, <3>3 DEF Free
    <3>5. squads' = [squads EXCEPT !.unit = SettleStage(Bare(one))]
      BY <3>1 DEF one
    <3> QED
      BY <2>1, <2>2, <3>4, <3>5
  <2>4. CASE \E stage \in StageChoices(unit) :
               squads' = [squads EXCEPT !.unit = Bare([unit EXCEPT !.stage = stage])]
    <3>1. PICK stage \in StageChoices(unit) :
               squads' = [squads EXCEPT !.unit = Bare([unit EXCEPT !.stage = stage])]
      BY <2>4
    <3> DEFINE one == [unit EXCEPT !.stage = stage]
    <3>2. Free(one, units, k)
      BY <1>1 DEF Free
    <3> HIDE DEF one
    <3>3. squads' = [squads EXCEPT !.unit = Bare(one)]
      BY <3>1 DEF one
    <3> QED
      BY <2>1, <2>2, <3>2, <3>3
  <2>5. CASE \E slot \in FreeSlots(k) : squads' = [squads EXCEPT !.unit = [unit EXCEPT !.slot = slot]]
    <3>1. PICK slot \in FreeSlots(k) : squads' = [squads EXCEPT !.unit = [unit EXCEPT !.slot = slot]]
      BY <2>5
    <3>2. \A j \in DOMAIN units \ {k} : units[j].slot # slot
      BY <1>0, <1>1, Offers
    <3> DEFINE one == [unit EXCEPT !.slot = slot]
    <3>3. DOMAIN one = Answers /\ one.id = unit.id /\ one.slot = slot
      BY <1>1 DEF Free, Answers
    <3> HIDE DEF one
    <3>4. Free(one, units, k)
      BY <1>1, <3>2, <3>3 DEF Free
    <3>5. squads' = [squads EXCEPT !.unit = one]
      BY <3>1 DEF one
    <3> QED
      BY <2>1, <3>4, <3>5
  <2>6. CASE \E level \in TypedLevels :
               squads' = [squads EXCEPT !.unit = SettleStage([unit EXCEPT !.level = level])]
    <3>1. PICK level \in TypedLevels :
               squads' = [squads EXCEPT !.unit = SettleStage([unit EXCEPT !.level = level])]
      BY <2>6
    <3> DEFINE one == [unit EXCEPT !.level = level]
    <3>2. Free(one, units, k)
      BY <1>1 DEF Free
    <3> HIDE DEF one
    <3>3. squads' = [squads EXCEPT !.unit = SettleStage(one)]
      BY <3>1 DEF one
    <3> QED
      BY <2>1, <2>2, <3>2, <3>3
  <2> QED
    BY <1>2, <2>3, <2>4, <2>5, <2>6 DEF ChangeUnit
<1>3. CASE UnitPicks
  <2>1. squads = [squads EXCEPT !.unit = unit]
    BY <1>0 DEF Shaped, IsSquads
  <2>2. squads' = Commit([squads EXCEPT !.unit = unit])
    BY <1>3, <2>1 DEF UnitPicks
  <2> QED
    BY <1>0, <1>1, <2>2, CommitFits
<1> QED
  BY <1>2, <1>3

\* A squad or a member let go, and the list read again.
LEMMA SquadLeft ==
    ASSUME Kempt, Crew, \/ SquadsLeave \/ SquadsFight \/ Enter
                        \/ ConfirmSquads /\ ui.guard.about = Blank
    PROVE  HandFits' /\ UnitFits' /\ Offering'
<1>0. Shaped /\ HandFits /\ UnitFits /\ Offering /\ CastKnown /\ Shelved
  BY DEF Kempt, Crew, Stored
<1>1. UNCHANGED squads => HandFits' /\ UnitFits' /\ Offering'
  BY <1>0 DEF HandFits, UnitFits, IsSquad, Offering
<1>2. Known.characters = disk.characters
  <2>1. ui.running
    BY AtRest DEF OnScreen, OfSquads
  <2> QED
    BY <1>0, <2>1 DEF Shelved, Known, Books
<1>3. squads' = Refresh(squads, Known) => HandFits' /\ UnitFits' /\ Offering'
  <2> SUFFICES ASSUME squads' = Refresh(squads, Known) PROVE HandFits' /\ UnitFits' /\ Offering'
    OBVIOUS
  <2>1. /\ squads'.editing = squads.editing /\ squads'.mode = squads.mode
        /\ squads'.index = squads.index /\ squads'.unit = squads.unit
        /\ squads'.characters = Known.characters
    BY <1>0 DEF Refresh, Shaped, IsSquads
  <2> QED
    BY <1>0, <1>2, <2>1 DEF HandFits, UnitFits, IsSquad, Offering, CastKnown
<1>4. squads' = Refresh(ToList, Known) => HandFits' /\ UnitFits' /\ Offering'
  <2> SUFFICES ASSUME squads' = Refresh(ToList, Known) PROVE HandFits' /\ UnitFits' /\ Offering'
    OBVIOUS
  <2>1. /\ squads'.editing = NoSquad /\ squads'.mode = "list"
        /\ squads'.characters = Known.characters
    BY <1>0 DEF Refresh, ToList, Shaped, IsSquads
  <2>2. IsSquad(NoSquad) /\ Fit(NoSquad.units)
    BY FitEmpty DEF NoSquad, IsSquad
  <2> QED
    BY <1>0, <1>2, <2>1, <2>2 DEF HandFits, UnitFits, Offering, CastKnown
<1>5. CASE SquadsLeave
  <2>1. CASE squads.mode = "unit"
    <3> DEFINE screen == Commit(squads)
    <3>1. squads = [squads EXCEPT !.unit = squads.unit]
      BY <1>0 DEF Shaped, IsSquads
    <3>2. screen = Commit([squads EXCEPT !.unit = squads.unit])
      BY <3>1
    <3>3. Free(squads.unit, squads.editing.units, squads.index)
      BY <1>0, <2>1 DEF UnitFits
    <3>4. IsSquad(screen.editing) /\ Fit(screen.editing.units) /\ screen.characters = squads.characters
      BY <1>0, <2>1, <3>2, <3>3, Committed
    <3>5. IsSquads(screen)
      BY <1>0 DEF Commit, Shaped, IsSquads
    <3>6. squads' = [screen EXCEPT !.mode = "edit", !.unit = NoUnit, !.index = 0, !.openedAs = Blank]
      BY <1>5, <2>1 DEF SquadsLeave
    <3> HIDE DEF screen
    <3>7. squads'.editing = screen.editing /\ squads'.mode = "edit" /\ squads'.characters = screen.characters
      BY <3>5, <3>6 DEF IsSquads
    <3> QED
      BY <1>0, <3>4, <3>7 DEF HandFits, UnitFits, Offering
  <2>2. CASE squads.mode # "unit"
    <3>1. UNCHANGED squads \/ squads' = Refresh(ToList, Known)
      BY <1>5, <2>2 DEF SquadsLeave
    <3> QED
      BY <1>1, <1>4, <3>1
  <2> QED
    BY <2>1, <2>2
<1>6. CASE SquadsFight \/ Enter
  BY <1>1, <1>3, <1>6 DEF SquadsFight, Enter
<1>7. CASE ConfirmSquads /\ ui.guard.about = Blank
  BY <1>4, <1>7 DEF ConfirmSquads
<1> QED
  BY <1>5, <1>6, <1>7

\* A list answered, and a save that is back.
LEMMA SquadAnswered ==
    ASSUME Kempt, Crew, PickerAnswered \/ Returns
    PROVE  HandFits' /\ UnitFits' /\ Offering'
<1>0. /\ Shaped /\ HandFits /\ UnitFits /\ Offering /\ CastKnown /\ Lists /\ Stored
      /\ FitsToCome
  BY DEF Kempt, Crew, InFront
<1>1. UNCHANGED squads => HandFits' /\ UnitFits' /\ Offering'
  BY <1>0 DEF HandFits, UnitFits, IsSquad, Offering
<1>2. CASE PickerAnswered
  <2> DEFINE chosen == ui.picker.chosen
             units == squads.editing.units
             k == squads.index
  <2>1. Land(ui.picker.into, chosen) /\ Listed
    BY <1>2 DEF PickerAnswered
  <2>2. ASSUME NEW unit, Free(unit, units, k), squads.mode = "unit",
               squads' = Commit([squads EXCEPT !.unit = unit])
        PROVE  HandFits' /\ UnitFits' /\ Offering'
    BY <1>0, <2>2, CommitFits
  <2>3. CASE ui.picker.into = "unitKit"
    <3>1. squads' = Commit([squads EXCEPT !.unit = [squads.unit EXCEPT !.skills = chosen]])
      BY <2>1, <2>3, Lands
    <3>2. squads.mode = "unit"
      BY <1>0, <2>1, <2>3, FieldOf
    <3>3. Free([squads.unit EXCEPT !.skills = chosen], units, k)
      BY <1>0, <3>2 DEF UnitFits, Free
    <3> QED
      BY <2>2, <3>1, <3>2, <3>3
  <2>4. CASE ui.picker.into = "unitTraits"
    <3>1. squads' = Commit([squads EXCEPT !.unit = [squads.unit EXCEPT !.passives = chosen]])
      BY <2>1, <2>4, Lands
    <3>2. squads.mode = "unit"
      BY <1>0, <2>1, <2>4, FieldOf
    <3>3. Free([squads.unit EXCEPT !.passives = chosen], units, k)
      BY <1>0, <3>2 DEF UnitFits, Free
    <3> QED
      BY <2>2, <3>1, <3>2, <3>3
  <2>5. CASE ui.picker.into \notin {"unitKit", "unitTraits"}
    BY <1>1, <2>1, <2>5, Lands
  <2> QED
    BY <2>3, <2>4, <2>5
<1>3. CASE Returns
  <2>1. PICK written \in BOOLEAN : SaveReturns(written)
    BY <1>3 DEF Returns
  <2>2. CASE written /\ writing[Author].file = "squads"
    <3>1. squads' = SquadsAfter(TRUE)
      BY <2>1, <2>2, Returned
    <3>2. /\ squads'.editing = squads.editing /\ squads'.mode = squads.mode
          /\ squads'.index = squads.index /\ squads'.unit = squads.unit
          /\ squads'.characters = lib'[Author].characters
      BY <1>0, <3>1 DEF SquadsAfter, Refresh, Shaped, IsSquads
    <3>3. lib'[Author].characters = disk'.characters /\ disk'.characters = disk.characters
      BY <1>0, <2>1, <2>2, WrittenStored DEF Files, Books
    <3> QED
      BY <1>0, <3>2, <3>3 DEF HandFits, UnitFits, IsSquad, Offering, CastKnown
  <2>3. CASE ~(written /\ writing[Author].file = "squads")
    <3>1. UNCHANGED squads
      BY <2>1, <2>3, Returned
    <3> QED
      BY <1>1, <3>1
  <2> QED
    BY <2>2, <2>3
<1> QED
  BY <1>2, <1>3

\* So no step makes two members clash.
LEMMA CrewNext == Kempt /\ Crew /\ [Next]_vars => Crew'
<1> SUFFICES ASSUME Kempt, Crew, [Next]_vars PROVE Crew'
  OBVIOUS
<1>1. DraftNamed'
  BY DraftNamedNext DEF Kempt, Crew
<1>2. FitBook(disk.squads)' /\ CastKnown' /\ FitsToCome'
  BY BooksFit
<1>3. HandFits' /\ UnitFits' /\ Offering'
  <2>1. CASE UNCHANGED squads
    BY <2>1 DEF Crew, HandFits, UnitFits, IsSquad, Offering
  <2>2. CASE SquadsBegin \/ SquadsOpen \/ SquadsType
    BY <2>2, SquadOpened
  <2>3. CASE AddUnit \/ TakeUnit
    BY <2>3, UnitTaken
  <2>4. CASE ChangeUnit \/ UnitPicks
    BY <2>4, UnitChanged
  <2>5. CASE SquadsLeave \/ SquadsFight \/ Enter \/ (ConfirmSquads /\ ui.guard.about = Blank)
    BY <2>5, SquadLeft
  <2>6. CASE PickerAnswered \/ Returns
    BY <2>6, SquadAnswered
  <2>7. CASE ConfirmSquads /\ ui.guard.about # Blank
    BY <2>1, <2>7, SquadDropped DEF Kempt
  <2>8. CASE ReadOnly \/ OfTheForm \/ OfOrigins \/ OfSkills \/ Saves \/ Quit
    <3>1. UNCHANGED squads
      BY <2>8, ReadOnlyKeeps, FormKeeps, OriginsKeep, SkillsKeep, SavesKeep, QuitKeeps DEF ownVars
    <3> QED
      BY <2>1, <3>1
  <2> QED
    BY <2>1, <2>2, <2>3, <2>4, <2>5, <2>6, <2>7, <2>8, Kinds DEF OfSquads, vars, ownVars
<1> QED
  BY <1>1, <1>2, <1>3 DEF Crew

\* Whatever is added, dropped or changed in a squad, no two of its members have one id or
\* stand on one cell (squads.go, freeID, freeSlot, cycle).
THEOREM MembersNeverClash == Spec => []NoTwoMembersClash
<1>1. Kempt /\ Crew => NoTwoMembersClash
  <2> SUFFICES ASSUME Kempt, Crew PROVE NoTwoMembersClash
    OBVIOUS
  <2>0. Shaped /\ HandFits /\ UnitFits
    BY DEF Kempt, Crew
  <2>1. CASE squads.mode = "unit"
    <3>1. squads = [squads EXCEPT !.unit = squads.unit]
      BY <2>0 DEF Shaped, IsSquads
    <3>2. Free(squads.unit, squads.editing.units, squads.index)
      BY <2>0, <2>1 DEF UnitFits
    <3> DEFINE screen == Commit(squads)
    <3>3. screen = Commit([squads EXCEPT !.unit = squads.unit])
      BY <3>1
    <3>4. Fit(screen.editing.units)
      BY <2>0, <2>1, <3>2, <3>3, Committed
    <3> QED
      BY <2>1, <3>4 DEF NoTwoMembersClash, Fit, Apart
  <2>2. CASE squads.mode # "unit"
    BY <2>0, <2>2 DEF NoTwoMembersClash, HandFits, Fit, Apart
  <2> QED
    BY <2>1, <2>2
<1> QED
  BY <1>1, KemptInit, CrewInit, KemptNext, CrewNext, PTL DEF Spec

=============================================================================
