------------------------------- MODULE Editor -------------------------------
(***************************************************************************)
(* The authoring program (cmd/hexforge-tui): one library and the screens   *)
(* over it.  A key goes to the question in front, else to the list in      *)
(* front, else to the screen; four screens hold work that is not saved     *)
(* yet.  A save is a step of its own here, so that the write may fail:     *)
(* no key is read until it has returned.                                   *)
(*                                                                         *)
(* What is typed comes out of small sets of answers.  A press that cycles  *)
(* lands on any of the choices: several presses are one step.              *)
(***************************************************************************)
EXTENDS Forge

CONSTANTS Author,           \* the one session
          TypedIds, TypedTitles, TypedAffinities, TypedLevels, Elements,
          Arts,             \* the images found under the data directory
          Effort            \* how many changes and saves the author makes

VARIABLES ui,           \* which screen, what is over it, and the way back
          form,         \* the new character
          origins, skills, squads,
          effort

ownVars == <<form, origins, skills, squads>>
vars == <<forgeVars, ui, ownVars, effort>>

Known == lib[Author]
Spent == effort < Effort /\ effort' = effort + 1
First(set) == CHOOSE one \in set : TRUE

-----------------------------------------------------------------------------
(* The screens, and the way back from one.                                 *)

Menu == {"browse", "new", "origins", "skills", "statuses", "passives", "bonuses", "elements",
         "species", "builds", "squads", "fight", "check"}

Unasked == [asked |-> Blank, about |-> Blank]
NoPicker == [into |-> Blank]
PickedOn == [kit |-> "new", species |-> "new", keptFor |-> "skills", keptOf |-> "skills",
             unitKit |-> "squads", unitTraits |-> "squads"]

\* Mutant: one slot for the way back.
RaisedForgetting(to) == [ui EXCEPT !.screen = to, !.raisedFrom = ui.screen, !.raisedOver = "menu"]
Raised(to) == [ui EXCEPT !.screen = to, !.raisedFrom = ui.screen, !.raisedOver = ui.raisedFrom]
GoBack == [ui EXCEPT !.screen = ui.raisedFrom, !.raisedFrom = ui.raisedOver, !.raisedOver = "menu"]

\* A key reaches a screen: nothing is in front of it and no save is under way.
Quiet(screen) ==
    /\ ui.running /\ writing[Author] = Idle
    /\ ui.guard = Unasked /\ ui.picker = NoPicker /\ ui.screen = screen

-----------------------------------------------------------------------------
(* The form of a new character.  It keeps the origins, the presets and the *)
(* art as they were when it was opened.                                    *)

StartOf(from, archetypes) ==
    LET preset == First(DOMAIN archetypes) IN
    [id |-> Blank, name |-> Blank, origin |-> First(from), archetype |-> preset,
     image |-> First(Arts), element |-> <<>>, species |-> <<>>,
     skills |-> archetypes[preset].skills, stats |-> <<>>]
NewFormScreen(books) ==
    [touched |-> FALSE, follows |-> TRUE,
     origins |-> DOMAIN books.origins, archetypes |-> books.archetypes,
     draft |-> StartOf(DOMAIN books.origins, books.archetypes)]
Touch(draft) == [form EXCEPT !.touched = TRUE, !.draft = draft]

FormTypes ==
    /\ Quiet("new") /\ UNCHANGED <<forgeVars, ui, origins, skills, squads>> /\ Spent
    /\ LET draft == form.draft IN
       \/ \E id \in TypedIds : form' = Touch([draft EXCEPT !.id = id])
       \/ \E name \in TypedTitles : form' = Touch([draft EXCEPT !.name = name])
       \/ \E affinity \in TypedAffinities : form' = Touch([draft EXCEPT !.element = affinity])
       \/ \E origin \in form.origins : form' = Touch([draft EXCEPT !.origin = origin])
       \* applyPreset: the kit is the preset's until it has been picked by hand.
       \/ \E preset \in DOMAIN form.archetypes :
            form' = Touch([draft EXCEPT !.archetype = preset,
                              !.skills = IF form.follows THEN form.archetypes[preset].skills ELSE @])

FormSaves ==
    /\ Quiet("new") /\ effort < Effort
    /\ IF ResolvesDraft(form.draft, Known)
       THEN AddsCharacter(Author, form.draft) /\ UNCHANGED <<ui, ownVars, effort>>
       ELSE UNCHANGED vars
\* Escape: a form nobody touched goes at once, to the menu and by no way back.
FormLeaves ==
    /\ Quiet("new") /\ UNCHANGED <<forgeVars, ownVars, effort>>
    /\ ui' = IF form.touched THEN [ui EXCEPT !.guard = [asked |-> "new", about |-> Blank]]
             ELSE [ui EXCEPT !.screen = "menu"]

Carrier(draft) == [affinity |-> draft.element, archetype |-> draft.archetype, id |-> draft.id,
                   species |-> draft.species, origin |-> draft.origin]
Picker(into, options, chosen, slots) ==
    [ui EXCEPT !.picker = [into |-> into, options |-> options, chosen |-> chosen, slots |-> slots]]
FormPicks ==
    /\ Quiet("new") /\ UNCHANGED <<forgeVars, ownVars, effort>>
    /\ \/ ui' = Picker("kit", {id \in DOMAIN Known.skills :
                                  ~Refuses(Carrier(form.draft), Known.skills[id])},
                       form.draft.skills, 0)
       \/ ui' = Picker("species", DOMAIN Known.species, form.draft.species, 0)

-----------------------------------------------------------------------------
(* The catalogue of origins, and the form that adds one.                   *)

NoOrigin == [id |-> Blank, title |-> Blank]
ResetOrigins(books) == [list |-> DOMAIN books.origins, adding |-> FALSE, touched |-> FALSE,
                        draft |-> NoOrigin]
OriginsAdd ==
    /\ Quiet("origins") /\ ~origins.adding
    /\ origins' = [origins EXCEPT !.adding = TRUE, !.touched = FALSE, !.draft = NoOrigin]
    /\ UNCHANGED <<forgeVars, ui, form, skills, squads, effort>>
OriginsType ==
    /\ Quiet("origins") /\ origins.adding
    /\ \/ \E id \in TypedIds :
            origins' = [origins EXCEPT !.touched = TRUE, !.draft.id = id]
       \/ \E title \in TypedTitles :
            origins' = [origins EXCEPT !.touched = TRUE, !.draft.title = title]
    /\ UNCHANGED <<forgeVars, ui, form, skills, squads>> /\ Spent
OriginsSave ==
    /\ Quiet("origins") /\ origins.adding /\ effort < Effort
    /\ IF NewOrigin(origins.draft, Known)
       THEN AddsOrigin(Author, origins.draft) /\ UNCHANGED <<ui, ownVars, effort>>
       ELSE UNCHANGED vars
OriginsLeave ==
    /\ Quiet("origins") /\ UNCHANGED <<forgeVars, form, skills, squads, effort>>
    /\ \/ ~origins.adding /\ ui' = GoBack /\ UNCHANGED origins
       \/ /\ origins.adding /\ origins.touched /\ UNCHANGED origins
          /\ ui' = [ui EXCEPT !.guard = [asked |-> "origins", about |-> Blank]]
       \/ /\ origins.adding /\ ~origins.touched
          /\ origins' = [origins EXCEPT !.adding = FALSE] /\ UNCHANGED ui

-----------------------------------------------------------------------------
(* The skills: a list, a form that adds one, and the same form filled with *)
(* a skill of the list to edit it.                                         *)

NoAnswers == [id |-> Blank, element |-> Neutral, power |-> 0, restrict |-> Fresh.restrict]
SkillAnswers(id, known) == [id |-> id, element |-> known.element, power |-> known.power,
                        restrict |-> known.restrict]
ResetSkills(list) == [list |-> list, adding |-> FALSE, editing |-> Blank, touched |-> FALSE,
                      drawn |-> FALSE, draft |-> NoAnswers]
FormInFront == skills.adding \/ skills.editing # Blank

SkillsAdd ==
    /\ Quiet("skills") /\ ~FormInFront
    /\ skills' = [ResetSkills(skills.list) EXCEPT !.adding = TRUE]
    /\ UNCHANGED <<forgeVars, ui, form, origins, squads, effort>>
SkillsEdit ==
    /\ Quiet("skills") /\ ~FormInFront
    /\ \E id \in DOMAIN skills.list :
         skills' = [ResetSkills(skills.list) EXCEPT !.editing = id,
                                                    !.draft = SkillAnswers(id, skills.list[id])]
    /\ UNCHANGED <<forgeVars, ui, form, origins, squads, effort>>
TouchSkill(draft) == [skills EXCEPT !.touched = TRUE, !.draft = draft]
SkillsType ==
    /\ Quiet("skills") /\ FormInFront
    /\ \/ ~skills.drawn /\ \E id \in TypedIds : skills' = TouchSkill([skills.draft EXCEPT !.id = id])
       \/ ~skills.drawn /\ \E power \in Powers :
            skills' = TouchSkill([skills.draft EXCEPT !.power = power])
       \/ ~skills.drawn /\ \E element \in Elements :
            skills' = TouchSkill([skills.draft EXCEPT !.element = element])
       \* The drawing of a shape takes every key until it is put away; a shape is chosen in it.
       \/ skills' = [skills EXCEPT !.drawn = ~@]
       \/ skills.drawn /\ skills' = [skills EXCEPT !.touched = TRUE]
    /\ UNCHANGED <<forgeVars, ui, form, origins, squads>> /\ Spent
SkillsPick ==
    /\ Quiet("skills") /\ FormInFront /\ ~skills.drawn
    /\ \/ ui' = Picker("keptFor", DOMAIN Known.characters, SetToSeq(skills.draft.restrict.characters), 0)
       \/ ui' = Picker("keptOf", DOMAIN Known.origins, SetToSeq(skills.draft.restrict.origins), 0)
    /\ UNCHANGED <<forgeVars, ownVars, effort>>
SkillsSave ==
    /\ Quiet("skills") /\ FormInFront /\ ~skills.drawn /\ effort < Effort
    /\ IF skills.editing = Blank
       THEN IF ResolvesSkill(skills.draft, Known)
            THEN AddsSkill(Author, skills.draft) /\ UNCHANGED <<ui, ownVars, effort>>
            ELSE UNCHANGED vars
       \* An edit keeps its id.
       ELSE IF skills.draft.id = skills.editing /\ skills.editing \in DOMAIN Known.skills
            THEN EditsSkill(Author, skills.draft) /\ UNCHANGED <<ui, ownVars, effort>>
            ELSE UNCHANGED vars
SkillsLeave ==
    /\ Quiet("skills") /\ ~skills.drawn /\ UNCHANGED <<forgeVars, form, origins, squads, effort>>
    /\ \/ ~FormInFront /\ ui' = GoBack /\ UNCHANGED skills
       \/ /\ FormInFront /\ skills.touched /\ UNCHANGED skills
          /\ ui' = [ui EXCEPT !.guard = [asked |-> "skills", about |-> Blank]]
       \/ /\ FormInFront /\ ~skills.touched
          /\ skills' = ResetSkills(skills.list) /\ UNCHANGED ui
SkillsRaise ==
    /\ Quiet("skills") /\ ~FormInFront /\ skills.list # <<>>
    /\ ui' = Raised("blurb")
    /\ UNCHANGED <<forgeVars, ownVars, effort>>

-----------------------------------------------------------------------------
(* The squads: a list, a squad in hand, and a member of it in hand.        *)

NoSquad == [id |-> Blank, name |-> Blank, units |-> <<>>]
NoUnit == [id |-> Blank]
Catalogued(squad) == [name |-> squad.name, units |-> squad.units]
\* The list and the cast are read again at every visit and after every save.
Refresh(screen, books) ==
    [screen EXCEPT !.saved = SquadsOffered(books.squads, <<>>), !.characters = books.characters]
NewSquads(books) ==
    [mode |-> "list", saved |-> books.squads, characters |-> books.characters, editing |-> NoSquad,
     baseline |-> NoSquad, editingID |-> FALSE, unit |-> NoUnit, index |-> 0, openedAs |-> Blank]
Dirty == squads.editing # squads.baseline
FreshSquad == squads.editing.id = Blank \/ squads.editing.id \notin DOMAIN squads.saved

\* Mutant: the ids and the cells in use are read off the squad as it was saved.
OthersWhenSaved(k) == {squads.baseline.units[j] : j \in DOMAIN squads.baseline.units \ {k}}
Others(k) == {squads.editing.units[j] : j \in DOMAIN squads.editing.units \ {k}}
OfferedCharacters(keep) ==
    {id \in DOMAIN squads.characters : squads.characters[id].hidden => id = keep}
Nth(character, n) == character \o "-" \o ToString(n)
FreeID(character, k) ==
    LET taken == {unit.id : unit \in Others(k)} IN
    IF character \notin taken THEN character
    ELSE LET numbered == {n \in 2..MaxSquadSize + 1 : Nth(character, n) \notin taken} IN
         Nth(character, CHOOSE n \in numbered : \A other \in numbered : n <= other)
FreeSlots(k) == Formation \ {unit.slot : unit \in Others(k)}

\* What is left behind on the list is written over by the next squad opened.
ToList == [squads EXCEPT !.mode = "list", !.editing = NoSquad, !.baseline = NoSquad,
                         !.editingID = FALSE]
EditUnit(screen, k) ==
    [screen EXCEPT !.mode = "unit", !.index = k, !.unit = screen.editing.units[k],
                   !.openedAs = screen.editing.units[k].character]
Commit(screen) == [screen EXCEPT !.editing.units[screen.index] = screen.unit]

SquadsBegin ==
    /\ Quiet("squads") /\ squads.mode = "list"
    /\ squads' = [squads EXCEPT !.mode = "edit", !.editing = NoSquad, !.baseline = NoSquad,
                                !.editingID = TRUE]
    /\ UNCHANGED <<forgeVars, ui, form, origins, skills, effort>>
SquadsOpen ==
    /\ Quiet("squads") /\ squads.mode = "list"
    /\ \E id \in DOMAIN squads.saved :
         LET squad == [id |-> id, name |-> squads.saved[id].name, units |-> squads.saved[id].units] IN
         squads' = [squads EXCEPT !.mode = "edit", !.editing = squad, !.baseline = squad,
                                  !.editingID = FALSE]
    /\ UNCHANGED <<forgeVars, ui, form, origins, skills, effort>>
SquadsType ==
    /\ Quiet("squads") /\ squads.mode = "edit"
    /\ \/ squads.editingID /\ \E id \in TypedIds : squads' = [squads EXCEPT !.editing.id = id]
       \/ ~squads.editingID /\ \E name \in TypedTitles :
            squads' = [squads EXCEPT !.editing.name = name]
       \/ squads' = [squads EXCEPT !.editingID = ~@ /\ FreshSquad]
    /\ UNCHANGED <<forgeVars, ui, form, origins, skills>> /\ Spent
\* A new member is the first character offered, at the cap, on the first free cell; which
\* one is first is left open.
AddUnit ==
    /\ Quiet("squads") /\ squads.mode = "edit"
    /\ Len(squads.editing.units) < MaxSquadSize
    /\ \E character \in OfferedCharacters(Blank), slot \in FreeSlots(0) :
         LET unit == [id |-> FreeID(character, 0), character |-> character, level |-> LevelCap,
                      stage |-> Blank, slot |-> slot, skills |-> <<>>, passives |-> <<>>]
         IN  squads' = EditUnit([squads EXCEPT !.editing.units = Append(@, unit)],
                                Len(squads.editing.units) + 1)
    /\ UNCHANGED <<forgeVars, ui, form, origins, skills>> /\ Spent
TakeUnit ==
    /\ Quiet("squads") /\ squads.mode = "edit"
    /\ \E k \in DOMAIN squads.editing.units :
         squads' \in {EditUnit(squads, k), [squads EXCEPT !.editing.units = RemoveAt(@, k)]}
    /\ UNCHANGED <<forgeVars, ui, form, origins, skills, effort>>

StageChoices(unit) ==
    {Blank} \cup IF unit.level \in Levels
                 THEN Allowed(squads.characters[unit.character].stages, unit.level) ELSE {}
SettleStage(unit) == IF unit.stage \in StageChoices(unit) THEN unit ELSE [unit EXCEPT !.stage = Blank]
Bare(unit) == [unit EXCEPT !.skills = <<>>, !.passives = <<>>]
ChangeUnit ==
    /\ Quiet("squads") /\ squads.mode = "unit"
    /\ LET unit == squads.unit IN
       \/ \E character \in OfferedCharacters(squads.openedAs) :
            squads' = [squads EXCEPT !.unit = SettleStage(Bare(
                [unit EXCEPT !.character = character, !.id = FreeID(character, squads.index)]))]
       \/ \E stage \in StageChoices(unit) :
            squads' = [squads EXCEPT !.unit = Bare([unit EXCEPT !.stage = stage])]
       \/ \E slot \in FreeSlots(squads.index) :
            squads' = [squads EXCEPT !.unit = [unit EXCEPT !.slot = slot]]
       \/ \E level \in TypedLevels :
            squads' = [squads EXCEPT !.unit = SettleStage([unit EXCEPT !.level = level])]
    /\ UNCHANGED <<forgeVars, ui, form, origins, skills>> /\ Spent
\* A list of what the member may bring at its level and in its form, over the member.
UnitPicks ==
    /\ Quiet("squads") /\ squads.mode = "unit"
    /\ squads' = Commit(squads)
    /\ LET unit == squads.unit
           of == squads.characters[unit.character]
       IN  \/ ui' = Picker("unitKit", ToSet(SkillsAt(of, unit.level, unit.stage)), unit.skills, SkillSlots)
           \/ ui' = Picker("unitTraits", ToSet(PassivesAt(of, unit.level, unit.stage)), unit.passives,
                           TraitSlots)
    /\ UNCHANGED <<forgeVars, form, origins, skills, effort>>
SquadsSave ==
    /\ Quiet("squads") /\ squads.mode = "edit" /\ effort < Effort
    /\ IF Fieldable(squads.editing, Known.characters)
       THEN KeepsSquad(Author, squads.editing) /\ UNCHANGED <<ui, ownVars, effort>>
       ELSE UNCHANGED vars
\* Escape: out of a member, which is written back; out of a squad, if it is as it was
\* written down; out of the list.  And a saved squad is deleted, asked first.
SquadsLeave ==
    /\ Quiet("squads") /\ UNCHANGED <<forgeVars, form, origins, skills, effort>>
    /\ \/ /\ squads.mode = "unit" /\ UNCHANGED ui
          /\ squads' = [Commit(squads) EXCEPT !.mode = "edit", !.unit = NoUnit, !.index = 0,
                                               !.openedAs = Blank]
       \/ /\ squads.mode = "edit" /\ Dirty /\ UNCHANGED squads
          /\ ui' = [ui EXCEPT !.guard = [asked |-> "squads", about |-> Blank]]
       \/ /\ squads.mode = "edit" /\ ~Dirty /\ UNCHANGED ui
          /\ squads' = Refresh(ToList, Known)
       \/ squads.mode = "list" /\ ui' = GoBack /\ UNCHANGED squads
       \/ /\ squads.mode = "list" /\ UNCHANGED squads
          /\ \E id \in DOMAIN squads.saved :
               ui' = [ui EXCEPT !.guard = [asked |-> "squads", about |-> id]]

\* The fight is raised from the list, reads it again, and is left by name; a battle is
\* played from it, and left by the way back.
SquadsFight ==
    /\ Quiet("squads") /\ squads.mode = "list" /\ DOMAIN squads.saved # {}
    /\ ui' = Raised("fight") /\ squads' = Refresh(squads, Known)
    /\ UNCHANGED <<forgeVars, form, origins, skills, effort>>
Fight ==
    /\ Quiet("fight") /\ UNCHANGED <<forgeVars, ownVars, effort>>
    /\ \/ ui' = [ui EXCEPT !.screen = "squads"]
       \/ DOMAIN squads.saved # {} /\ ui' = Raised("play")

-----------------------------------------------------------------------------
(* The menu, what only reads, the questions, the lists, and the end of a   *)
(* save.                                                                   *)

\* A screen is read again as it is entered; the form of a new character is as it was left.
Enter ==
    /\ Quiet("menu") /\ \E screen \in Menu :
         /\ ui' = [ui EXCEPT !.screen = screen]
         /\ origins' = IF screen = "origins" THEN [origins EXCEPT !.list = DOMAIN Known.origins]
                       ELSE origins
         /\ skills' = IF screen = "skills" THEN [skills EXCEPT !.list = Known.skills] ELSE skills
         /\ squads' = IF screen \in {"squads", "fight"} THEN Refresh(squads, Known) ELSE squads
    /\ UNCHANGED <<forgeVars, form, effort>>

\* What only reads the library: a key goes back, or raises a screen over this one.
Keys(screen, to) == Quiet(screen) /\ ui' \in to /\ UNCHANGED <<forgeVars, ownVars, effort>>
BrowseKeys == Keys("browse", {GoBack, Raised("preview"), Raised("blurb")})
PreviewKeys == Keys("preview", {GoBack})
BlurbKeys == Keys("blurb", {GoBack})
StatusesKeys == Keys("statuses", {GoBack})
PassivesKeys == Keys("passives", {GoBack, Raised("statuses")})
BonusesKeys == Keys("bonuses", {GoBack})
ElementsKeys == Keys("elements", {GoBack, Raised("chart")})
ChartKeys == Keys("chart", {GoBack})
SpeciesKeys == Keys("species", {GoBack})
BuildsKeys == Keys("builds", {GoBack})
PlayKeys == Keys("play", {GoBack, Raised("blurb")})
\* A check and a spar are left by name.
CheckKeys == Keys("check", {[ui EXCEPT !.screen = "menu"], [ui EXCEPT !.screen = "spar"]})
SparKeys == Keys("spar", {[ui EXCEPT !.screen = "check"]})
Reads == \/ BrowseKeys \/ PreviewKeys \/ BlurbKeys \/ StatusesKeys \/ PassivesKeys \/ BonusesKeys
         \/ ElementsKeys \/ ChartKeys \/ SpeciesKeys \/ BuildsKeys \/ PlayKeys
         \/ CheckKeys \/ SparKeys

\* Any key answers a question, and only y is a yes.
Unanswered == ui.running /\ writing[Author] = Idle /\ ui.guard # Unasked
AnswerNo ==
    /\ Unanswered /\ ui' = [ui EXCEPT !.guard = Unasked]
    /\ UNCHANGED <<forgeVars, ownVars, effort>>
ConfirmForm ==
    /\ Unanswered /\ ui.guard.asked = "new"
    /\ form' = NewFormScreen(Known) /\ ui' = [GoBack EXCEPT !.guard = Unasked]
    /\ UNCHANGED <<forgeVars, origins, skills, squads, effort>>
ConfirmOrigins ==
    /\ Unanswered /\ ui.guard.asked = "origins"
    /\ origins' = [origins EXCEPT !.adding = FALSE, !.touched = FALSE, !.draft = NoOrigin]
    /\ ui' = [ui EXCEPT !.guard = Unasked]
    /\ UNCHANGED <<forgeVars, form, skills, squads, effort>>
ConfirmSkills ==
    /\ Unanswered /\ ui.guard.asked = "skills"
    /\ skills' = ResetSkills(skills.list) /\ ui' = [ui EXCEPT !.guard = Unasked]
    /\ UNCHANGED <<forgeVars, form, origins, squads, effort>>
ConfirmSquads ==
    /\ Unanswered /\ ui.guard.asked = "squads" /\ ui' = [ui EXCEPT !.guard = Unasked]
    /\ IF ui.guard.about = Blank
       THEN /\ squads' = Refresh(ToList, Known)
            /\ UNCHANGED <<forgeVars, form, origins, skills, effort>>
       ELSE /\ effort < Effort
            /\ DropsSquad(Author, ui.guard.about) /\ UNCHANGED <<ownVars, effort>>

Listed == ui.running /\ writing[Author] = Idle /\ ui.guard = Unasked /\ ui.picker # NoPicker
\* A row is dropped if it is chosen, else taken unless it is refused or the slots are full.
Toggle ==
    /\ Listed /\ LET picker == ui.picker IN
       \/ \E k \in DOMAIN picker.chosen : ui' = [ui EXCEPT !.picker.chosen = RemoveAt(@, k)]
       \/ /\ picker.slots = 0 \/ Len(picker.chosen) < picker.slots
          /\ \E id \in picker.options \ ToSet(picker.chosen) :
               ui' = [ui EXCEPT !.picker.chosen = Append(@, id)]
    /\ UNCHANGED <<forgeVars, ownVars, effort>>
PickerDropped ==
    /\ Listed /\ ui' = [ui EXCEPT !.picker = NoPicker] /\ UNCHANGED <<forgeVars, ownVars, effort>>
\* Mutant: a picked list is laid into the form without touching it.
LandQuietly(into, chosen) ==
    /\ form' = CASE into = "kit" -> [form EXCEPT !.follows = FALSE, !.draft.skills = chosen]
                 [] into = "species" -> [form EXCEPT !.draft.species = chosen]
                 [] OTHER -> form
    /\ UNCHANGED <<skills, squads>>
Land(into, chosen) ==
    /\ form' = CASE into = "kit" -> [Touch([form.draft EXCEPT !.skills = chosen]) EXCEPT !.follows = FALSE]
                 [] into = "species" -> Touch([form.draft EXCEPT !.species = chosen])
                 [] OTHER -> form
    /\ skills' = CASE into = "keptFor" ->
                        TouchSkill([skills.draft EXCEPT !.restrict.characters = ToSet(chosen)])
                   [] into = "keptOf" ->
                        TouchSkill([skills.draft EXCEPT !.restrict.origins = ToSet(chosen)])
                   [] OTHER -> skills
    /\ squads' = CASE into = "unitKit" -> Commit([squads EXCEPT !.unit.skills = chosen])
                   [] into = "unitTraits" -> Commit([squads EXCEPT !.unit.passives = chosen])
                   [] OTHER -> squads
PickerAnswered ==
    /\ Listed /\ ui' = [ui EXCEPT !.picker = NoPicker]
    /\ Land(ui.picker.into, ui.picker.chosen)
    /\ UNCHANGED <<forgeVars, origins>> /\ Spent

\* Mutant: the squad in hand counts as written down before it is.
SquadsBaselined(written) ==
    LET after == [squads EXCEPT !.baseline = IF squads.mode = "edit" THEN squads.editing ELSE @]
    IN  IF written THEN Refresh(after, lib'[Author]) ELSE after
\* What a screen does when its save is back: after one that was written it starts over, or
\* for a squad keeps it in hand, and reads the library again; else it keeps what it has.
SquadsAfter(written) ==
    IF ~written THEN squads
    ELSE Refresh([squads EXCEPT !.baseline = IF squads.mode = "edit" THEN squads.editing ELSE @],
                 lib'[Author])
\* Mutant: a form starts over whether its character was written or not.
FormStartsOver(written) == NewFormScreen(lib'[Author])
FormAfter(written) == IF written THEN NewFormScreen(lib'[Author]) ELSE form
SkillsAfter(written) == IF written THEN ResetSkills(lib'[Author].skills) ELSE skills
SaveReturns(written) ==
    LET file == writing[Author].file IN
    /\ ui.running /\ writing[Author] # Idle
    /\ IF written THEN Rename(Author) ELSE Fail(Author)
    /\ form' = IF file = "characters" THEN FormAfter(written) ELSE form
    /\ origins' = IF file = "origins" /\ written THEN ResetOrigins(lib'[Author]) ELSE origins
    /\ skills' = IF file = "skills" THEN SkillsAfter(written) ELSE skills
    /\ squads' = IF file = "squads" THEN SquadsAfter(written) ELSE squads
    /\ effort' = effort + IF written THEN 1 ELSE 0
    /\ UNCHANGED ui

\* ctrl+c from anywhere, and q where there is no field to type it into.
Quit ==
    /\ ui.running /\ ui' = [ui EXCEPT !.running = FALSE]
    /\ Stop(Author) /\ UNCHANGED <<ownVars, effort>>

\* A member of a squad has an answer to every question of its form.
Answers == {"id", "character", "level", "stage", "slot", "skills", "passives"}
Answered(units) ==
    units \in Seq(ToSet(units)) /\ \A k \in DOMAIN units : DOMAIN units[k] = Answers
\* What is shipped has every answer the forms ask for, and ids are numbered apart.
ASSUME EditorAssumption ==
    /\ Author \in Sessions \ Readers /\ MaxSquadSize \in Nat
    /\ \A id \in DOMAIN Shipped.skills :
         {"element", "power", "restrict"} \subseteq DOMAIN Shipped.skills[id]
    /\ Shipped.squads = [id \in DOMAIN Shipped.squads |-> Catalogued(Shipped.squads[id])]
    /\ \A id \in DOMAIN Shipped.squads : Answered(Shipped.squads[id].units)
    /\ \A character \in DOMAIN Shipped.characters \cup TypedIds \cup {Blank} :
         \A m, n \in 2..MaxSquadSize + 1 : Nth(character, m) = Nth(character, n) => m = n

Init ==
    /\ disk = Shipped /\ Loads(disk)
    /\ writing = [s \in Sessions |-> Idle] /\ told = [s \in Sessions |-> Nobody]
    /\ lib = [s \in Sessions |-> IF s = Author THEN Library(TRUE, disk) ELSE Closed]
    /\ ui = [running |-> TRUE, screen |-> "menu", raisedFrom |-> "menu", raisedOver |-> "menu",
             guard |-> Unasked, picker |-> NoPicker]
    /\ form = NewFormScreen(Known) /\ origins = ResetOrigins(Known)
    /\ skills = ResetSkills(Known.skills) /\ squads = NewSquads(Known)
    /\ effort = 0

Next ==
    \/ Enter \/ Reads \/ FormTypes \/ FormSaves \/ FormLeaves \/ FormPicks
    \/ OriginsAdd \/ OriginsType \/ OriginsSave \/ OriginsLeave
    \/ SkillsAdd \/ SkillsEdit \/ SkillsType \/ SkillsPick \/ SkillsSave \/ SkillsLeave \/ SkillsRaise
    \/ SquadsBegin \/ SquadsOpen \/ SquadsType \/ AddUnit \/ TakeUnit \/ ChangeUnit \/ UnitPicks
    \/ SquadsSave \/ SquadsLeave \/ SquadsFight \/ Fight
    \/ AnswerNo \/ ConfirmForm \/ ConfirmOrigins \/ ConfirmSkills \/ ConfirmSquads
    \/ Toggle \/ PickerDropped \/ PickerAnswered \/ Quit
    \/ \E written \in BOOLEAN : SaveReturns(written)

Spec == Init /\ [][Next]_vars

-----------------------------------------------------------------------------
(* What each of the four screens holds that no file does, by its content   *)
(* and not by the flag the screen keeps.                                   *)
InHand(screen) ==
    CASE screen = "new" -> form.draft # StartOf(form.origins, form.archetypes)
      [] screen = "origins" -> origins.adding /\ origins.draft # NoOrigin
      [] screen = "skills" ->
            /\ FormInFront
            /\ skills.draft # IF skills.editing = Blank THEN NoAnswers
                              ELSE SkillAnswers(skills.editing, skills.list[skills.editing])
      [] screen = "squads" -> squads.mode # "list" /\ Dirty

(* Work nobody has saved is on the screen in front, whichever way its      *)
(* author came and however the screens are left: an escape past it asks    *)
(* first, and a list that is answered counts as work (model.go, guard;     *)
(* the screens' Guard and touched).  And a question is about the screen in *)
(* front, a list about the field that raised it.                           *)
WorkIsInFront ==
    /\ \A screen \in {"new", "origins", "skills", "squads"} :
            InHand(screen) => ui.screen = screen
    /\ ui.guard # Unasked =>
            /\ ui.screen = ui.guard.asked
            /\ ui.guard.about # Blank => ui.guard.about \in DOMAIN disk.squads
    /\ ui.picker # NoPicker =>
            /\ ui.screen = PickedOn[ui.picker.into]
            /\ ui.screen = "squads" => squads.mode = "unit"

(* What was typed goes only by a yes to the question or into the file: a   *)
(* save that is refused or that fails leaves the form as it was (form.go,  *)
(* skills.go, origins.go, save; squads.go, Save).                          *)
WorkIsKept ==
    [][/\ form.touched /\ ~form'.touched =>
            \/ ui.guard.asked = "new"
            \/ form.draft.id \in DOMAIN disk'.characters \ DOMAIN disk.characters
       /\ skills.touched /\ ~skills'.touched =>
            \/ ui.guard.asked = "skills"
            \/ SkillAnswers(skills.draft.id, disk'.skills[skills.draft.id]) = skills.draft
       /\ origins.touched /\ ~origins'.touched =>
            \/ ui.guard.asked = "origins" \/ disk'.origins[origins.draft.id].title = origins.draft.title
       /\ squads.mode = "edit" /\ Dirty /\ squads'.mode = "list" => ui.guard.asked = "squads"]_vars

(* A squad in hand that is not asked about on the way out is on disk as it *)
(* stands, and so is what the lists show (squads.go, Dirty, Save, Refresh; *)
(* skills.go, Refresh).                                                    *)
CleanIsOnDisk ==
    /\ squads.mode # "list" /\ ~Dirty /\ squads.editing # NoSquad =>
            /\ squads.editing.id \in DOMAIN disk.squads
            /\ disk.squads[squads.editing.id] = Catalogued(squads.editing)
    /\ ui.screen = "squads" => squads.saved = disk.squads
    /\ ui.screen = "skills" => skills.list = disk.skills

(* Whatever is added, dropped or changed in a squad, no two of its members *)
(* have one id or stand on one cell (squads.go, freeID, freeSlot, cycle).  *)
NoTwoMembersClash ==
    LET units == IF squads.mode = "unit" THEN Commit(squads).editing.units ELSE squads.editing.units
    IN  \A i, j \in DOMAIN units :
            i # j => units[i].id # units[j].id /\ units[i].slot # units[j].slot

(* Following the way back from a screen nobody finds on the menu leads to  *)
(* one that raises it, however many were raised over it and left: a battle *)
(* goes back to the fight it was raised from, with a description in        *)
(* between or not (model.go, raisedOver).                                  *)
WayBack ==
    LET raiser == [preview |-> {"browse"}, chart |-> {"elements"}, play |-> {"fight"},
                   blurb |-> {"browse", "skills", "play"}]
    IN  /\ ui.screen \in DOMAIN raiser => ui.raisedFrom \in raiser[ui.screen]
        /\ ui.screen = "blurb" /\ ui.raisedFrom = "play" => ui.raisedOver = "fight"

=============================================================================
