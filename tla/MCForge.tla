------------------------------- MODULE MCForge -------------------------------
(***************************************************************************)
(* A small game to author: one character who grows, one who forks into two *)
(* forms of different elements, a preset, a build and a squad; and a few   *)
(* drafts of each kind, those a book refuses among them.                   *)
(***************************************************************************)
EXTENDS Forge

MCChart == [cycles |-> {<<"fire", "wind", "earth">>}, mutual |-> {}, inert |-> {"neutral"},
            neutral |-> 10, advantage |-> 15, disadvantage |-> 7]
MCCeilings == [hp |-> 16, attack |-> 10, defense |-> 10, speed |-> 6, accuracy |-> 10, dodge |-> 10]
MCBounds == [headroom |-> 15, floorFraction |-> 5, maxAffinityScale |-> 5]
MCLimits == [maxEffectiveHP |-> 24, defenseConstant |-> 10]
MCFormation == {<<0, 0>>, <<0, 1>>, <<1, 0>>}
MCSlugs == {"ash", "ivy", "oak", "elm", "brute", "saga", "tale", "plant", "beast"}

Flat(n) == [base |-> n, max |-> n]
Even == [stat \in Stat |-> IF stat = "hp" THEN [base |-> 4, max |-> 12] ELSE Flat(4)]
Stage(name, level, after, affinity) ==
    [name |-> name, minLevel |-> level, after |-> after, element |-> affinity, stats |-> Even]
Learned(id, level, stages) == [id |-> id, atLevel |-> level, stages |-> stages]
Anybody == [elements |-> {}, archetypes |-> {}, characters |-> {}, species |-> {}, origins |-> {}]
Skill(element, power) ==
    [element |-> element, power |-> power, restrict |-> Anybody, unread |-> "spends"]
Unit(character, level, stage, slot, skills) ==
    [id |-> character, character |-> character, level |-> level, stage |-> stage, slot |-> slot,
     skills |-> skills, passives |-> <<>>]

MCShipped ==
    [skills |-> [hit |-> Skill("neutral", 1), torch |-> Skill("fire", 2), bite |-> Skill("neutral", 2),
                 gust |-> [Skill("wind", 1) EXCEPT !.restrict.species = {"plant"}]],
     origins |-> [saga |-> [title |-> "Saga"]],
     species |-> [plant |-> [name |-> "Plant"]],
     passives |-> {"grit"},
     archetypes |-> [brute |-> [column |-> 0, stats |-> Even, skills |-> <<"hit", "torch">>,
                                passives |-> <<Learned("grit", 1, {})>>]],
     characters |->
        [ash |-> [name |-> "Ash", origin |-> "saga", archetype |-> "brute", image |-> "art",
                  element |-> <<"fire">>, hidden |-> FALSE, species |-> <<>>,
                  stages |-> <<Stage("cub", 1, "", <<>>), Stage("wolf", 3, "", <<>>)>>,
                  skills |-> <<Learned("hit", 1, {}), Learned("torch", 2, {}),
                               Learned("bite", 1, {"wolf"})>>,
                  passives |-> <<Learned("grit", 2, {})>>],
         ivy |-> [name |-> "Ivy", origin |-> "saga", archetype |-> "brute", image |-> "art",
                  element |-> <<"wind">>, hidden |-> TRUE, species |-> <<"plant">>,
                  stages |-> <<Stage("seed", 1, "", <<>>), Stage("rose", 2, "seed", <<"earth">>),
                               Stage("thorn", 2, "seed", <<>>)>>,
                  skills |-> <<Learned("hit", 1, {}), Learned("gust", 1, {"seed", "thorn"})>>,
                  passives |-> <<>>]],
     builds |-> [wild |-> [character |-> "ash", name |-> "Wild", stage |-> "wolf",
                           skills |-> <<"hit", "bite">>, passives |-> <<"grit">>]],
     squads |-> [first |-> [name |-> "", units |-> <<Unit("ash", 4, "", <<0, 0>>, <<"bite">>),
                                                     Unit("ivy", 2, "rose", <<1, 0>>, <<"hit">>)>>]],
     battles |-> {}]

Draft == [id |-> "oak", name |-> "Oak", origin |-> "saga", archetype |-> "brute", image |-> "art",
          element |-> <<"fire">>, species |-> <<>>, skills |-> <<>>, stats |-> <<>>]
MCCharacterDrafts ==
    {Draft, [Draft EXCEPT !.element = <<"wind">>], [Draft EXCEPT !.id = "ash"],
     [Draft EXCEPT !.id = "elm", !.origin = "tale", !.species = <<"beast">>,
                   !.element = <<"fire", "wind">>, !.skills = <<"hit">>],
     [Draft EXCEPT !.id = "elm", !.origin = "tale", !.skills = <<"roar", "torch">>,
                   !.stats = [hp |-> Flat(5)]],
     [Draft EXCEPT !.stats = [hp |-> Flat(20)]]}
MCOriginDrafts == {[id |-> "tale", title |-> "Tale"], [id |-> "saga", title |-> "Again"]}
MCSpeciesDrafts == {[id |-> "beast", name |-> "Beast"]}
Asked(id, element, power) == [id |-> id, element |-> element, power |-> power, restrict |-> Anybody]
MCSkillDrafts ==
    {[Asked("roar", "neutral", 1) EXCEPT !.restrict.origins = {"tale"}],
     Asked("torch", "fire", 3), Asked("torch", "fire", 99), Asked("torch", "wind", 2),
     [Asked("hit", "neutral", 1) EXCEPT !.restrict.characters = {"ash"}],
     [Asked("bite", "neutral", 2) EXCEPT !.restrict.characters = {"ash"}],
     [Asked("bite", "neutral", 2) EXCEPT !.restrict.characters = {"ivy", "yew"}]}
Team(id, units) == [id |-> id, name |-> "", units |-> units]
MCSquadDrafts ==
    {Team("second", <<Unit("ivy", 2, "thorn", <<0, 0>>, <<"gust">>)>>),
     Team("first", <<Unit("ivy", 2, "", <<0, 0>>, <<"hit">>)>>),
     Team("first", <<Unit("ash", 1, "cub", <<0, 0>>, <<"bite">>)>>),
     Team("first", <<Unit("oak", 4, "", <<0, 0>>, <<"torch">>), Unit("ash", 3, "", <<0, 1>>, <<"hit">>)>>)}
=============================================================================
