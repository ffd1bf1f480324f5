------------------------------- MODULE MCEditor -------------------------------
(***************************************************************************)
(* The editor over a smaller game than MCForge's: one character who grows  *)
(* out of one form into another, and one hidden, so that a second member   *)
(* of a squad is of the same character and needs an id and a cell of its   *)
(* own; two skills, one of them learned in the later form only.            *)
(***************************************************************************)
EXTENDS Editor, MCForge

MCTwoCells == {<<0, 0>>, <<1, 0>>}
MCAffinities == {<<"fire">>}
MCOffered ==
    [skills |-> [hit |-> Skill("neutral", 0), torch |-> Skill("fire", 0)],
     origins |-> [saga |-> [title |-> "Saga"]],
     species |-> [plant |-> [name |-> "Plant"]],
     passives |-> {},
     archetypes |-> [brute |-> [column |-> 0, stats |-> Even, skills |-> <<"hit">>,
                                passives |-> <<>>]],
     characters |->
        [ash |-> [name |-> "Ash", origin |-> "saga", archetype |-> "brute", image |-> "art",
                  element |-> <<"fire">>, hidden |-> FALSE, species |-> <<>>,
                  stages |-> <<Stage("cub", 1, "", <<>>), Stage("wolf", 3, "", <<>>)>>,
                  skills |-> <<Learned("hit", 1, {}), Learned("torch", 1, {"wolf"})>>,
                  passives |-> <<>>],
         ivy |-> [name |-> "Ivy", origin |-> "saga", archetype |-> "brute", image |-> "art",
                  element |-> <<"wind">>, hidden |-> TRUE, species |-> <<>>,
                  stages |-> <<Stage("seed", 1, "", <<>>)>>,
                  skills |-> <<Learned("hit", 1, {})>>, passives |-> <<>>]],
     builds |-> <<>>,
     squads |-> [first |-> [name |-> "", units |-> <<Unit("ash", 4, "", <<0, 0>>, <<"hit">>)>>]],
     battles |-> {}]
===============================================================================
