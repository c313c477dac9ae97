---------------------------- MODULE MCDocuments ----------------------------
(* The keys are two that a live state has; an alien payload that is         *)
(* short of keys and one whose keys are ill-typed.                          *)
EXTENDS Documents, TLC

CONSTANTS o, p, a, x, y

MCObject == {o, p}
MCText == {x, y}
Alike == Permutations(MCObject) \cup Permutations(MCText)
MCArray == {a}
MCKey == {"players", "name"}
MCCode == {"soft_stop", "application_instance_status", "live_state", "allocated",
           "metadata", "reverse_metadata", "custom_command", "host_information",
           "application_instance_information"}
MCAlien == {<<>>, ("players" :> <<"int", 1>>) @@ ("name" :> <<"int", 1>>),
            "data" :> <<"array", <<>>>>}
=============================================================================
