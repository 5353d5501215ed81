------------------------------- MODULE MC_Pod -------------------------------
(* Four pods, each with room for one thing: a squad and its tokens, the      *)
(* refusals and the detector, the egress file and its reload, and             *)
(* identity-proxy with its rules and its refresh. Then three namespaces: a    *)
(* campaign where one Workshop calls a service of the other, in a full        *)
(* installation and in a bare one, and a Workshop that users suspend.         *)
EXTENDS Pod

Caller == [egress |-> 0, simulators |-> FALSE, exported |-> FALSE, targets |-> {"b"},
           campaign |-> TRUE, desired |-> "Running"]
Called == [Caller EXCEPT !.exported = TRUE, !.targets = {}]
MC_Specs == [w \in Members |-> IF w = "a" THEN Caller ELSE Called]

NoSquad == [members |-> {}, openbao |-> TRUE, litellm |-> TRUE, git |-> TRUE,
            changes |-> 0, mishaps |-> 0, specs |-> MC_Specs]

Traffic ==
    {[key |-> TRUE, identity |-> FALSE, file |-> {"h1"},
      tools |-> {}, traffic |-> {"http", "connect"}, accepted |-> 2, edits |-> 0, time |-> 2],
     [key |-> FALSE, identity |-> FALSE, file |-> {"h1"},
      tools |-> {"enable_simulator"}, traffic |-> Kind, accepted |-> 3, edits |-> 0, time |-> 2],
     [key |-> FALSE, identity |-> FALSE, file |-> {"h1"},
      tools |-> {"egress"}, traffic |-> Kind, accepted |-> 1, edits |-> 3, time |-> 0],
     [key |-> FALSE, identity |-> TRUE, file |-> {"h1", "h2"},
      tools |-> {}, traffic |-> {"http"}, accepted |-> 1, edits |-> 0, time |-> 0]}

Silent == [key |-> FALSE, identity |-> FALSE, file |-> {}, tools |-> {},
           traffic |-> {}, accepted |-> 0, edits |-> 0, time |-> 0]

Campaigns ==
    {[NoSquad EXCEPT !.members = {"a", "b"}, !.changes = 1],
     [NoSquad EXCEPT !.members = {"a", "b"}, !.mishaps = 1],
     [NoSquad EXCEPT !.members = {"a", "b"}, !.openbao = FALSE, !.litellm = FALSE,
                     !.git = FALSE],
     [NoSquad EXCEPT !.members = {"a"}, !.changes = 2, !.mishaps = 1]}

MC_Configurations == Traffic \cup {Silent}

MC_Squads == Campaigns \cup {NoSquad}

Narrow == [hosts |-> {"h1"}, secret |-> "s1"]
Wide == [hosts |-> {"h1", "h2"}, secret |-> "s2"]
MC_RuleSets == {<<>>, <<Narrow, Wide>>}
=============================================================================
