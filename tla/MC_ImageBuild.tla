---------------------------- MODULE MC_ImageBuild ----------------------------
(***************************************************************************)
(* One or two Workshops.  The devcontainers of the first set differ in what *)
(* the assembly tests: init, tools, account, trust bundle, services, clone. *)
(* Two Workshops share the cache in the deployments of the second set.      *)
(***************************************************************************)
EXTENDS ImageBuild, TLC

CONSTANTS w1, w2

Tree(files, init, account) ==
    [files |-> files, init |-> init, sbin |-> "inside", vscode |-> account]

Plain == Tree(Files, "own", "locked")
Slim == Tree(Tools, "none", "absent")
Headless == Tree(Tools \cup {"systemd"}, "none", "open")
Bare == Tree({"bash", "env"}, "own", "open")

\* An init of its own and no systemd; and trees whose /sbin is an absolute
\* link, with and without systemd.
Busybox == Tree(Tools, "own", "locked")
Linked == [Plain EXCEPT !.sbin = "outside"]
Stray == [Slim EXCEPT !.sbin = "outside"]

Wants(base, clone, services, declared, ca) ==
    [base |-> base, repo |-> "public", private |-> FALSE, needs |-> {},
     egress |-> {}, buildEgress |-> {}, ownList |-> FALSE,
     declared |-> declared, clone |-> clone, services |-> services,
     ca |-> ca]

Common == Wants(Plain, TRUE, Services, "plain", FALSE)

\* Sources in the forge of the installation, read with credentials.
Forge == [Common EXCEPT !.repo = "forge", !.private = TRUE]

\* A build that downloads, with a list of its own or the list of the pod.
OwnList == [Common EXCEPT !.needs = Hosts, !.buildEgress = Hosts,
                          !.ownList = TRUE]
EmptyList == [Common EXCEPT !.needs = Hosts, !.egress = Hosts,
                            !.ownList = TRUE]

Alone(source, builds, pushed, s3) ==
    [source |-> (w1 :> source) @@ (w2 :> <<>>),
     builds |-> (w1 :> builds) @@ (w2 :> FALSE),
     pushed |-> (w1 :> pushed) @@ (w2 :> <<>>),
     running |-> {w1}, s3 |-> s3, reproducible |-> FALSE, faults |-> 2]

Together(s3, reproducible) ==
    [source |-> [w \in {w1, w2} |-> Common],
     builds |-> [w \in {w1, w2} |-> TRUE],
     pushed |-> [w \in {w1, w2} |-> <<>>],
     running |-> {}, s3 |-> s3, reproducible |-> reproducible, faults |-> 1]

MCWorkshops == {w1, w2}

MCScenarios ==
    { Alone(Wants(Plain, TRUE, {"ide"}, "plain", TRUE), TRUE, <<>>, TRUE),
      Alone(Wants(Slim, FALSE, {}, "unusable", TRUE), TRUE, <<>>, TRUE),
      Alone(Wants(Plain, FALSE, {}, "plain", FALSE), TRUE, <<>>, TRUE),
      Alone(Wants(Headless, TRUE, {"terminal"}, "plain", FALSE), TRUE, <<>>,
            TRUE),
      Alone(Wants(Bare, TRUE, {}, "plain", FALSE), TRUE, <<>>, TRUE),
      Alone(Wants(Busybox, FALSE, {}, "plain", FALSE), TRUE, <<>>, TRUE),
      Alone(Wants(Linked, FALSE, {}, "plain", FALSE), TRUE, <<>>, TRUE),
      Alone(Wants(Stray, FALSE, {}, "plain", FALSE), TRUE, <<>>, TRUE),
      Alone(Common, FALSE, <<>>, TRUE),
      Alone(Forge, TRUE, <<>>, TRUE),
      Alone(OwnList, TRUE, <<>>, TRUE),
      Alone(EmptyList, TRUE, <<>>, TRUE),
      Alone(Common, FALSE, Slim, FALSE),
      Together(TRUE, FALSE),
      [Together(TRUE, TRUE) EXCEPT !.faults = 0] }

\* Two Workshops over a volume that holds one image, nothing failing.
EvictionScenarios ==
    { [Together(TRUE, FALSE) EXCEPT !.running = {w1}, !.faults = 0] }
=============================================================================
