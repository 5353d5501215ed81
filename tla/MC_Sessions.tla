---------------------------- MODULE MC_Sessions ----------------------------
(* One of each kind of session. The editor has two requests at a time, the  *)
(* fewest that race on the cookie.                                          *)
EXTENDS Sessions

MC_Kinds ==
    {[kind |-> "exec", faults |-> 2, rotate |-> FALSE, requests |-> {}],
     [kind |-> "run", faults |-> 1, rotate |-> FALSE, requests |-> {}],
     [kind |-> "editor", faults |-> 2, rotate |-> TRUE, requests |-> {1, 2}],
     [kind |-> "terminal", faults |-> 2, rotate |-> TRUE, requests |-> {1, 2}],
     [kind |-> "ports", faults |-> 1, rotate |-> TRUE, requests |-> {1}],
     [kind |-> "approval", faults |-> 0, rotate |-> FALSE, requests |-> {}]}
=============================================================================
