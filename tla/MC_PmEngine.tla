----------------------------- MODULE MC_PmEngine -----------------------------
(* Five tickets.  The first has the budgets the engine uses, and every loop  *)
(* of it can be exhausted.  The second is launched twice with one fault; its *)
(* backend and its frontend, which consumes the contract of the backend, are *)
(* proposed in the right and in the wrong order.  The others are answered at *)
(* any moment, whether or not a pause waits for an answer: twice with one    *)
(* fault; once, between two launches that may plan for different branches;   *)
(* twice, between two launches.                                              *)
EXTENDS PmEngine, TLC

CONSTANTS i1, i2

MC_Invocations == {i1, i2}
Symmetry == Permutations(MC_Invocations)

MC_Single == [id |-> "task-1", needs |-> "none", scope |-> {"**"}]
Backend == [id |-> "task-1", needs |-> "none", scope |-> {"api"}]
Frontend == [id |-> "task-2", needs |-> "task-1", scope |-> {"web"}]
Other == [id |-> "task-2", needs |-> "none", scope |-> {"**"}]

Exhausting ==
    [proposals |-> {}, verdicts |-> Verdict, facts |-> BOOLEAN, corrections |-> 3,
     architecture |-> 3, reviews |-> 3, launches |-> 1, answers |-> 0, faults |-> 0,
     atOnce |-> 1]
Relaunched ==
    [proposals |-> {<<Backend, Frontend>>, <<Frontend, Backend>>}, verdicts |-> {"approve"},
     facts |-> {FALSE}, corrections |-> 0, architecture |-> 1, reviews |-> 1,
     launches |-> 2, answers |-> 0, faults |-> 1, atOnce |-> 2]
Answered ==
    [Relaunched EXCEPT !.proposals = {}, !.launches = 1, !.answers = 2]
Branches ==
    [Relaunched EXCEPT !.proposals = {<<Other>>}, !.answers = 1, !.faults = 0]
AnsweredAgain ==
    [Relaunched EXCEPT !.proposals = {}, !.answers = 2, !.atOnce = 1]

MC_Tickets == {Exhausting, Relaunched, Answered, Branches, AnsweredAgain}
=============================================================================
