------------------------------ MODULE PmEngine ------------------------------
(* pm-engine: one ticket (one LangGraph thread) driven from its analysis to  *)
(* the merged and validated Pull Request.  The graph, its nodes and its      *)
(* routing functions are those of graph.py and nodes.py; the runner that     *)
(* launches it, pauses it for a human and resumes it is runner.py, called by *)
(* the handlers of main.py.  LangGraph itself, the forge and the Workshops   *)
(* are external and behave as nodes.py expects.                              *)
(*                                                                           *)
(* Nothing keeps two invocations of the thread apart: a launch creates a     *)
(* task and an answer runs in its request, whatever else is running.  An     *)
(* invocation reads the last checkpoint once, goes on in memory, and writes  *)
(* a checkpoint after each superstep.                                        *)
(*                                                                           *)
(* A node whose calls change something outside the engine one at a time      *)
(* (provisioning, delegation, opening, suspending, merging, validating) runs *)
(* in several steps, so that the process can die between any two of them.    *)
EXTENDS Integers, Sequences, FiniteSets, Functions

CONSTANTS
    Tickets,         \* the tickets under study, see Ticket
    Invocations,     \* the places for invocations that run at the same time
    Single,          \* the one sub-task ("task-1", every file) of a fallback
    Everything,      \* the catch-all scope
    None,
    RecursionLimit   \* _RECURSION_LIMIT

VARIABLES
    ticket,      \* what the models may answer, the three budgets, the bounds
    saved,       \* the last checkpoint: the PMWorkflowState, the nodes to run
    inv,         \* the invocations
    ws,          \* the phase of each Workshop of the ticket
    credentials, \* the Workshops that hold a git credential
    forge,       \* the Pull Requests, by number; approved is history: the
                 \* pause for this one was answered by an approval
    row,         \* the row of pm_reviews for this thread
    launches, answers, faults

scheduler == <<saved, inv>>
world == <<ws, credentials, forge>>
vars == <<ticket, scheduler, world, row, launches, answers, faults>>

(* The answers of a reviewer; "none" before the first.                        *)
Verdict == {"approve", "request_changes"}

(* A ticket: the plans and the verdicts the models can answer for it, the    *)
(* facts that may be found (an empty repository, passing tests, sensitive or *)
(* infrastructure paths in the diff), the budgets that initial_state gives   *)
(* it (max_correction_attempts, max_architecture_review_attempts,            *)
(* max_review_attempts), and four bounds of the model: the launches, the     *)
(* answers to the review, the faults (exceptions, restarts, Workshops        *)
(* resumed by hand), and the invocations that may run at once.               *)
Ticket(t) ==
    /\ DOMAIN t = {"proposals", "verdicts", "facts", "corrections", "architecture", "reviews",
                   "launches", "answers", "faults", "atOnce"}
    /\ t.verdicts \subseteq Verdict /\ t.facts \subseteq BOOLEAN
    /\ {t.corrections, t.architecture, t.reviews, t.launches, t.answers, t.faults, t.atOnce} \subseteq Nat

(* The answer of the planner is a list; an empty one is not used.            *)
ASSUME TicketsAssumption ==
    \A t \in Tickets :
        /\ Ticket(t)
        /\ \A plan \in t.proposals : Len(plan) \in Nat \ {0} /\ DOMAIN plan = 1..Len(plan)

(* The supersteps of the longest invocation: every loop taken until its      *)
(* budget is spent (4 nodes of planning, 4 of correction, 7 of review), and  *)
(* the 14 nodes of a ticket that is asked for no change.                     *)
Again(attempts) == IF attempts = 0 THEN 0 ELSE attempts - 1
Longest(t) == 14 + 4 * Again(t.architecture) + 4 * t.corrections + 7 * Again(t.reviews)

(* _RECURSION_LIMIT is 150, and the budgets of initial_state (3 each) make   *)
(* 48.                                                                       *)
ASSUME LimitAssumption ==
    RecursionLimit \in Nat /\ \A t \in Tickets : Longest(t) <= RecursionLimit

Plans == UNION {t.proposals : t \in Tickets} \cup {<<Single>>}
Task == UNION {Range(plan) : plan \in Plans}
Name == {task.id : task \in Task} \cup {"qa"}

Blank ==
    [plan |-> <<>>, greenfield |-> FALSE, architecture |-> "none",
     architectureAttempts |-> 0, passed |-> FALSE, corrections |-> 0,
     code |-> "none", securityNeeded |-> FALSE, security |-> "none",
     opsNeeded |-> FALSE, ops |-> "none", reviews |-> 0,
     pr |-> 0, decision |-> "none", qa |-> "none"]

(* An invocation: whether it runs its node or returns to the runner, the     *)
(* answer that resume_review came with ("none" for start_workflow), its own  *)
(* state and nodes, and how far it is in the calls of the node: a sub-task   *)
(* and a step.  pushed is history: the sub-tasks the node has pushed.        *)
Idle ==
    [run |-> "idle", answer |-> "none", st |-> Blank, next |-> {}, task |-> 1,
     step |-> "start", pushed |-> {}, supersteps |-> 0]

(* A thread nobody has launched yet.                                         *)
Init ==
    /\ ticket \in Tickets
    /\ saved = [st |-> Blank, next |-> {}]
    /\ inv = [i \in Invocations |-> Idle]
    /\ ws = [name \in Name |-> "absent"] /\ credentials = {}
    /\ forge = <<>> /\ row = "none"
    /\ launches = 0 /\ answers = 0 /\ faults = 0

-----------------------------------------------------------------------------
(* The scheduler of LangGraph: a superstep ends when its nodes have finished, *)
(* and the next one runs every node they lead to; the limit is checked        *)
(* before it starts.                                                          *)

At(i, node, step) == inv[i].run = "running" /\ node \in inv[i].next /\ inv[i].step = step

Advanced(me, s, targets) ==
    IF targets # {} /\ me.supersteps + 1 > RecursionLimit
    THEN [Idle EXCEPT !.run = "out_of_steps"]
    ELSE [me EXCEPT !.st = s, !.next = targets, !.task = 1, !.step = "start",
                    !.pushed = {}, !.supersteps = @ + 1,
                    !.run = IF targets = {} THEN "returning" ELSE "running"]

Finish(i, s, targets) ==
    /\ saved' = [st |-> s, next |-> targets]
    /\ inv' = [inv EXCEPT ![i] = Advanced(@, s, targets)]

Continue(i, task, step) ==
    /\ inv' = [inv EXCEPT ![i] = [@ EXCEPT !.task = task, !.step = step]]
    /\ UNCHANGED saved

(* An exception leaves the node: the invocation ends, the checkpoint stays    *)
(* before the node.                                                          *)
Raise(i) == inv' = [inv EXCEPT ![i] = Idle] /\ UNCHANGED saved

Elsewhere == UNCHANGED <<ticket, row, launches, answers, faults>>
Pure(i, s, targets) == Finish(i, s, targets) /\ Elsewhere /\ UNCHANGED world

-----------------------------------------------------------------------------
(* Planning.                                                                 *)

AnalyzeIssue(i) ==
    /\ At(i, "AnalyzeIssue", "start")
    /\ Pure(i, inv[i].st, {"PlanParallelTasks"})

PlanIsCredible_AnyOrder(plan) ==
    \A i, j \in DOMAIN plan : i < j => plan[i].scope \cap plan[j].scope = {}

(* _plan_is_credible: a producer comes before its consumers, and no two      *)
(* sub-tasks claim the same files.                                           *)
PlanIsCredible(plan) ==
    \/ Len(plan) < 2
    \/ /\ \A i \in DOMAIN plan :
            /\ plan[i].needs # None => \E j \in 1 .. i - 1 : plan[j].id = plan[i].needs
            /\ Everything \notin plan[i].scope
       /\ \A i, j \in DOMAIN plan : i < j => plan[i].scope \cap plan[j].scope = {}

Retained(proposal, greenfield) ==
    IF (greenfield /\ Len(proposal) > 1) \/ ~PlanIsCredible(proposal)
    THEN <<Single>> ELSE proposal

RouteAfterPlan(s) ==
    IF s.greenfield THEN {"ExpandGreenfieldSpec"} ELSE {"ReviewArchitecture"}

PlanParallelTasks(i) ==
    /\ At(i, "PlanParallelTasks", "start")
    /\ \E proposal \in ticket.proposals \cup {<<Single>>}, greenfield \in ticket.facts :
         LET s == [inv[i].st EXCEPT !.plan = Retained(proposal, greenfield), !.greenfield = greenfield]
         IN  Pure(i, s, RouteAfterPlan(s))

ExpandGreenfieldSpec(i) ==
    /\ At(i, "ExpandGreenfieldSpec", "start")
    /\ Pure(i, inv[i].st, {"ReviewArchitecture"})

RouteAfterArchitectureReview(s) ==
    IF s.architecture # "request_changes" \/ s.architectureAttempts + 1 >= ticket.architecture
    THEN {"ProvisionWorkshop"} ELSE {"ArchitectureReconsideration"}

(* An answer that cannot be parsed counts as an approval.                    *)
ReviewArchitecture(i) ==
    /\ At(i, "ReviewArchitecture", "start")
    /\ \E verdict \in ticket.verdicts :
         LET s == [inv[i].st EXCEPT !.architecture = verdict]
         IN  Pure(i, s, RouteAfterArchitectureReview(s))

ArchitectureReconsideration(i) ==
    /\ At(i, "ArchitectureReconsideration", "start")
    /\ Pure(i, [inv[i].st EXCEPT !.architectureAttempts = @ + 1], {"PlanParallelTasks"})

-----------------------------------------------------------------------------
(* Provisioning: for each sub-task its branch, its Workshop unless it        *)
(* exists, its git credential; then the wait for all of them to run.         *)

Workshop(i) == inv[i].st.plan[inv[i].task].id
IsLast(i) == inv[i].task = Len(inv[i].st.plan)

(* The defect the comment of provision_workshop recalls: the credential only *)
(* follows a creation.                                                       *)
CreateWorkshop_SkipsCredential(i) ==
    /\ At(i, "ProvisionWorkshop", "start")
    /\ ws' = [ws EXCEPT ![Workshop(i)] = IF @ = "absent" THEN "starting" ELSE @]
    /\ CASE ws[Workshop(i)] = "absent" -> Continue(i, inv[i].task, "credential")
         [] ws[Workshop(i)] # "absent" /\ IsLast(i) -> Continue(i, 1, "await")
         [] OTHER -> Continue(i, inv[i].task + 1, "start")
    /\ Elsewhere /\ UNCHANGED <<credentials, forge>>

CreateWorkshop(i) ==
    /\ At(i, "ProvisionWorkshop", "start")
    /\ ws' = [ws EXCEPT ![Workshop(i)] = IF @ = "absent" THEN "starting" ELSE @]
    /\ Continue(i, inv[i].task, "credential")
    /\ Elsewhere /\ UNCHANGED <<credentials, forge>>

(* The credential is written for a Workshop that already existed too: the    *)
(* process may have died between the two calls.                              *)
SetGitCredential(i) ==
    /\ At(i, "ProvisionWorkshop", "credential")
    /\ credentials' = credentials \cup {Workshop(i)}
    /\ IF IsLast(i) THEN Continue(i, 1, "await") ELSE Continue(i, inv[i].task + 1, "start")
    /\ Elsewhere /\ UNCHANGED <<ws, forge>>

(* _await_workshop_running: a Workshop that never runs (still starting,      *)
(* Failed past the grace period, suspended or gone) ends in an exception.    *)
AwaitWorkshopRunning(i) ==
    /\ At(i, "ProvisionWorkshop", "await")
    /\ \/ /\ ws[Workshop(i)] = "running"
          /\ IF IsLast(i) THEN Finish(i, inv[i].st, {"DelegateToOpencode"})
                              ELSE Continue(i, inv[i].task + 1, "await")
       \/ ws[Workshop(i)] # "running" /\ Raise(i)
    /\ Elsewhere /\ UNCHANGED world

-----------------------------------------------------------------------------
(* Delegation, integration, tests.  A command runs only in a Workshop that   *)
(* runs, and one that does not exit with 0 is an exception here.             *)

RunAgent(i) ==
    /\ At(i, "DelegateToOpencode", "start")
    /\ \/ ws[Workshop(i)] = "running" /\ Continue(i, inv[i].task, "push")
       \/ Raise(i)
    /\ Elsewhere /\ UNCHANGED world

(* The sub-task is on its branch, and the next one starts.                   *)
NextTask(i) ==
    /\ inv' = [inv EXCEPT ![i] = [inv[i] EXCEPT !.task = @ + 1, !.step = "start",
                                              !.pushed = @ \cup {Workshop(i)}]]
    /\ UNCHANGED saved

CommitAndPush(i) ==
    /\ At(i, "DelegateToOpencode", "push")
    /\ \/ /\ ws[Workshop(i)] = "running" /\ Workshop(i) \in credentials
          /\ IF IsLast(i) THEN Finish(i, inv[i].st, {"IntegrateSubTasks"}) ELSE NextTask(i)
       \/ Raise(i)
    /\ Elsewhere /\ UNCHANGED world

(* A merge that conflicts is reported, never an exception.                   *)
IntegrateSubTasks(i) ==
    /\ At(i, "IntegrateSubTasks", "start")
    /\ Pure(i, inv[i].st, {"RunDevcontainerTests"})

RouteAfterTests(s) ==
    IF s.passed \/ s.corrections >= ticket.corrections THEN {"ReviewCode"} ELSE {"AutoCorrectionLoop"}

RunDevcontainerTests(i) ==
    /\ At(i, "RunDevcontainerTests", "start")
    /\ \E passed \in ticket.facts :
         LET s == [inv[i].st EXCEPT !.passed = passed]
         IN  Pure(i, s, RouteAfterTests(s))

AutoCorrectionLoop_NotCounted(i) ==
    /\ At(i, "AutoCorrectionLoop", "start")
    /\ Pure(i, inv[i].st, {"DelegateToOpencode"})

AutoCorrectionLoop(i) ==
    /\ At(i, "AutoCorrectionLoop", "start")
    /\ Pure(i, [inv[i].st EXCEPT !.corrections = @ + 1], {"DelegateToOpencode"})

-----------------------------------------------------------------------------
(* The reviews before the Pull Request.                                      *)

RouteAfterCodeReview(s) ==
    LET roles == {role \in {"ReviewSecurity", "ReviewOps"} :
                    (role = "ReviewSecurity" /\ s.securityNeeded) \/ (role = "ReviewOps" /\ s.opsNeeded)}
    IN  IF roles = {} THEN {"ReviewGate"} ELSE roles

(* Whether the diff touches sensitive or infrastructure paths is decided     *)
(* here; the verdicts of the two conditional roles are left as they are.     *)
ReviewCode(i) ==
    /\ At(i, "ReviewCode", "start")
    /\ \E verdict \in ticket.verdicts, sensitive, infrastructure \in ticket.facts :
         LET s == [inv[i].st EXCEPT !.code = verdict, !.securityNeeded = sensitive,
                                    !.opsNeeded = infrastructure]
         IN  Pure(i, s, RouteAfterCodeReview(s))

(* The two roles run in the same superstep, each writing its own verdict,    *)
(* and LangGraph applies the writes of a superstep together.                 *)
ReviewSecurity(s, roles, verdict) ==
    IF "ReviewSecurity" \in roles THEN [s EXCEPT !.security = verdict] ELSE s

ReviewOps(s, roles, verdict) ==
    IF "ReviewOps" \in roles THEN [s EXCEPT !.ops = verdict] ELSE s

ConditionalReviews(i) ==
    /\ At(i, "ReviewSecurity", "start") \/ At(i, "ReviewOps", "start")
    /\ \E security, ops \in ticket.verdicts :
         LET roles == inv[i].next
         IN  Pure(i, ReviewOps(ReviewSecurity(inv[i].st, roles, security), roles, ops),
                  {"ReviewGate"})

RouteAfterReview_CodeOnly(s) ==
    IF s.code # "request_changes" \/ s.reviews + 1 >= ticket.reviews
    THEN {"OpenPullRequest"} ELSE {"ReviewReconsideration"}

RouteAfterReview(s) ==
    IF "request_changes" \notin {s.code, s.security, s.ops} \/ s.reviews + 1 >= ticket.reviews
    THEN {"OpenPullRequest"} ELSE {"ReviewReconsideration"}

ReviewGate(i) ==
    /\ At(i, "ReviewGate", "start")
    /\ Pure(i, inv[i].st, RouteAfterReview(inv[i].st))

ReviewReconsideration(i) ==
    /\ At(i, "ReviewReconsideration", "start")
    /\ Pure(i, [inv[i].st EXCEPT !.reviews = @ + 1], {"DelegateToOpencode"})

-----------------------------------------------------------------------------
(* The Pull Request, the human, the merge.                                   *)

(* The branch of the first sub-task is the head of the Pull Request, and the *)
(* forge refuses a second open one for the same branch; an empty one stays   *)
(* open although the node raises.                                            *)
CreatePullRequest(i) ==
    /\ At(i, "OpenPullRequest", "start")
    /\ LET head == inv[i].st.plan[1].id
           taken == \E pr \in DOMAIN forge : forge[pr].head = head /\ forge[pr].state = "open"
       IN  \/ /\ ~taken
              /\ forge' = Append(forge, [head |-> head, state |-> "open", approved |-> FALSE])
              /\ Continue(i, Len(forge) + 1, "count")
           \/ taken /\ Raise(i) /\ UNCHANGED forge
    /\ Elsewhere /\ UNCHANGED <<ws, credentials>>

(* The number create_pr returned enters the state when the node ends.        *)
CountChangedFiles(i) ==
    /\ At(i, "OpenPullRequest", "count")
    /\ \/ Finish(i, [inv[i].st EXCEPT !.pr = inv[i].task], {"SuspendWhileWaitingReview"})
       \/ Raise(i)
    /\ Elsewhere /\ UNCHANGED world

Suspended(phase) == IF phase = "absent" THEN phase ELSE "suspended"

SuspendWhileWaitingReview(i) ==
    /\ At(i, "SuspendWhileWaitingReview", "start")
    /\ ws' = [ws EXCEPT ![Workshop(i)] = Suspended(@)]
    /\ IF IsLast(i) THEN Finish(i, inv[i].st, {"AwaitHitlApproval"})
                        ELSE Continue(i, inv[i].task + 1, "start")
    /\ Elsewhere /\ UNCHANGED <<credentials, forge>>

(* interrupt: the invocation returns with the node still to run, unless it   *)
(* was resumed at this very node.                                            *)
AwaitHitlApproval(i) ==
    /\ At(i, "AwaitHitlApproval", "start")
    /\ inv' = [inv EXCEPT ![i] = [@ EXCEPT !.run = "returning"]]
    /\ Elsewhere /\ UNCHANGED <<saved, world>>

Decided_KeepsFirst(s, decision) ==
    [s EXCEPT !.decision = IF @ = "none" THEN decision ELSE @]

Decided(s, decision) == [s EXCEPT !.decision = decision]

RouteAfterHitl(s) == IF s.decision = "approved" THEN {"MergeAndClose"} ELSE {}

(* The interrupted node returns the decision.                                *)
TakeAnswer(i) ==
    /\ At(i, "AwaitHitlApproval", "answered")
    /\ LET s == Decided(inv[i].st, inv[i].answer)
       IN  Finish(i, s, RouteAfterHitl(s))
    /\ forge' = [forge EXCEPT ![inv[i].st.pr].approved = @ \/ inv[i].answer = "approved"]
    /\ Elsewhere /\ UNCHANGED <<ws, credentials>>

(* The Pull Request is merged before the comment on the ticket is posted.    *)
MergePullRequest(i) ==
    /\ At(i, "MergeAndClose", "start")
    /\ LET pr == inv[i].st.pr
       IN  \/ /\ forge[pr].state = "open"
              /\ forge' = [forge EXCEPT ![pr].state = "merged"]
              /\ Continue(i, 1, "comment")
           \/ Raise(i) /\ UNCHANGED forge
    /\ Elsewhere /\ UNCHANGED <<ws, credentials>>

CommentAndClose(i) ==
    /\ At(i, "MergeAndClose", "comment")
    /\ Pure(i, inv[i].st, {"IndexKnowledge"})

IndexKnowledge(i) ==
    /\ At(i, "IndexKnowledge", "start")
    /\ Pure(i, inv[i].st, {"QAValidation"})

-----------------------------------------------------------------------------
(* The validation after the merge, in a Workshop of its own.  Nothing in it  *)
(* raises: what fails degrades the verdict.                                  *)

(* _provision_qa_workshop: a Workshop this node suspended before a restart   *)
(* is resumed.                                                               *)
ProvisionQaWorkshop(i) ==
    /\ At(i, "QAValidation", "start")
    /\ \/ /\ ws' = [ws EXCEPT !["qa"] = IF @ \in {"absent", "suspended"} THEN "starting" ELSE @]
          /\ Continue(i, 1, "await")
       \/ Continue(i, 1, "degraded") /\ UNCHANGED ws
    /\ Elsewhere /\ UNCHANGED <<credentials, forge>>

(* The agent runs (or not) and its Workshop is suspended, at best effort.    *)
ExerciseApplication(i) ==
    /\ At(i, "QAValidation", "await")
    /\ IF ws["qa"] = "running" THEN Continue(i, 1, "ran") ELSE Continue(i, 1, "degraded")
    /\ \E phase \in {ws["qa"], Suspended(ws["qa"])} : ws' = [ws EXCEPT !["qa"] = phase]
    /\ Elsewhere /\ UNCHANGED <<credentials, forge>>

(* The verdict is a pass only when the agent ran and said so.                *)
FinishQaValidation(i) ==
    /\ At(i, "QAValidation", "ran") \/ At(i, "QAValidation", "degraded")
    /\ \E verdict \in {"pass", "fail"} :
         /\ verdict = "pass" => inv[i].step = "ran"
         /\ Pure(i, [inv[i].st EXCEPT !.qa = verdict], {})

-----------------------------------------------------------------------------
(* The runner, the process, the cluster.                                     *)

Live == {i \in Invocations : inv[i].run \in {"running", "returning"}}
Free(i) == i \notin Live /\ Cardinality(Live) < ticket.atOnce

(* start_workflow: a new invocation of the thread starts at the first node   *)
(* with the fields of initial_state; the fields it does not name keep their  *)
(* checkpointed value.  launch_workflow does not look whether one is already *)
(* running.                                                                  *)
StartWorkflow(i) ==
    /\ Free(i) /\ launches < ticket.launches
    /\ launches' = launches + 1
    /\ LET s == [saved.st EXCEPT !.corrections = 0, !.architectureAttempts = 0, !.reviews = 0]
       IN  /\ saved' = [st |-> s, next |-> {"AnalyzeIssue"}]
           /\ inv' = [inv EXCEPT ![i] = [Idle EXCEPT !.run = "running", !.st = s,
                                            !.next = {"AnalyzeIssue"}, !.supersteps = 1]]
    /\ UNCHANGED <<ticket, world, row, answers, faults>>

(* resume_review, called by decide_review: Command(resume=...) runs the      *)
(* nodes of the last checkpoint.  Only AwaitHitlApproval reads the answer:   *)
(* any other pending node is run again whatever it says, and a thread that   *)
(* has ended runs nothing.  Neither function looks at the state of the       *)
(* thread or of its review.                                                  *)
ResumeReview(i, decision) ==
    /\ Free(i) /\ launches > 0 /\ answers < ticket.answers
    /\ answers' = answers + 1
    /\ inv' = [inv EXCEPT ![i] =
                 [Idle EXCEPT !.run = IF saved.next = {} THEN "returning" ELSE "running",
                              !.answer = decision, !.st = saved.st, !.next = saved.next,
                              !.step = IF "AwaitHitlApproval" \in saved.next THEN "answered" ELSE "start",
                              !.supersteps = 1]]
    /\ UNCHANGED <<ticket, saved, world, row, launches, faults>>

(* _upsert_pending_review: the conflict clause only refreshes the address    *)
(* of the Pull Request.                                                      *)
UpsertPendingReview(status) == IF status = "none" THEN "pending" ELSE status

(* _mark_review_decided: an UPDATE, without effect when there is no row.     *)
MarkReviewDecided(status, decision) == IF status = "none" THEN status ELSE decision

(* The invocation has returned: start_workflow records the review when it    *)
(* was interrupted, resume_review records the answer it was called with.     *)
RecordReview(i) ==
    /\ inv[i].run = "returning"
    /\ inv' = [inv EXCEPT ![i] = Idle]
    /\ row' = CASE inv[i].answer # "none" -> MarkReviewDecided(row, inv[i].answer)
                [] inv[i].answer = "none" /\ inv[i].next # {} -> UpsertPendingReview(row)
                [] OTHER -> row
    /\ UNCHANGED <<ticket, saved, world, launches, answers, faults>>

(* The nodes that only compute, wait for the human, or never let an          *)
(* exception out.                                                            *)
Infallible ==
    {"ArchitectureReconsideration", "AutoCorrectionLoop", "ReviewGate", "ReviewReconsideration",
     "AwaitHitlApproval", "QAValidation"}

(* Any other call of a node that answers with an error: the forge, the       *)
(* model, the database, the API of Atelier.                                  *)
NodeRaises(i) ==
    /\ inv[i].run = "running" /\ inv[i].next \cap Infallible = {} /\ faults < ticket.faults
    /\ faults' = faults + 1
    /\ Raise(i)
    /\ UNCHANGED <<ticket, world, row, launches, answers>>

(* The process restarts: the invocations live in it and are gone.            *)
Restart ==
    /\ Live # {}
    /\ faults < ticket.faults
    /\ faults' = faults + 1
    /\ inv' = [i \in Invocations |-> Idle]
    /\ UNCHANGED <<ticket, saved, world, row, launches, answers>>

WorkshopReconciled(name) ==
    /\ \/ ws[name] = "starting" /\ \E phase \in {"running", "failed"} : ws' = [ws EXCEPT ![name] = phase]
       \/ ws[name] = "failed" /\ ws' = [ws EXCEPT ![name] = "running"]
    /\ Elsewhere /\ UNCHANGED <<scheduler, credentials, forge>>

(* Somebody resumes a suspended Workshop from the dashboard.                 *)
WorkshopResumed(name) ==
    /\ ws[name] = "suspended" /\ faults < ticket.faults
    /\ faults' = faults + 1
    /\ ws' = [ws EXCEPT ![name] = "starting"]
    /\ UNCHANGED <<ticket, scheduler, credentials, forge, row, launches, answers>>

Planning(i) ==
    \/ AnalyzeIssue(i) \/ PlanParallelTasks(i) \/ ExpandGreenfieldSpec(i) \/ ReviewArchitecture(i)
    \/ ArchitectureReconsideration(i)

Building(i) ==
    \/ CreateWorkshop(i) \/ SetGitCredential(i) \/ AwaitWorkshopRunning(i) \/ RunAgent(i)
    \/ CommitAndPush(i) \/ IntegrateSubTasks(i) \/ RunDevcontainerTests(i) \/ AutoCorrectionLoop(i)

Reviewing(i) ==
    \/ ReviewCode(i) \/ ConditionalReviews(i) \/ ReviewGate(i) \/ ReviewReconsideration(i)

Delivering(i) ==
    \/ CreatePullRequest(i) \/ CountChangedFiles(i) \/ SuspendWhileWaitingReview(i)
    \/ AwaitHitlApproval(i) \/ TakeAnswer(i) \/ MergePullRequest(i) \/ CommentAndClose(i)
    \/ IndexKnowledge(i) \/ ProvisionQaWorkshop(i) \/ ExerciseApplication(i) \/ FinishQaValidation(i)

Running(i) ==
    \/ StartWorkflow(i) \/ RecordReview(i) \/ NodeRaises(i)
    \/ \E decision \in {"approved", "rejected"} : ResumeReview(i, decision)

Next ==
    \/ \E i \in Invocations : Planning(i) \/ Building(i) \/ Reviewing(i) \/ Delivering(i) \/ Running(i)
    \/ \E name \in Name : WorkshopReconciled(name) \/ WorkshopResumed(name)
    \/ Restart

Spec == Init /\ [][Next]_vars

-----------------------------------------------------------------------------
(* Nothing is merged that a human has not approved: the pause for that very  *)
(* Pull Request was answered by an approval, even when the thread carries    *)
(* the decision of an earlier launch in its checkpoint, when several         *)
(* invocations of the thread interleave, and when answers come that no pause *)
(* was waiting for.  A rejection sent after the approval does not take it    *)
(* back: that is RejectionEndsGraph below.                                   *)
MergeNeedsApproval == \A pr \in DOMAIN forge : forge[pr].state = "merged" => forge[pr].approved

(* Every agent starts with the git credential of its Workshop in place, even *)
(* when the process died between the creation of a Workshop and the deposit, *)
(* and the next launch found the Workshop already there: without it the work *)
(* is never pushed.                                                          *)
AgentsCanPush ==
    \A i \in Invocations :
        At(i, "DelegateToOpencode", "start") =>
            {task.id : task \in Range(inv[i].st.plan)} \subseteq credentials

(* A sub-task that consumes the contract of another one of the plan starts   *)
(* when this delegation has pushed that other one to its branch: delegation  *)
(* follows the order of the plan, and a plan in another order is not         *)
(* retained.                                                                 *)
ContractPublishedFirst ==
    \A i \in Invocations :
        At(i, "DelegateToOpencode", "start") =>
            LET consumer == inv[i].st.plan[inv[i].task]
            IN  \A producer \in Range(inv[i].st.plan) \ {consumer} :
                    consumer.needs # None /\ consumer.needs = producer.id
                        => producer.id \in inv[i].pushed

(* When the human is asked, a verdict that still requests changes is the     *)
(* sign of a spent budget, as _outstanding_review_concerns relies on to show *)
(* it: no objection is ever passed over while an attempt is left.            *)
ObjectionMeansBudgetSpent ==
    "AwaitHitlApproval" \in saved.next =>
        LET s == saved.st
        IN  /\ "request_changes" \in {s.code, s.security, s.ops} => s.reviews + 1 >= ticket.reviews
            /\ s.architecture = "request_changes" => s.architectureAttempts + 1 >= ticket.architecture

(* The three budgets, spent in any order, never add up to the recursion      *)
(* limit: no healthy run is lost to a GraphRecursionError.                   *)
NeverOutOfSteps == \A i \in Invocations : inv[i].run # "out_of_steps"

(* The docstring of resume_review says of a rejection "pas de reprise        *)
(* ulterieure possible sur ce `thread_id`, `route_after_hitl` termine le     *)
(* graphe": the invocation that carries it merges nothing.                   *)
RejectionEndsGraph ==
    \A i \in Invocations : inv[i].answer = "rejected" => ~At(i, "MergeAndClose", "comment")
=============================================================================
