-------------------------- MODULE PmEngine_proof --------------------------
(***************************************************************************)
(* Five properties of pm-engine for any tickets, plans, budgets, launches,   *)
(* answers, faults and invocations at once: nothing is merged that a human   *)
(* did not approve, no agent starts without the git credential of its        *)
(* Workshop nor before the contract it consumes is published, no objection   *)
(* is passed over while its budget lasts, and the budgets never take an      *)
(* invocation to the recursion limit.                                        *)
(*                                                                           *)
(* A position is a state and the nodes to run on it.  The checkpoint is one, *)
(* each running invocation is at one, and every launch, answer or superstep  *)
(* leads from one of them to another: what holds of every position on the    *)
(* graph (Sound) holds whatever the interleaving.  What an invocation knows  *)
(* besides, in the middle of a node, is Within.                              *)
(***************************************************************************)
EXTENDS PmEngine, TLAPS

-----------------------------------------------------------------------------
(* The graph of graph.py.                                                   *)

Roles == {"ReviewSecurity", "ReviewOps"}
Loops == {"ArchitectureReconsideration", "AutoCorrectionLoop", "ReviewReconsideration"}

Nodes == Loops \cup
    {"AnalyzeIssue", "PlanParallelTasks", "ExpandGreenfieldSpec", "ReviewArchitecture",
     "ProvisionWorkshop", "DelegateToOpencode", "IntegrateSubTasks", "RunDevcontainerTests",
     "ReviewCode", "ReviewGate", "OpenPullRequest", "SuspendWhileWaitingReview",
     "AwaitHitlApproval", "MergeAndClose", "IndexKnowledge", "QAValidation"}

\* A superstep runs one node, or the two conditional reviews.
Superstep(nodes) == nodes \subseteq Roles \/ \E n \in Nodes : nodes = {n}

\* The edges, where a node leads to: one node, the conditional reviews, or
\* the end.
Edge(n, targets) ==
    \/ n = "AnalyzeIssue" /\ targets = {"PlanParallelTasks"}
    \/ n = "PlanParallelTasks" /\ targets \in {{"ExpandGreenfieldSpec"}, {"ReviewArchitecture"}}
    \/ n = "ExpandGreenfieldSpec" /\ targets = {"ReviewArchitecture"}
    \/ n = "ReviewArchitecture"
        /\ targets \in {{"ProvisionWorkshop"}, {"ArchitectureReconsideration"}}
    \/ n = "ArchitectureReconsideration" /\ targets = {"PlanParallelTasks"}
    \/ n = "ProvisionWorkshop" /\ targets = {"DelegateToOpencode"}
    \/ n = "DelegateToOpencode" /\ targets = {"IntegrateSubTasks"}
    \/ n = "IntegrateSubTasks" /\ targets = {"RunDevcontainerTests"}
    \/ n = "RunDevcontainerTests" /\ targets \in {{"ReviewCode"}, {"AutoCorrectionLoop"}}
    \/ n = "AutoCorrectionLoop" /\ targets = {"DelegateToOpencode"}
    \/ n = "ReviewCode" /\ (targets = {"ReviewGate"} \/ targets \subseteq Roles)
    \/ n \in Roles /\ targets = {"ReviewGate"}
    \/ n = "ReviewGate" /\ targets \in {{"OpenPullRequest"}, {"ReviewReconsideration"}}
    \/ n = "ReviewReconsideration" /\ targets = {"DelegateToOpencode"}
    \/ n = "OpenPullRequest" /\ targets = {"SuspendWhileWaitingReview"}
    \/ n = "SuspendWhileWaitingReview" /\ targets = {"AwaitHitlApproval"}
    \/ n = "AwaitHitlApproval" /\ targets \in {{"MergeAndClose"}, {}}
    \/ n = "MergeAndClose" /\ targets = {"IndexKnowledge"}
    \/ n = "IndexKnowledge" /\ targets = {"QAValidation"}
    \/ n = "QAValidation" /\ targets = {}

\* The nodes behind the creation of the Pull Request; those that come after
\* the provisioning and may lead back to the agents; those behind the plan;
\* those behind the gate of the reviews, and behind that of the architecture.
Opened == {"SuspendWhileWaitingReview", "AwaitHitlApproval", "MergeAndClose"}
Equipped == Roles \cup
    {"DelegateToOpencode", "IntegrateSubTasks", "RunDevcontainerTests", "AutoCorrectionLoop",
     "ReviewCode", "ReviewGate", "ReviewReconsideration"}
AfterPlan == Equipped \cup {"ExpandGreenfieldSpec", "ReviewArchitecture", "ProvisionWorkshop"}
Asking == {"OpenPullRequest", "SuspendWhileWaitingReview", "AwaitHitlApproval"}
Designed == Asking \cup Equipped \cup {"ProvisionWorkshop"}

\* An edge leads to a superstep.
LEMMA EdgeSuperstep ==
    ASSUME NEW n, NEW targets, Edge(n, targets)
    PROVE  Superstep(targets)
<1>1. targets \subseteq Roles \/ \E m \in Nodes : targets = {m}
  BY DEF Edge, Nodes, Loops
<1>2. QED
  BY <1>1 DEF Superstep

\* The only way behind the creation, the plan, the provisioning and the two
\* gates is through them, and a loop is entered from its gate only.
LEMMA EdgeEntries ==
    ASSUME NEW n, NEW targets, Edge(n, targets)
    PROVE  /\ targets \cap Opened # {} => n \in Opened \/ n = "OpenPullRequest"
           /\ "MergeAndClose" \in targets => n = "AwaitHitlApproval"
           /\ targets \cap AfterPlan # {} => n \in AfterPlan \/ n = "PlanParallelTasks"
           /\ targets \cap Equipped # {} => n \in Equipped \/ n = "ProvisionWorkshop"
           /\ targets \cap Asking # {} => n \in Asking \/ n = "ReviewGate"
           /\ targets \cap Designed # {} => n \in Designed \/ n = "ReviewArchitecture"
           /\ "ArchitectureReconsideration" \in targets => n = "ReviewArchitecture"
           /\ "AutoCorrectionLoop" \in targets => n = "RunDevcontainerTests"
           /\ "ReviewReconsideration" \in targets => n = "ReviewGate"
<1>1. /\ targets \cap Opened # {} => n \in Opened \/ n = "OpenPullRequest"
      /\ "MergeAndClose" \in targets => n = "AwaitHitlApproval"
  BY DEF Edge, Opened, Roles
<1>2. targets \cap Equipped # {} => n \in Equipped \/ n = "ProvisionWorkshop"
  BY DEF Edge, Equipped, Roles
<1>3. targets \cap AfterPlan # {} => n \in AfterPlan \/ n = "PlanParallelTasks"
  BY DEF Edge, Equipped, AfterPlan, Roles
<1>4. /\ targets \cap Asking # {} => n \in Asking \/ n = "ReviewGate"
      /\ targets \cap Designed # {} => n \in Designed \/ n = "ReviewArchitecture"
  BY DEF Edge, Asking, Designed, Equipped, Roles
<1>5. /\ "ArchitectureReconsideration" \in targets => n = "ReviewArchitecture"
      /\ "AutoCorrectionLoop" \in targets => n = "RunDevcontainerTests"
      /\ "ReviewReconsideration" \in targets => n = "ReviewGate"
  BY DEF Edge, Roles
<1>6. QED
  BY <1>1, <1>2, <1>3, <1>4, <1>5

-----------------------------------------------------------------------------
(* What holds of a position, in the ticket t, with the credentials held and  *)
(* the Pull Requests prs.                                                    *)

IsState(s) ==
    s \in [plan : {s.plan}, greenfield : {s.greenfield}, architecture : {s.architecture},
           architectureAttempts : {s.architectureAttempts}, passed : {s.passed},
           corrections : {s.corrections}, code : {s.code},
           securityNeeded : {s.securityNeeded}, security : {s.security},
           opsNeeded : {s.opsNeeded}, ops : {s.ops}, reviews : {s.reviews},
           pr : {s.pr}, decision : {s.decision}, qa : {s.qa}]

Counters(s) == <<s.architectureAttempts, s.corrections, s.reviews>>
Opinions(s) == <<s.code, s.security, s.ops>>

\* Behind its creation the state names the Pull Request, and the merge is
\* only reached when that one is approved.
Reviewable(prs, s, nodes) ==
    /\ nodes \cap Opened # {} => s.pr \in DOMAIN prs
    /\ "MergeAndClose" \in nodes => prs[s.pr].approved

Planned(plan) == Len(plan) \in Nat \ {0} /\ DOMAIN plan = 1..Len(plan)

\* A sub-task names only earlier ones.
Ordered(plan) ==
    Len(plan) >= 2 => \A k \in 1..Len(plan) :
        plan[k].needs # None => \E j \in 1..k - 1 : plan[j].id = plan[k].needs

\* The first n Workshops of the plan are in a set.
Deposited(plan, set, n) == \A k \in 1..n : plan[k].id \in set

\* Behind the planner the plan is in order, and behind the provisioning its
\* Workshops hold their credentials.
Provided(held, s, nodes) ==
    /\ nodes \cap AfterPlan # {} => Planned(s.plan) /\ Ordered(s.plan)
    /\ nodes \cap Equipped # {} => Deposited(s.plan, held, Len(s.plan))

ReviewClosed(t, s) == "request_changes" \notin {s.code, s.security, s.ops} \/ s.reviews + 1 >= t.reviews
ArchitectureClosed(t, s) ==
    s.architecture # "request_changes" \/ s.architectureAttempts + 1 >= t.architecture

\* Behind a gate, what it let through is still what the state says: a node
\* that gives a verdict or counts an attempt leads back to the gate.
Gated(t, s, nodes) ==
    /\ nodes \cap Asking # {} => ReviewClosed(t, s)
    /\ nodes \cap Designed # {} => ArchitectureClosed(t, s)

ArchitectureLeft(t, s) == Again(t.architecture) - s.architectureAttempts
CorrectionsLeft(t, s) == t.corrections - s.corrections
ReviewsLeft(t, s) == Again(t.reviews) - s.reviews

\* A loop that is entered has an attempt left.
Budgeted(t, s, nodes) ==
    /\ s.architectureAttempts \in Nat /\ s.corrections \in Nat /\ s.reviews \in Nat
    /\ ArchitectureLeft(t, s) \in Nat /\ CorrectionsLeft(t, s) \in Nat /\ ReviewsLeft(t, s) \in Nat
    /\ "ArchitectureReconsideration" \in nodes => ArchitectureLeft(t, s) # 0
    /\ "AutoCorrectionLoop" \in nodes => CorrectionsLeft(t, s) # 0
    /\ "ReviewReconsideration" \in nodes => ReviewsLeft(t, s) # 0

Sound(t, held, prs, s, nodes) ==
    /\ IsState(s) /\ Superstep(nodes)
    /\ Reviewable(prs, s, nodes) /\ Provided(held, s, nodes)
    /\ Gated(t, s, nodes) /\ Budgeted(t, s, nodes)

\* Pull Requests are never deleted, and an approval is not taken back.
Grows(prs, prs2) ==
    DOMAIN prs \subseteq DOMAIN prs2 /\ \A pr \in DOMAIN prs : prs[pr].approved => prs2[pr].approved

\* A position stays sound when other invocations work.
LEMMA SoundStays ==
    ASSUME NEW t, NEW held, NEW prs, NEW s, NEW nodes, Sound(t, held, prs, s, nodes),
           NEW held2, held \subseteq held2, NEW prs2, Grows(prs, prs2)
    PROVE  Sound(t, held2, prs2, s, nodes)
<1>1. Reviewable(prs2, s, nodes)
  BY DEF Sound, Reviewable, Grows, Opened
<1>2. Provided(held2, s, nodes)
  BY DEF Sound, Provided, Deposited
<1>3. QED
  BY <1>1, <1>2 DEF Sound

-----------------------------------------------------------------------------
(* What a node does, from a state s to a state s2, when it ends.             *)

Travel(held, prs, n, s, s2, targets) ==
    /\ Edge(n, targets) /\ IsState(s2)
    /\ IF n = "PlanParallelTasks" THEN Planned(s2.plan) /\ Ordered(s2.plan) ELSE s2.plan = s.plan
    /\ IF n = "OpenPullRequest" THEN s2.pr \in DOMAIN prs ELSE s2.pr = s.pr
    /\ "MergeAndClose" \in targets => prs[s2.pr].approved
    /\ n = "ProvisionWorkshop" => Deposited(s2.plan, held, Len(s2.plan))
    /\ n \notin Roles \cup {"ReviewCode"} => Opinions(s2) = Opinions(s)
    /\ n # "ReviewArchitecture" => s2.architecture = s.architecture
    /\ n = "ReviewArchitecture" => targets = RouteAfterArchitectureReview(s2)
    /\ n = "RunDevcontainerTests" => targets = RouteAfterTests(s2)
    /\ n = "ReviewGate" => targets = RouteAfterReview(s2)
    /\ Counters(s2) =
        <<IF n = "ArchitectureReconsideration" THEN s.architectureAttempts + 1 ELSE s.architectureAttempts,
          IF n = "AutoCorrectionLoop" THEN s.corrections + 1 ELSE s.corrections,
          IF n = "ReviewReconsideration" THEN s.reviews + 1 ELSE s.reviews>>

\* A node ends at a position where the Pull Request is the approved one.
LEMMA TravelReviewable ==
    ASSUME NEW held, NEW prs, NEW prs2, Grows(prs, prs2), NEW s, NEW nodes, Reviewable(prs, s, nodes),
           NEW n \in nodes, NEW s2, NEW targets, Travel(held, prs2, n, s, s2, targets)
    PROVE  Reviewable(prs2, s2, targets)
<1>1. Edge(n, targets)
  BY DEF Travel
<1>2. targets \cap Opened # {} => s2.pr \in DOMAIN prs2
  <2>1. CASE n = "OpenPullRequest"
    BY <2>1 DEF Travel
  <2>2. CASE n \in Opened
    <3>1. s.pr \in DOMAIN prs
      BY <2>2 DEF Reviewable
    <3>2. s2.pr = s.pr
      BY <2>2 DEF Travel, Opened
    <3>3. QED
      BY <3>1, <3>2 DEF Grows
  <2>3. QED
    BY <1>1, <2>1, <2>2, EdgeEntries
<1>3. "MergeAndClose" \in targets => prs2[s2.pr].approved
  BY DEF Travel
<1>4. QED
  BY <1>2, <1>3 DEF Reviewable

\* The plan stays in order, and its credentials are deposited in time.
LEMMA TravelProvided ==
    ASSUME NEW held, NEW held2, held \subseteq held2, NEW prs, NEW s, NEW nodes,
           Provided(held, s, nodes),
           NEW n \in nodes, NEW s2, NEW targets, Travel(held2, prs, n, s, s2, targets)
    PROVE  Provided(held2, s2, targets)
<1>1. Edge(n, targets)
  BY DEF Travel
<1>2. targets \cap AfterPlan # {} => Planned(s2.plan) /\ Ordered(s2.plan)
  <2>1. CASE n = "PlanParallelTasks"
    BY <2>1 DEF Travel
  <2>2. CASE n \in AfterPlan
    <3>1. Planned(s.plan) /\ Ordered(s.plan)
      BY <2>2 DEF Provided
    <3>2. s2.plan = s.plan
      BY <2>2 DEF Travel, AfterPlan, Equipped, Roles
    <3>3. QED
      BY <3>1, <3>2
  <2>3. QED
    BY <1>1, <2>1, <2>2, EdgeEntries
<1>3. targets \cap Equipped # {} => Deposited(s2.plan, held2, Len(s2.plan))
  <2>1. CASE n = "ProvisionWorkshop"
    BY <2>1 DEF Travel
  <2>2. CASE n \in Equipped
    <3>1. Deposited(s.plan, held, Len(s.plan))
      BY <2>2 DEF Provided
    <3>2. s2.plan = s.plan
      BY <2>2 DEF Travel, Equipped, Roles
    <3>3. QED
      BY <3>1, <3>2 DEF Deposited
  <2>3. QED
    BY <1>1, <2>1, <2>2, EdgeEntries
<1>4. QED
  BY <1>2, <1>3 DEF Provided

\* A position behind a gate stays what the gate let through.
LEMMA TravelGated ==
    ASSUME NEW held, NEW prs, NEW s, NEW nodes, Gated(ticket, s, nodes),
           NEW n \in nodes, NEW s2, NEW targets, Travel(held, prs, n, s, s2, targets)
    PROVE  Gated(ticket, s2, targets)
<1>1. Edge(n, targets)
  BY DEF Travel
<1>2. targets \cap Asking # {} => ReviewClosed(ticket, s2)
  <2>1. CASE n = "ReviewGate"
    <3>1. targets = RouteAfterReview(s2)
      BY <2>1 DEF Travel
    <3>2. QED
      BY <3>1 DEF RouteAfterReview, ReviewClosed, Asking
  <2>2. CASE n \in Asking
    <3>1. ReviewClosed(ticket, s)
      BY <2>2 DEF Gated
    <3>2. Opinions(s2) = Opinions(s) /\ s2.reviews = s.reviews
      BY <2>2 DEF Travel, Asking, Roles, Counters
    <3>3. QED
      BY <3>1, <3>2 DEF ReviewClosed, Opinions
  <2>3. QED
    BY <1>1, <2>1, <2>2, EdgeEntries
<1>3. targets \cap Designed # {} => ArchitectureClosed(ticket, s2)
  <2>1. CASE n = "ReviewArchitecture"
    <3>1. targets = RouteAfterArchitectureReview(s2)
      BY <2>1 DEF Travel
    <3>2. QED
      BY <3>1 DEF RouteAfterArchitectureReview, ArchitectureClosed, Designed, Asking, Equipped, Roles
  <2>2. CASE n \in Designed
    <3>1. ArchitectureClosed(ticket, s)
      BY <2>2 DEF Gated
    <3>2. n \notin {"ReviewArchitecture", "ArchitectureReconsideration"}
      BY <2>2 DEF Designed, Asking, Equipped, Roles
    <3>3. s2.architecture = s.architecture /\ s2.architectureAttempts = s.architectureAttempts
      BY <3>2 DEF Travel, Counters
    <3>4. QED
      BY <3>1, <3>3 DEF ArchitectureClosed
  <2>3. QED
    BY <1>1, <2>1, <2>2, EdgeEntries
<1>4. QED
  BY <1>2, <1>3 DEF Gated

-----------------------------------------------------------------------------
(* The budgets and the recursion limit.                                     *)

\* The budgets of a ticket, and what the limit allows.
LEMMA BudgetSizes ==
    ASSUME NEW t \in Tickets
    PROVE  /\ t.architecture \in Nat /\ t.corrections \in Nat /\ t.reviews \in Nat
           /\ Again(t.architecture) \in Nat /\ Again(t.reviews) \in Nat
           /\ RecursionLimit \in Nat
           /\ 14 + 4 * Again(t.architecture) + 4 * t.corrections + 7 * Again(t.reviews) <= RecursionLimit
<1>1. t.architecture \in Nat /\ t.corrections \in Nat /\ t.reviews \in Nat
  BY TicketsAssumption DEF Ticket
<1>2. Again(t.architecture) \in Nat /\ Again(t.reviews) \in Nat
  BY <1>1 DEF Again
<1>3. RecursionLimit \in Nat /\ Longest(t) <= RecursionLimit
  BY LimitAssumption
<1>4. QED
  BY <1>1, <1>2, <1>3 DEF Longest

\* The attempts left after a node: a loop takes one, and the routing
\* functions enter a loop when one is left.
LEMMA TravelBudgeted ==
    ASSUME ticket \in Tickets, NEW held, NEW prs, NEW s, NEW nodes, Budgeted(ticket, s, nodes),
           NEW n \in nodes, NEW s2, NEW targets, Travel(held, prs, n, s, s2, targets)
    PROVE  /\ Budgeted(ticket, s2, targets)
           /\ ArchitectureLeft(ticket, s2) =
                ArchitectureLeft(ticket, s) - (IF n = "ArchitectureReconsideration" THEN 1 ELSE 0)
           /\ CorrectionsLeft(ticket, s2) =
                CorrectionsLeft(ticket, s) - (IF n = "AutoCorrectionLoop" THEN 1 ELSE 0)
           /\ ReviewsLeft(ticket, s2) =
                ReviewsLeft(ticket, s) - (IF n = "ReviewReconsideration" THEN 1 ELSE 0)
<1> DEFINE a == IF n = "ArchitectureReconsideration" THEN 1 ELSE 0
           c == IF n = "AutoCorrectionLoop" THEN 1 ELSE 0
           r == IF n = "ReviewReconsideration" THEN 1 ELSE 0
<1>0. /\ ticket.architecture \in Nat /\ ticket.corrections \in Nat /\ ticket.reviews \in Nat
      /\ Again(ticket.architecture) \in Nat /\ Again(ticket.reviews) \in Nat
      /\ s.architectureAttempts \in Nat /\ s.corrections \in Nat /\ s.reviews \in Nat
      /\ a \in {0, 1} /\ c \in {0, 1} /\ r \in {0, 1}
  BY BudgetSizes DEF Budgeted
<1>1. /\ s2.architectureAttempts = s.architectureAttempts + a
      /\ s2.corrections = s.corrections + c /\ s2.reviews = s.reviews + r
  BY <1>0 DEF Travel, Counters
<1>2. /\ ArchitectureLeft(ticket, s) \in Nat /\ (a = 1 => ArchitectureLeft(ticket, s) # 0)
      /\ CorrectionsLeft(ticket, s) \in Nat /\ (c = 1 => CorrectionsLeft(ticket, s) # 0)
      /\ ReviewsLeft(ticket, s) \in Nat /\ (r = 1 => ReviewsLeft(ticket, s) # 0)
  BY DEF Budgeted
<1>3. Edge(n, targets)
  BY DEF Travel
<1> HIDE DEF a, c, r
<1>4. /\ ArchitectureLeft(ticket, s2) = ArchitectureLeft(ticket, s) - a
      /\ CorrectionsLeft(ticket, s2) = CorrectionsLeft(ticket, s) - c
      /\ ReviewsLeft(ticket, s2) = ReviewsLeft(ticket, s) - r
  BY <1>0, <1>1 DEF ArchitectureLeft, CorrectionsLeft, ReviewsLeft
<1>5. /\ ArchitectureLeft(ticket, s2) \in Nat /\ CorrectionsLeft(ticket, s2) \in Nat
      /\ ReviewsLeft(ticket, s2) \in Nat
      /\ s2.architectureAttempts \in Nat /\ s2.corrections \in Nat /\ s2.reviews \in Nat
  <2>1. \A x \in Nat : \A y \in {0, 1} : x + y \in Nat /\ ((y = 1 => x # 0) => x - y \in Nat)
    OBVIOUS
  <2>2. ArchitectureLeft(ticket, s2) \in Nat /\ s2.architectureAttempts \in Nat
    BY <1>0, <1>1, <1>2, <1>4, <2>1, Zenon
  <2>3. CorrectionsLeft(ticket, s2) \in Nat /\ s2.corrections \in Nat
    BY <1>0, <1>1, <1>2, <1>4, <2>1, Zenon
  <2>4. ReviewsLeft(ticket, s2) \in Nat /\ s2.reviews \in Nat
    BY <1>0, <1>1, <1>2, <1>4, <2>1, Zenon
  <2>5. QED
    BY <2>2, <2>3, <2>4
<1>6. "ArchitectureReconsideration" \in targets => ArchitectureLeft(ticket, s2) # 0
  <2> SUFFICES ASSUME "ArchitectureReconsideration" \in targets
               PROVE  ArchitectureLeft(ticket, s2) # 0
    OBVIOUS
  <2>1. targets = RouteAfterArchitectureReview(s2)
    BY <1>3, EdgeEntries DEF Travel
  <2>2. ~(s2.architectureAttempts + 1 >= ticket.architecture)
    BY <2>1 DEF RouteAfterArchitectureReview
  <2>3. QED
    BY <1>0, <1>5, <2>2 DEF ArchitectureLeft, Again
<1>7. "AutoCorrectionLoop" \in targets => CorrectionsLeft(ticket, s2) # 0
  <2> SUFFICES ASSUME "AutoCorrectionLoop" \in targets PROVE CorrectionsLeft(ticket, s2) # 0
    OBVIOUS
  <2>1. targets = RouteAfterTests(s2)
    BY <1>3, EdgeEntries DEF Travel
  <2>2. ~(s2.corrections >= ticket.corrections)
    BY <2>1 DEF RouteAfterTests
  <2>3. QED
    BY <1>0, <1>5, <2>2 DEF CorrectionsLeft
<1>8. "ReviewReconsideration" \in targets => ReviewsLeft(ticket, s2) # 0
  <2> SUFFICES ASSUME "ReviewReconsideration" \in targets PROVE ReviewsLeft(ticket, s2) # 0
    OBVIOUS
  <2>1. targets = RouteAfterReview(s2)
    BY <1>3, EdgeEntries DEF Travel
  <2>2. ~(s2.reviews + 1 >= ticket.reviews)
    BY <2>1 DEF RouteAfterReview
  <2>3. QED
    BY <1>0, <1>5, <2>2 DEF ReviewsLeft, Again
<1>9. QED
  BY <1>4, <1>5, <1>6, <1>7, <1>8 DEF Budgeted, a, c, r

\* A node ends at a sound position.
LEMMA TravelSound ==
    ASSUME ticket \in Tickets, NEW held, NEW held2, held \subseteq held2,
           NEW prs, NEW prs2, Grows(prs, prs2), NEW s, NEW nodes, Sound(ticket, held, prs, s, nodes),
           NEW n \in nodes, NEW s2, NEW targets, Travel(held2, prs2, n, s, s2, targets)
    PROVE  Sound(ticket, held2, prs2, s2, targets)
<1>1. IsState(s2) /\ Superstep(targets)
  BY EdgeSuperstep DEF Travel
<1>2. Reviewable(prs2, s2, targets)
  BY TravelReviewable DEF Sound
<1>3. Provided(held2, s2, targets)
  BY TravelProvided DEF Sound
<1>4. Gated(ticket, s2, targets)
  BY TravelGated DEF Sound
<1>5. Budgeted(ticket, s2, targets)
  BY TravelBudgeted DEF Sound
<1>6. QED
  BY <1>1, <1>2, <1>3, <1>4, <1>5 DEF Sound

\* The supersteps that may follow a node, when a, c and r attempts are left of
\* the three budgets.
Rank(n, a, c, r) ==
    CASE n \in {"AwaitHitlApproval", "QAValidation"} -> 0
      [] n \in {"SuspendWhileWaitingReview", "IndexKnowledge"} -> 1
      [] n \in {"OpenPullRequest", "MergeAndClose"} -> 2
      [] n = "ReviewReconsideration" -> 2 + 4 * c + 7 * r
      [] n = "ReviewGate" -> 3 + 4 * c + 7 * r
      [] n \in Roles -> 4 + 4 * c + 7 * r
      [] n \in {"ReviewCode", "AutoCorrectionLoop"} -> 5 + 4 * c + 7 * r
      [] n = "RunDevcontainerTests" -> 6 + 4 * c + 7 * r
      [] n = "IntegrateSubTasks" -> 7 + 4 * c + 7 * r
      [] n = "DelegateToOpencode" -> 8 + 4 * c + 7 * r
      [] n = "ProvisionWorkshop" -> 9 + 4 * c + 7 * r
      [] n = "ArchitectureReconsideration" -> 9 + 4 * a + 4 * c + 7 * r
      [] n = "ReviewArchitecture" -> 10 + 4 * a + 4 * c + 7 * r
      [] n = "ExpandGreenfieldSpec" -> 11 + 4 * a + 4 * c + 7 * r
      [] n = "PlanParallelTasks" -> 12 + 4 * a + 4 * c + 7 * r
      [] n = "AnalyzeIssue" -> 13 + 4 * a + 4 * c + 7 * r

Remaining(t, n, s) ==
    Rank(n, ArchitectureLeft(t, s), CorrectionsLeft(t, s), ReviewsLeft(t, s))

\* How many supersteps a node is from the end, by the attempts left.
LEMMA RankValues ==
    ASSUME NEW a \in Nat, NEW c \in Nat, NEW r \in Nat
    PROVE  /\ Rank("AwaitHitlApproval", a, c, r) = 0
           /\ Rank("QAValidation", a, c, r) = 0
           /\ Rank("SuspendWhileWaitingReview", a, c, r) = 1
           /\ Rank("IndexKnowledge", a, c, r) = 1
           /\ Rank("OpenPullRequest", a, c, r) = 2
           /\ Rank("MergeAndClose", a, c, r) = 2
           /\ Rank("ReviewReconsideration", a, c, r) = 2 + 4 * c + 7 * r
           /\ Rank("ReviewGate", a, c, r) = 3 + 4 * c + 7 * r
           /\ \A n \in Roles : Rank(n, a, c, r) = 4 + 4 * c + 7 * r
           /\ Rank("ReviewCode", a, c, r) = 5 + 4 * c + 7 * r
           /\ Rank("AutoCorrectionLoop", a, c, r) = 5 + 4 * c + 7 * r
           /\ Rank("RunDevcontainerTests", a, c, r) = 6 + 4 * c + 7 * r
           /\ Rank("IntegrateSubTasks", a, c, r) = 7 + 4 * c + 7 * r
           /\ Rank("DelegateToOpencode", a, c, r) = 8 + 4 * c + 7 * r
           /\ Rank("ProvisionWorkshop", a, c, r) = 9 + 4 * c + 7 * r
           /\ Rank("ArchitectureReconsideration", a, c, r) = 9 + 4 * a + 4 * c + 7 * r
           /\ Rank("ReviewArchitecture", a, c, r) = 10 + 4 * a + 4 * c + 7 * r
           /\ Rank("ExpandGreenfieldSpec", a, c, r) = 11 + 4 * a + 4 * c + 7 * r
           /\ Rank("PlanParallelTasks", a, c, r) = 12 + 4 * a + 4 * c + 7 * r
           /\ Rank("AnalyzeIssue", a, c, r) = 13 + 4 * a + 4 * c + 7 * r
  BY DEF Rank, Roles

\* An edge that counts no attempt goes down, up to the answer of the human.
LEMMA EdgeRank ==
    ASSUME NEW a \in Nat, NEW c \in Nat, NEW r \in Nat, NEW n, NEW targets, Edge(n, targets),
           n \notin Loops \cup {"AwaitHitlApproval"}, NEW m \in targets
    PROVE  /\ Rank(m, a, c, r) \in Nat /\ Rank(n, a, c, r) \in Nat
           /\ Rank(m, a, c, r) + 1 <= Rank(n, a, c, r)
<1> DEFINE rank(k) == Rank(k, a, c, r)
           lower == 4 * c + 7 * r
           upper == 4 * a + lower
<1> SUFFICES rank(m) \in Nat /\ rank(n) \in Nat /\ rank(m) + 1 <= rank(n)
  OBVIOUS
<1>1. lower \in Nat /\ upper \in Nat /\ lower <= upper
  OBVIOUS
<1>2. /\ rank("AwaitHitlApproval") = 0 /\ rank("QAValidation") = 0
      /\ rank("SuspendWhileWaitingReview") = 1 /\ rank("IndexKnowledge") = 1
      /\ rank("OpenPullRequest") = 2 /\ rank("MergeAndClose") = 2
  BY RankValues
<1>3. /\ rank("ReviewReconsideration") = 2 + lower /\ rank("ReviewGate") = 3 + lower
      /\ \A role \in Roles : rank(role) = 4 + lower
      /\ rank("ReviewCode") = 5 + lower /\ rank("AutoCorrectionLoop") = 5 + lower
  BY DEF Rank, Roles
<1>4. /\ rank("RunDevcontainerTests") = 6 + lower /\ rank("IntegrateSubTasks") = 7 + lower
      /\ rank("DelegateToOpencode") = 8 + lower /\ rank("ProvisionWorkshop") = 9 + lower
  BY DEF Rank, Roles
<1>5. /\ rank("ArchitectureReconsideration") = 9 + upper /\ rank("ReviewArchitecture") = 10 + upper
      /\ rank("ExpandGreenfieldSpec") = 11 + upper /\ rank("PlanParallelTasks") = 12 + upper
      /\ rank("AnalyzeIssue") = 13 + upper
  BY DEF Rank, Roles
<1> HIDE DEF rank, lower, upper
<1>6. CASE n \in Roles \/ n \in {"ReviewCode", "ReviewGate", "RunDevcontainerTests"}
  <2>1. CASE n \in Roles /\ m = "ReviewGate"
    BY <1>1, <1>2, <1>3, <1>4, <1>5, <2>1
  <2>2. CASE n = "ReviewCode" /\ (m = "ReviewGate" \/ m \in Roles)
    BY <1>1, <1>2, <1>3, <1>4, <1>5, <2>2
  <2>3. CASE n = "ReviewGate" /\ m \in {"OpenPullRequest", "ReviewReconsideration"}
    BY <1>1, <1>2, <1>3, <1>4, <1>5, <2>3
  <2>4. CASE n = "RunDevcontainerTests" /\ m \in {"ReviewCode", "AutoCorrectionLoop"}
    BY <1>1, <1>2, <1>3, <1>4, <1>5, <2>4
  <2>5. QED
    BY <1>6, <2>1, <2>2, <2>3, <2>4 DEF Edge, Roles
<1>7. CASE n \in {"AnalyzeIssue", "PlanParallelTasks", "ExpandGreenfieldSpec", "ReviewArchitecture"}
  <2>1. \/ n = "AnalyzeIssue" /\ m = "PlanParallelTasks"
        \/ n = "PlanParallelTasks" /\ m \in {"ExpandGreenfieldSpec", "ReviewArchitecture"}
        \/ n = "ExpandGreenfieldSpec" /\ m = "ReviewArchitecture"
        \/ n = "ReviewArchitecture" /\ m \in {"ProvisionWorkshop", "ArchitectureReconsideration"}
    BY <1>7 DEF Edge, Roles
  <2>2. QED
    BY <1>1, <1>2, <1>3, <1>4, <1>5, <2>1
<1>8. CASE n \in {"ProvisionWorkshop", "DelegateToOpencode", "IntegrateSubTasks", "OpenPullRequest",
                  "SuspendWhileWaitingReview", "MergeAndClose", "IndexKnowledge"}
  <2>1. \/ n = "ProvisionWorkshop" /\ m = "DelegateToOpencode"
        \/ n = "DelegateToOpencode" /\ m = "IntegrateSubTasks"
        \/ n = "IntegrateSubTasks" /\ m = "RunDevcontainerTests"
        \/ n = "OpenPullRequest" /\ m = "SuspendWhileWaitingReview"
        \/ n = "SuspendWhileWaitingReview" /\ m = "AwaitHitlApproval"
        \/ n = "MergeAndClose" /\ m = "IndexKnowledge"
        \/ n = "IndexKnowledge" /\ m = "QAValidation"
    BY <1>8 DEF Edge, Roles
  <2>2. QED
    BY <1>1, <1>2, <1>3, <1>4, <1>5, <2>1
<1>9. QED
  <2>1. n # "QAValidation"
    BY DEF Edge, Roles
  <2>2. QED
    BY <1>6, <1>7, <1>8, <2>1 DEF Edge, Loops

\* So does one that counts an attempt.
LEMMA LoopRank ==
    ASSUME NEW a \in Nat, NEW c \in Nat, NEW r \in Nat
    PROVE  /\ a # 0 => Rank("PlanParallelTasks", a - 1, c, r) + 1
                        = Rank("ArchitectureReconsideration", a, c, r)
           /\ c # 0 => Rank("DelegateToOpencode", a, c - 1, r) + 1
                        = Rank("AutoCorrectionLoop", a, c, r)
           /\ r # 0 => Rank("DelegateToOpencode", a, c, r - 1) + 1
                        = Rank("ReviewReconsideration", a, c, r)
<1>1. ASSUME a # 0
      PROVE  Rank("PlanParallelTasks", a - 1, c, r) + 1 = Rank("ArchitectureReconsideration", a, c, r)
  <2>1. a - 1 \in Nat
    BY <1>1
  <2>2. Rank("PlanParallelTasks", a - 1, c, r) = 12 + 4 * (a - 1) + 4 * c + 7 * r
    BY <2>1, RankValues
  <2>3. Rank("ArchitectureReconsideration", a, c, r) = 9 + 4 * a + 4 * c + 7 * r
    BY RankValues
  <2>4. QED
    BY <2>2, <2>3
<1>2. ASSUME c # 0
      PROVE  Rank("DelegateToOpencode", a, c - 1, r) + 1 = Rank("AutoCorrectionLoop", a, c, r)
  <2>1. c - 1 \in Nat
    BY <1>2
  <2>2. Rank("DelegateToOpencode", a, c - 1, r) = 8 + 4 * (c - 1) + 7 * r
    BY <2>1, RankValues
  <2>3. Rank("AutoCorrectionLoop", a, c, r) = 5 + 4 * c + 7 * r
    BY RankValues
  <2>4. QED
    BY <2>2, <2>3
<1>3. ASSUME r # 0
      PROVE  Rank("DelegateToOpencode", a, c, r - 1) + 1 = Rank("ReviewReconsideration", a, c, r)
  <2>1. r - 1 \in Nat
    BY <1>3
  <2>2. Rank("DelegateToOpencode", a, c, r - 1) = 8 + 4 * c + 7 * (r - 1)
    BY <2>1, RankValues
  <2>3. Rank("ReviewReconsideration", a, c, r) = 2 + 4 * c + 7 * r
    BY RankValues
  <2>4. QED
    BY <2>2, <2>3
<1>4. QED
  BY <1>1, <1>2, <1>3

\* No node is further from the end than the first one.
LEMMA RankBound ==
    ASSUME NEW a \in Nat, NEW c \in Nat, NEW r \in Nat, NEW n \in Nodes \cup Roles
    PROVE  Rank(n, a, c, r) \in Nat /\ Rank(n, a, c, r) <= 13 + 4 * a + 4 * c + 7 * r
<1> DEFINE rank(k) == Rank(k, a, c, r)
           lower == 4 * c + 7 * r
           upper == 4 * a + lower
<1>1. lower \in Nat /\ upper \in Nat /\ lower <= upper /\ 13 + 4 * a + 4 * c + 7 * r = 13 + upper
  OBVIOUS
<1>2. /\ rank("AwaitHitlApproval") = 0 /\ rank("QAValidation") = 0
      /\ rank("SuspendWhileWaitingReview") = 1 /\ rank("IndexKnowledge") = 1
      /\ rank("OpenPullRequest") = 2 /\ rank("MergeAndClose") = 2
  BY RankValues
<1>3. /\ rank("ReviewReconsideration") = 2 + lower /\ rank("ReviewGate") = 3 + lower
      /\ \A role \in Roles : rank(role) = 4 + lower
      /\ rank("ReviewCode") = 5 + lower /\ rank("AutoCorrectionLoop") = 5 + lower
  BY DEF Rank, Roles
<1>4. /\ rank("RunDevcontainerTests") = 6 + lower /\ rank("IntegrateSubTasks") = 7 + lower
      /\ rank("DelegateToOpencode") = 8 + lower /\ rank("ProvisionWorkshop") = 9 + lower
  BY DEF Rank, Roles
<1>5. /\ rank("ArchitectureReconsideration") = 9 + upper /\ rank("ReviewArchitecture") = 10 + upper
      /\ rank("ExpandGreenfieldSpec") = 11 + upper /\ rank("PlanParallelTasks") = 12 + upper
      /\ rank("AnalyzeIssue") = 13 + upper
  BY DEF Rank, Roles
<1> SUFFICES rank(n) \in Nat /\ rank(n) <= 13 + upper
  BY <1>1
<1> HIDE DEF rank, lower, upper
<1>6. CASE n \in {"AwaitHitlApproval", "QAValidation", "SuspendWhileWaitingReview",
                  "IndexKnowledge", "OpenPullRequest", "MergeAndClose"}
  BY <1>1, <1>2, <1>6
<1>7. CASE n \in Roles \cup {"ReviewReconsideration", "ReviewGate", "ReviewCode", "AutoCorrectionLoop"}
  BY <1>1, <1>3, <1>7
<1>8. CASE n \in {"RunDevcontainerTests", "IntegrateSubTasks", "DelegateToOpencode",
                  "ProvisionWorkshop"}
  BY <1>1, <1>4, <1>8
<1>9. CASE n \in {"ArchitectureReconsideration", "ReviewArchitecture", "ExpandGreenfieldSpec",
                  "PlanParallelTasks", "AnalyzeIssue"}
  BY <1>1, <1>5, <1>9
<1>10. QED
  BY <1>6, <1>7, <1>8, <1>9, Zenon DEF Nodes, Loops

\* A node ends closer to the end of the invocation.
LEMMA TravelPaced ==
    ASSUME ticket \in Tickets, NEW held, NEW prs, NEW s, NEW nodes, Budgeted(ticket, s, nodes),
           NEW n \in nodes, NEW s2, NEW targets, Travel(held, prs, n, s, s2, targets),
           n # "AwaitHitlApproval", NEW m \in targets
    PROVE  /\ Remaining(ticket, m, s2) \in Nat /\ Remaining(ticket, n, s) \in Nat
           /\ Remaining(ticket, m, s2) + 1 <= Remaining(ticket, n, s)
<1> DEFINE a == ArchitectureLeft(ticket, s)
           c == CorrectionsLeft(ticket, s)
           r == ReviewsLeft(ticket, s)
<1>1. /\ a \in Nat /\ c \in Nat /\ r \in Nat
      /\ n = "ArchitectureReconsideration" => a # 0
      /\ n = "AutoCorrectionLoop" => c # 0
      /\ n = "ReviewReconsideration" => r # 0
  BY DEF Budgeted
<1>2. Edge(n, targets)
  BY DEF Travel
<1>3. /\ ArchitectureLeft(ticket, s2) = a - (IF n = "ArchitectureReconsideration" THEN 1 ELSE 0)
      /\ CorrectionsLeft(ticket, s2) = c - (IF n = "AutoCorrectionLoop" THEN 1 ELSE 0)
      /\ ReviewsLeft(ticket, s2) = r - (IF n = "ReviewReconsideration" THEN 1 ELSE 0)
  BY TravelBudgeted
<1>4. Remaining(ticket, n, s) = Rank(n, a, c, r)
  BY DEF Remaining
<1> HIDE DEF a, c, r
<1>5. CASE n \notin Loops
  <2>1. Remaining(ticket, m, s2) = Rank(m, a, c, r)
    BY <1>1, <1>3, <1>5 DEF Remaining, Loops
  <2>2. QED
    BY <1>1, <1>2, <1>4, <1>5, <2>1, EdgeRank
<1>6. CASE n = "ArchitectureReconsideration"
  <2>1. m = "PlanParallelTasks" /\ Remaining(ticket, m, s2) = Rank(m, a - 1, c, r)
    BY <1>1, <1>2, <1>3, <1>6 DEF Remaining, Edge, Roles
  <2>2. Rank(m, a - 1, c, r) \in Nat /\ Rank(n, a, c, r) \in Nat
    <3>1. a - 1 \in Nat /\ m \in Nodes /\ n \in Nodes
      BY <1>1, <1>6, <2>1 DEF Nodes, Loops
    <3>2. QED
      BY <1>1, <3>1, RankBound, Zenon
  <2>3. QED
    BY <1>1, <1>4, <1>6, <2>1, <2>2, LoopRank
<1>7. CASE n = "AutoCorrectionLoop"
  <2>1. m = "DelegateToOpencode" /\ Remaining(ticket, m, s2) = Rank(m, a, c - 1, r)
    BY <1>1, <1>2, <1>3, <1>7 DEF Remaining, Edge, Roles
  <2>2. Rank(m, a, c - 1, r) \in Nat /\ Rank(n, a, c, r) \in Nat
    <3>1. c - 1 \in Nat /\ m \in Nodes /\ n \in Nodes
      BY <1>1, <1>7, <2>1 DEF Nodes, Loops
    <3>2. QED
      BY <1>1, <3>1, RankBound, Zenon
  <2>3. QED
    BY <1>1, <1>4, <1>7, <2>1, <2>2, LoopRank
<1>8. CASE n = "ReviewReconsideration"
  <2>1. m = "DelegateToOpencode" /\ Remaining(ticket, m, s2) = Rank(m, a, c, r - 1)
    BY <1>1, <1>2, <1>3, <1>8 DEF Remaining, Edge, Roles
  <2>2. Rank(m, a, c, r - 1) \in Nat /\ Rank(n, a, c, r) \in Nat
    <3>1. r - 1 \in Nat /\ m \in Nodes /\ n \in Nodes
      BY <1>1, <1>8, <2>1 DEF Nodes, Loops
    <3>2. QED
      BY <1>1, <3>1, RankBound, Zenon
  <2>3. QED
    BY <1>1, <1>4, <1>8, <2>1, <2>2, LoopRank
<1>9. QED
  BY <1>5, <1>6, <1>7, <1>8 DEF Loops

\* An invocation can start at any position.
LEMMA Affordable ==
    ASSUME NEW t \in Tickets, NEW s, NEW nodes, Superstep(nodes), Budgeted(t, s, nodes), NEW n \in nodes
    PROVE  Remaining(t, n, s) \in Nat /\ 1 + Remaining(t, n, s) <= RecursionLimit
<1> DEFINE a == ArchitectureLeft(t, s)
           c == CorrectionsLeft(t, s)
           r == ReviewsLeft(t, s)
<1>1. n \in Nodes \cup Roles
  BY DEF Superstep
<1>2. a \in Nat /\ c \in Nat /\ r \in Nat
  BY DEF Budgeted
<1>3. Remaining(t, n, s) = Rank(n, a, c, r)
  BY DEF Remaining
<1>4. /\ Again(t.architecture) \in Nat /\ t.corrections \in Nat /\ Again(t.reviews) \in Nat
      /\ RecursionLimit \in Nat
      /\ 14 + 4 * Again(t.architecture) + 4 * t.corrections + 7 * Again(t.reviews) <= RecursionLimit
  BY BudgetSizes
<1>5. a <= Again(t.architecture) /\ c <= t.corrections /\ r <= Again(t.reviews)
  BY <1>4 DEF Budgeted, ArchitectureLeft, CorrectionsLeft, ReviewsLeft
<1> HIDE DEF a, c, r
<1>6. Rank(n, a, c, r) \in Nat /\ Rank(n, a, c, r) <= 13 + 4 * a + 4 * c + 7 * r
  BY <1>1, <1>2, RankBound
<1>7. QED
  BY <1>2, <1>3, <1>4, <1>5, <1>6

-----------------------------------------------------------------------------
(* An invocation in the middle of a node.                                    *)

IsInvocation(me) ==
    me \in [run : {me.run}, answer : {me.answer}, st : {me.st}, next : {me.next}, task : {me.task},
            step : {me.step}, pushed : {me.pushed}, supersteps : {me.supersteps}]

\* While it provisions, the node has deposited the credentials of the
\* sub-tasks before the one it is at.
Provisioning(held, me) ==
    "ProvisionWorkshop" \in me.next =>
        /\ me.task \in 1..Len(me.st.plan)
        /\ me.step \in {"start", "credential"} => Deposited(me.st.plan, held, me.task - 1)
        /\ me.step = "await" => Deposited(me.st.plan, held, Len(me.st.plan))

\* While it delegates, the node has pushed the sub-tasks before the one it is
\* at.
Delegating(me) ==
    "DelegateToOpencode" \in me.next =>
        me.task \in 1..Len(me.st.plan) /\ Deposited(me.st.plan, me.pushed, me.task - 1)

\* The Pull Request it has just created is on the forge.
Opening(prs, me) == "OpenPullRequest" \in me.next /\ me.step = "count" => me.task \in DOMAIN prs

\* What the invocation has used and may still use is within the limit; one
\* that takes an answer has just started.
Paced(t, me) ==
    /\ me.supersteps \in Nat
    /\ \A n \in me.next : me.supersteps + Remaining(t, n, me.st) <= RecursionLimit
    /\ me.step = "answered" => me.supersteps = 1

Within(t, held, prs, me) ==
    Provisioning(held, me) /\ Delegating(me) /\ Opening(prs, me) /\ Paced(t, me)

Healthy(t, held, prs, me) ==
    /\ IsInvocation(me) /\ me.run # "out_of_steps"
    /\ me.run = "running" => Sound(t, held, prs, me.st, me.next) /\ Within(t, held, prs, me)

\* An invocation stays healthy when others work.
LEMMA HealthyStays ==
    ASSUME NEW t, NEW held, NEW prs, NEW me, Healthy(t, held, prs, me),
           NEW held2, held \subseteq held2, NEW prs2, Grows(prs, prs2)
    PROVE  Healthy(t, held2, prs2, me)
<1>1. CASE me.run = "running"
  <2>1. Sound(t, held2, prs2, me.st, me.next)
    BY <1>1, SoundStays DEF Healthy
  <2>2. Provisioning(held2, me)
    BY <1>1 DEF Healthy, Within, Provisioning, Deposited
  <2>3. Opening(prs2, me)
    BY <1>1 DEF Healthy, Within, Opening, Grows
  <2>4. QED
    BY <1>1, <2>1, <2>2, <2>3 DEF Healthy, Within
<1>2. CASE me.run # "running"
  BY <1>2 DEF Healthy
<1>3. QED
  BY <1>1, <1>2

\* At the beginning of a node, only the limit is to be shown.
LEMMA Begun ==
    ASSUME NEW t, NEW held, NEW prs, NEW me, IsInvocation(me), me.run = "running",
           Sound(t, held, prs, me.st, me.next), me.task = 1, me.step \in {"start", "answered"},
           Paced(t, me)
    PROVE  Healthy(t, held, prs, me)
<1>1. 1 - 1 = 0 /\ \A plan, set : Deposited(plan, set, 0)
  BY DEF Deposited
<1>2. me.next \cap AfterPlan # {} => 1 \in 1..Len(me.st.plan)
  BY DEF Sound, Provided, Planned
<1>3. Provisioning(held, me)
  BY <1>1, <1>2 DEF Provisioning, AfterPlan
<1>4. Delegating(me)
  BY <1>1, <1>2 DEF Delegating, AfterPlan, Equipped
<1>5. QED
  BY <1>3, <1>4 DEF Healthy, Within, Opening

-----------------------------------------------------------------------------
(* The inductive invariant.                                                  *)

IsPr(r) == r \in [head : {r.head}, state : {"open", "merged"}, approved : BOOLEAN]

\* Nothing is merged without its approval.
WorldInv ==
    /\ ticket \in Tickets /\ \E S : forge \in Seq(S)
    /\ \A pr \in DOMAIN forge : IsPr(forge[pr]) /\ (forge[pr].state = "merged" => forge[pr].approved)

Inv ==
    /\ WorldInv /\ DOMAIN inv = Invocations
    /\ Sound(ticket, credentials, forge, saved.st, saved.next)
    /\ \A i \in Invocations : Healthy(ticket, credentials, forge, inv[i])

\* What a step may do outside the invocations.
WorldStep == WorldInv' /\ ticket' = ticket /\ credentials \subseteq credentials' /\ Grows(forge, forge')

\* A step of one invocation: it and the checkpoint are all that changes.
LEMMA OneSteps ==
    ASSUME Inv, WorldStep, NEW i \in Invocations, NEW me, inv' = [inv EXCEPT ![i] = me],
           Healthy(ticket, credentials', forge', me),
           Sound(ticket, credentials', forge', saved'.st, saved'.next)
    PROVE  Inv'
<1>1. DOMAIN inv' = Invocations /\ inv'[i] = me /\ \A j \in Invocations \ {i} : inv'[j] = inv[j]
  BY DEF Inv
<1>2. ASSUME NEW j \in Invocations
      PROVE  Healthy(ticket, credentials', forge', inv'[j])
  <2>1. CASE j = i
    BY <1>1, <2>1
  <2>2. CASE j # i
    <3>1. Healthy(ticket, credentials', forge', inv[j])
      BY HealthyStays DEF Inv, WorldStep
    <3>2. QED
      BY <1>1, <2>2, <3>1
  <2>3. QED
    BY <2>1, <2>2
<1>3. QED
  BY <1>1, <1>2 DEF Inv, WorldStep

\* The invocation ends or returns, and the checkpoint stays.
LEMMA Stopped ==
    ASSUME Inv, WorldStep, NEW i \in Invocations, NEW me, inv' = [inv EXCEPT ![i] = me],
           IsInvocation(me), me.run \notin {"running", "out_of_steps"}, UNCHANGED saved
    PROVE  Inv'
<1>1. Healthy(ticket, credentials', forge', me)
  BY DEF Healthy
<1>2. Sound(ticket, credentials', forge', saved.st, saved.next)
  BY SoundStays DEF Inv, WorldStep
<1>3. QED
  BY <1>1, <1>2, OneSteps, Zenon

\* So does one that raises.
LEMMA Raised ==
    ASSUME Inv, WorldStep, NEW i \in Invocations, Raise(i)
    PROVE  Inv'
<1>1. IsInvocation(Idle) /\ Idle.run = "idle"
  BY DEF Idle, IsInvocation
<1>2. QED
  BY <1>1, Stopped, Zenon DEF Raise

\* The invocation goes on in its node.
Goes(i, me) ==
    /\ inv' = [inv EXCEPT ![i] = me] /\ UNCHANGED saved
    /\ IsInvocation(me) /\ me.run = inv[i].run /\ me.st = inv[i].st /\ me.next = inv[i].next
    /\ me.supersteps = inv[i].supersteps /\ me.step # "answered"

\* The next call of a node.
LEMMA Continued ==
    ASSUME Inv, WorldStep, NEW i \in Invocations, inv[i].run = "running", NEW me, Goes(i, me),
           Provisioning(credentials', me), Delegating(me), Opening(forge', me)
    PROVE  Inv'
<1>1. Healthy(ticket, credentials', forge', inv[i])
  BY HealthyStays DEF Inv, WorldStep
<1>2. Paced(ticket, me)
  BY <1>1 DEF Healthy, Within, Paced, Goes
<1>3. Healthy(ticket, credentials', forge', me)
  BY <1>1, <1>2 DEF Healthy, Within, Goes
<1>4. Sound(ticket, credentials', forge', saved.st, saved.next)
  BY SoundStays DEF Inv, WorldStep
<1>5. QED
  BY <1>3, <1>4, OneSteps, Zenon DEF Goes

\* The node ends: its targets are the next superstep, which the limit allows.
LEMMA Moved ==
    ASSUME Inv, WorldStep, NEW i \in Invocations, inv[i].run = "running", NEW n \in inv[i].next,
           NEW s2, NEW targets, Finish(i, s2, targets),
           Travel(credentials', forge', n, inv[i].st, s2, targets),
           n = "AwaitHitlApproval" => inv[i].step = "answered"
    PROVE  Inv'
<1> DEFINE me == Advanced(inv[i], s2, targets)
           k == inv[i].supersteps
<1>1. /\ Sound(ticket, credentials, forge, inv[i].st, inv[i].next) /\ IsInvocation(inv[i])
      /\ Paced(ticket, inv[i]) /\ ticket \in Tickets
  BY DEF Inv, Healthy, Within, WorldInv
<1>2. Sound(ticket, credentials', forge', s2, targets)
  BY <1>1, TravelSound DEF WorldStep
<1>3. inv' = [inv EXCEPT ![i] = me] /\ saved'.st = s2 /\ saved'.next = targets
  BY DEF Finish
<1>4. k \in Nat /\ RecursionLimit \in Nat /\ 14 <= RecursionLimit
  <2>1. /\ Again(ticket.architecture) \in Nat /\ ticket.corrections \in Nat
        /\ Again(ticket.reviews) \in Nat /\ RecursionLimit \in Nat
        /\ 14 + 4 * Again(ticket.architecture) + 4 * ticket.corrections + 7 * Again(ticket.reviews)
             <= RecursionLimit
    BY <1>1, BudgetSizes
  <2>2. k \in Nat
    BY <1>1 DEF Paced
  <2>3. QED
    BY <2>1, <2>2
<1>5. ASSUME NEW m \in targets
      PROVE  Remaining(ticket, m, s2) \in Nat /\ (k + 1) + Remaining(ticket, m, s2) <= RecursionLimit
  <2>1. CASE n = "AwaitHitlApproval"
    <3>1. m = "MergeAndClose" /\ k = 1
      BY <1>1, <2>1 DEF Travel, Edge, Paced, Roles
    <3>2. Remaining(ticket, m, s2) = 2
      BY <3>1 DEF Remaining, Rank, Roles
    <3>3. QED
      BY <1>4, <3>1, <3>2
  <2>2. CASE n # "AwaitHitlApproval"
    <3>1. /\ Remaining(ticket, m, s2) \in Nat /\ Remaining(ticket, n, inv[i].st) \in Nat
          /\ Remaining(ticket, m, s2) + 1 <= Remaining(ticket, n, inv[i].st)
      BY <1>1, <2>2, TravelPaced DEF Sound
    <3>2. k + Remaining(ticket, n, inv[i].st) <= RecursionLimit
      BY <1>1 DEF Paced
    <3> HIDE DEF k
    <3>3. QED
      BY <1>4, <3>1, <3>2
  <2>3. QED
    BY <2>1, <2>2
<1>6. CASE targets = {}
  <2>1. IsInvocation(me) /\ me.run = "returning"
    BY <1>1, <1>6, Zenon DEF Advanced, IsInvocation
  <2> HIDE DEF me
  <2>2. Healthy(ticket, credentials', forge', me)
    BY <2>1 DEF Healthy
  <2>3. QED
    BY <1>2, <1>3, <2>2, OneSteps, Zenon
<1>7. CASE targets # {}
  <2>1. ~(k + 1 > RecursionLimit)
    <3>1. PICK m \in targets : TRUE
      BY <1>7
    <3>2. Remaining(ticket, m, s2) \in Nat /\ (k + 1) + Remaining(ticket, m, s2) <= RecursionLimit
      BY <1>5
    <3> HIDE DEF k
    <3>3. QED
      BY <1>4, <3>2
  <2>2. me = [inv[i] EXCEPT !.st = s2, !.next = targets, !.task = 1, !.step = "start",
                            !.pushed = {}, !.supersteps = k + 1, !.run = "running"]
    BY <1>7, <2>1, Zenon DEF Advanced
  <2>3. /\ IsInvocation(me) /\ me.run = "running" /\ me.st = s2 /\ me.next = targets
        /\ me.task = 1 /\ me.step = "start" /\ me.supersteps = k + 1
    <3> HIDE DEF me, k
    <3>1. QED
      BY <1>1, <2>2, Zenon DEF IsInvocation
  <2> HIDE DEF me
  <2>4. Paced(ticket, me)
    BY <1>4, <1>5, <2>3 DEF Paced
  <2>5. Healthy(ticket, credentials', forge', me)
    BY <1>2, <2>3, <2>4, Begun
  <2>6. QED
    BY <1>2, <1>3, <2>5, OneSteps, Zenon
<1>8. QED
  BY <1>6, <1>7

\* Most steps leave the credentials and the forge as they are.
LEMMA Quiet ==
    ASSUME Inv, UNCHANGED <<ticket, credentials, forge>>
    PROVE  WorldStep
<1>1. WorldInv'
  BY DEF Inv, WorldInv
<1>2. Grows(forge, forge')
  BY DEF Grows
<1>3. QED
  BY <1>1, <1>2 DEF WorldStep

\* A launch starts at the first node, with the budgets of the ticket.
LEMMA Launched ==
    ASSUME Inv, NEW i \in Invocations, StartWorkflow(i)
    PROVE  Inv'
<1> DEFINE s == [saved.st EXCEPT !.corrections = 0, !.architectureAttempts = 0, !.reviews = 0]
           me == [Idle EXCEPT !.run = "running", !.st = s, !.next = {"AnalyzeIssue"}, !.supersteps = 1]
<1>1. WorldStep /\ ticket \in Tickets
  BY Quiet DEF StartWorkflow, world, Inv, WorldInv
<1>2. inv' = [inv EXCEPT ![i] = me] /\ saved'.st = s /\ saved'.next = {"AnalyzeIssue"}
  BY DEF StartWorkflow
<1>3. IsState(saved.st)
  BY DEF Inv, Sound
<1>4. IsState(s) /\ s.architectureAttempts = 0 /\ s.corrections = 0 /\ s.reviews = 0
  BY <1>3, Zenon DEF IsState
<1> HIDE DEF s
<1>5. Superstep({"AnalyzeIssue"})
  BY DEF Superstep, Nodes
<1>6. Budgeted(ticket, s, {"AnalyzeIssue"})
  BY <1>1, <1>4, BudgetSizes DEF Budgeted, ArchitectureLeft, CorrectionsLeft, ReviewsLeft
<1>7. Sound(ticket, credentials', forge', s, {"AnalyzeIssue"})
  <2>1. /\ {"AnalyzeIssue"} \cap Opened = {} /\ {"AnalyzeIssue"} \cap Equipped = {}
        /\ {"AnalyzeIssue"} \cap AfterPlan = {} /\ {"AnalyzeIssue"} \cap Asking = {}
        /\ {"AnalyzeIssue"} \cap Designed = {}
    BY DEF Opened, Equipped, AfterPlan, Asking, Designed, Roles
  <2>2. QED
    BY <1>4, <1>5, <1>6, <2>1 DEF Sound, Reviewable, Provided, Gated
<1>8. /\ IsInvocation(me) /\ me.run = "running" /\ me.st = s /\ me.next = {"AnalyzeIssue"}
      /\ me.task = 1 /\ me.step = "start" /\ me.supersteps = 1
  BY Zenon DEF Idle, IsInvocation
<1> HIDE DEF me
<1>9. Paced(ticket, me)
  <2>1. 1 + Remaining(ticket, "AnalyzeIssue", s) <= RecursionLimit
    BY <1>1, <1>5, <1>6, Affordable
  <2>2. QED
    BY <1>8, <2>1 DEF Paced
<1>10. Healthy(ticket, credentials', forge', me)
  BY <1>7, <1>8, <1>9, Begun
<1>11. QED
  BY <1>1, <1>2, <1>7, <1>10, OneSteps, Zenon

\* An answer starts an invocation at the checkpoint, whatever it waits for.
LEMMA Resumed ==
    ASSUME Inv, NEW i \in Invocations, NEW decision, ResumeReview(i, decision)
    PROVE  Inv'
<1> DEFINE me == [Idle EXCEPT !.run = IF saved.next = {} THEN "returning" ELSE "running",
                              !.answer = decision, !.st = saved.st, !.next = saved.next,
                              !.step = IF "AwaitHitlApproval" \in saved.next THEN "answered" ELSE "start",
                              !.supersteps = 1]
<1>1. WorldStep /\ ticket \in Tickets /\ UNCHANGED <<saved, credentials, forge>>
  BY Quiet DEF ResumeReview, world, Inv, WorldInv
<1>2. inv' = [inv EXCEPT ![i] = me]
  BY DEF ResumeReview
<1>3. Sound(ticket, credentials, forge, saved.st, saved.next)
  BY DEF Inv
<1>4. /\ IsInvocation(me) /\ me.run \in {"running", "returning"} /\ me.st = saved.st
      /\ me.next = saved.next /\ me.task = 1 /\ me.step \in {"start", "answered"} /\ me.supersteps = 1
  BY Zenon DEF Idle, IsInvocation
<1> HIDE DEF me
<1>5. Paced(ticket, me)
  <2>1. \A n \in saved.next : 1 + Remaining(ticket, n, saved.st) <= RecursionLimit
    BY <1>1, <1>3, Affordable DEF Sound
  <2>2. QED
    BY <1>4, <2>1 DEF Paced
<1>6. Healthy(ticket, credentials, forge, me)
  <2>1. CASE me.run = "running"
    BY <1>3, <1>4, <1>5, <2>1, Begun
  <2>2. CASE me.run = "returning"
    BY <1>4, <2>2 DEF Healthy
  <2>3. QED
    BY <1>4, <2>1, <2>2
<1>7. QED
  BY <1>1, <1>2, <1>3, <1>6, OneSteps, Zenon

-----------------------------------------------------------------------------
(* What each node does when it ends.                                         *)

\* A node without calls.
LEMMA PureMoved ==
    ASSUME Inv, NEW i \in Invocations, NEW n, NEW step, At(i, n, step), n # "AwaitHitlApproval",
           NEW s2, NEW targets, Pure(i, s2, targets),
           Travel(credentials, forge, n, inv[i].st, s2, targets)
    PROVE  Inv'
<1>1. Finish(i, s2, targets) /\ UNCHANGED <<ticket, credentials, forge>>
  BY DEF Pure, Elsewhere, world
<1>2. inv[i].run = "running" /\ n \in inv[i].next
  BY DEF At
<1>3. QED
  BY <1>1, <1>2, Quiet, Moved

\* A node that only reads, but for its own field.
LEMMA Carried ==
    ASSUME NEW held, NEW prs, NEW n, NEW s, NEW s2, NEW targets, Edge(n, targets), IsState(s2),
           s2.plan = s.plan, s2.pr = s.pr, s2.architecture = s.architecture,
           Opinions(s2) = Opinions(s), Counters(s2) = Counters(s),
           n \notin Loops \cup {"PlanParallelTasks", "OpenPullRequest", "AwaitHitlApproval",
                                "ReviewArchitecture"},
           n = "ProvisionWorkshop" => Deposited(s.plan, held, Len(s.plan)),
           n = "RunDevcontainerTests" => targets = RouteAfterTests(s2),
           n = "ReviewGate" => targets = RouteAfterReview(s2)
    PROVE  Travel(held, prs, n, s, s2, targets)
<1>1. "MergeAndClose" \notin targets
  BY EdgeEntries
<1>2. n \notin {"ArchitectureReconsideration", "AutoCorrectionLoop", "ReviewReconsideration"}
  BY DEF Loops
<1>3. QED
  BY <1>1, <1>2 DEF Travel, Counters

\* The state of a running invocation has its fields.
LEMMA StateOf ==
    ASSUME Inv, NEW i \in Invocations, NEW n, NEW step, At(i, n, step)
    PROVE  IsState(inv[i].st)
  BY DEF Inv, Healthy, Sound, At

\* A retained plan names only earlier sub-tasks, whatever was proposed.
LEMMA RetainedOrdered ==
    ASSUME NEW proposal, Planned(proposal), NEW greenfield
    PROVE  Ordered(Retained(proposal, greenfield))
<1>1. Len(<<Single>>) = 1
  OBVIOUS
<1>2. CASE Retained(proposal, greenfield) = <<Single>>
  BY <1>1, <1>2 DEF Ordered
<1>3. CASE Retained(proposal, greenfield) = proposal /\ PlanIsCredible(proposal)
  <2>1. CASE Len(proposal) < 2
    BY <1>3, <2>1 DEF Ordered, Planned
  <2>2. CASE \A k \in DOMAIN proposal :
                proposal[k].needs # None =>
                    \E j \in 1..k - 1 : proposal[j].id = proposal[k].needs
    <3>1. DOMAIN proposal = 1..Len(proposal)
      BY DEF Planned
    <3>2. QED
      BY <1>3, <2>2, <3>1, Zenon DEF Ordered
  <2>3. QED
    BY <1>3, <2>1, <2>2, Zenon DEF PlanIsCredible
<1>4. QED
  BY <1>2, <1>3 DEF Retained

\* The planner.
LEMMA Proposes ==
    ASSUME Inv, NEW i \in Invocations, PlanParallelTasks(i)
    PROVE  Inv'
<1>1. PICK proposal \in ticket.proposals \cup {<<Single>>}, greenfield \in ticket.facts :
          LET s2 == [inv[i].st EXCEPT !.plan = Retained(proposal, greenfield), !.greenfield = greenfield]
          IN  Pure(i, s2, RouteAfterPlan(s2))
  BY Zenon DEF PlanParallelTasks
<1> DEFINE s == inv[i].st
           s2 == [s EXCEPT !.plan = Retained(proposal, greenfield), !.greenfield = greenfield]
<1>2. At(i, "PlanParallelTasks", "start")
  BY DEF PlanParallelTasks
<1>3. IsState(s)
  BY <1>2, StateOf
<1>4. Pure(i, s2, RouteAfterPlan(s2))
  BY <1>1
<1>5. IsState(s2) /\ s2.plan = Retained(proposal, greenfield) /\ s2.pr = s.pr
  <2> HIDE DEF s
  <2>1. QED
    BY <1>3, Zenon DEF IsState
<1>6. s2.architecture = s.architecture /\ Counters(s2) = Counters(s) /\ Opinions(s2) = Opinions(s)
  <2> HIDE DEF s
  <2>1. QED
    BY <1>3 DEF IsState, Counters, Opinions
<1> HIDE DEF s2
<1>7. Planned(<<Single>>) /\ Planned(proposal)
  <2>1. Len(<<Single>>) \in Nat \ {0} /\ DOMAIN <<Single>> = 1..Len(<<Single>>)
    OBVIOUS
  <2>2. Planned(<<Single>>)
    BY <2>1, Zenon DEF Planned
  <2>3. ticket \in Tickets
    BY DEF Inv, WorldInv
  <2>4. \A plan \in ticket.proposals : Planned(plan)
    BY <2>3, TicketsAssumption, Zenon DEF Planned
  <2>5. proposal \in ticket.proposals \cup {<<Single>>}
    BY <1>1
  <2>6. QED
    BY <2>2, <2>4, <2>5, Zenon
<1>8. Planned(s2.plan) /\ Ordered(s2.plan)
  <2>1. Retained(proposal, greenfield) \in {proposal, <<Single>>}
    BY Zenon DEF Retained
  <2>2. Planned(Retained(proposal, greenfield))
    BY <1>7, <2>1, Zenon
  <2>3. Ordered(Retained(proposal, greenfield))
    BY <1>7, RetainedOrdered, Zenon
  <2>4. QED
    BY <1>5, <2>2, <2>3, Zenon
<1>9. Edge("PlanParallelTasks", RouteAfterPlan(s2)) /\ "MergeAndClose" \notin RouteAfterPlan(s2)
  BY DEF RouteAfterPlan, Edge
<1>10. Travel(credentials, forge, "PlanParallelTasks", s, s2, RouteAfterPlan(s2))
  BY <1>5, <1>6, <1>8, <1>9 DEF Travel, Counters
<1>11. QED
  BY <1>2, <1>4, <1>10, PureMoved

\* The reviewer of the architecture.
LEMMA Designs ==
    ASSUME Inv, NEW i \in Invocations, ReviewArchitecture(i)
    PROVE  Inv'
<1>1. PICK verdict : LET s2 == [inv[i].st EXCEPT !.architecture = verdict]
                     IN  Pure(i, s2, RouteAfterArchitectureReview(s2))
  BY DEF ReviewArchitecture
<1> DEFINE s == inv[i].st
           s2 == [s EXCEPT !.architecture = verdict]
<1>2. At(i, "ReviewArchitecture", "start")
  BY DEF ReviewArchitecture
<1>3. IsState(s)
  BY <1>2, StateOf
<1>4. Pure(i, s2, RouteAfterArchitectureReview(s2))
  BY <1>1
<1>5. IsState(s2) /\ s2.plan = s.plan /\ s2.pr = s.pr
  <2> HIDE DEF s
  <2>1. QED
    BY <1>3 DEF IsState
<1>6. Counters(s2) = Counters(s) /\ Opinions(s2) = Opinions(s)
  <2> HIDE DEF s
  <2>1. QED
    BY <1>3 DEF IsState, Counters, Opinions
<1> HIDE DEF s2
<1>7. /\ Edge("ReviewArchitecture", RouteAfterArchitectureReview(s2))
      /\ "MergeAndClose" \notin RouteAfterArchitectureReview(s2)
  BY DEF RouteAfterArchitectureReview, Edge
<1>8. Travel(credentials, forge, "ReviewArchitecture", s, s2, RouteAfterArchitectureReview(s2))
  BY <1>5, <1>6, <1>7 DEF Travel, Counters
<1>9. QED
  BY <1>2, <1>4, <1>8, PureMoved

\* The three nodes that count an attempt.
LEMMA Counts ==
    ASSUME Inv, NEW i \in Invocations,
           ArchitectureReconsideration(i) \/ AutoCorrectionLoop(i) \/ ReviewReconsideration(i)
    PROVE  Inv'
<1> DEFINE s == inv[i].st
<1>1. ASSUME NEW n \in Loops, At(i, n, "start"), NEW s2, NEW targets, Pure(i, s2, targets),
             Edge(n, targets), IsState(s2), s2.plan = s.plan, s2.pr = s.pr,
             s2.architecture = s.architecture, Opinions(s2) = Opinions(s),
             Counters(s2) = <<IF n = "ArchitectureReconsideration" THEN s.architectureAttempts + 1
                              ELSE s.architectureAttempts,
                              IF n = "AutoCorrectionLoop" THEN s.corrections + 1 ELSE s.corrections,
                              IF n = "ReviewReconsideration" THEN s.reviews + 1 ELSE s.reviews>>
      PROVE  Inv'
  <2>1. "MergeAndClose" \notin targets
    BY <1>1, EdgeEntries DEF Loops
  <2>2. Travel(credentials, forge, n, s, s2, targets)
    BY <1>1, <2>1 DEF Travel, Loops
  <2>3. QED
    BY <1>1, <2>2, PureMoved DEF Loops
<1>2. CASE ArchitectureReconsideration(i)
  <2> DEFINE s2 == [s EXCEPT !.architectureAttempts = @ + 1]
  <2>1. At(i, "ArchitectureReconsideration", "start") /\ Pure(i, s2, {"PlanParallelTasks"})
    BY <1>2 DEF ArchitectureReconsideration
  <2>2. IsState(s)
    BY <2>1, StateOf
  <2> HIDE DEF s
  <2>3. IsState(s2) /\ s2.plan = s.plan /\ s2.pr = s.pr /\ s2.architecture = s.architecture
    BY <2>2 DEF IsState
  <2>4. /\ Opinions(s2) = Opinions(s)
        /\ Counters(s2) = <<s.architectureAttempts + 1, s.corrections, s.reviews>>
    BY <2>2 DEF IsState, Counters, Opinions
  <2> HIDE DEF s2
  <2>5. Edge("ArchitectureReconsideration", {"PlanParallelTasks"})
    BY DEF Edge
  <2>6. QED
    BY <1>1, <2>1, <2>3, <2>4, <2>5 DEF Loops
<1>3. CASE AutoCorrectionLoop(i)
  <2> DEFINE s2 == [s EXCEPT !.corrections = @ + 1]
  <2>1. At(i, "AutoCorrectionLoop", "start") /\ Pure(i, s2, {"DelegateToOpencode"})
    BY <1>3 DEF AutoCorrectionLoop
  <2>2. IsState(s)
    BY <2>1, StateOf
  <2> HIDE DEF s
  <2>3. IsState(s2) /\ s2.plan = s.plan /\ s2.pr = s.pr /\ s2.architecture = s.architecture
    BY <2>2 DEF IsState
  <2>4. /\ Opinions(s2) = Opinions(s)
        /\ Counters(s2) = <<s.architectureAttempts, s.corrections + 1, s.reviews>>
    BY <2>2 DEF IsState, Counters, Opinions
  <2> HIDE DEF s2
  <2>5. Edge("AutoCorrectionLoop", {"DelegateToOpencode"})
    BY DEF Edge
  <2>6. QED
    BY <1>1, <2>1, <2>3, <2>4, <2>5 DEF Loops
<1>4. CASE ReviewReconsideration(i)
  <2> DEFINE s2 == [s EXCEPT !.reviews = @ + 1]
  <2>1. At(i, "ReviewReconsideration", "start") /\ Pure(i, s2, {"DelegateToOpencode"})
    BY <1>4 DEF ReviewReconsideration
  <2>2. IsState(s)
    BY <2>1, StateOf
  <2> HIDE DEF s
  <2>3. IsState(s2) /\ s2.plan = s.plan /\ s2.pr = s.pr /\ s2.architecture = s.architecture
    BY <2>2 DEF IsState
  <2>4. /\ Opinions(s2) = Opinions(s)
        /\ Counters(s2) = <<s.architectureAttempts, s.corrections, s.reviews + 1>>
    BY <2>2 DEF IsState, Counters, Opinions
  <2> HIDE DEF s2
  <2>5. Edge("ReviewReconsideration", {"DelegateToOpencode"})
    BY DEF Edge
  <2>6. QED
    BY <1>1, <2>1, <2>3, <2>4, <2>5 DEF Loops
<1>5. QED
  BY <1>2, <1>3, <1>4

\* The nodes that leave the state as it is, or give only their own verdict.
LEMMA Passes ==
    ASSUME Inv, NEW i \in Invocations,
           \/ AnalyzeIssue(i) \/ ExpandGreenfieldSpec(i) \/ IntegrateSubTasks(i) \/ ReviewGate(i)
           \/ CommentAndClose(i) \/ IndexKnowledge(i)
    PROVE  Inv'
<1> DEFINE s == inv[i].st
<1>1. ASSUME NEW n, NEW step, At(i, n, step), NEW targets, Pure(i, s, targets), Edge(n, targets),
             n \in {"AnalyzeIssue", "ExpandGreenfieldSpec", "IntegrateSubTasks", "ReviewGate",
                    "MergeAndClose", "IndexKnowledge"},
             n = "ReviewGate" => targets = RouteAfterReview(s)
      PROVE  Inv'
  <2>1. IsState(s)
    BY <1>1, StateOf
  <2>2. Travel(credentials, forge, n, s, s, targets)
    BY <1>1, <2>1, Carried DEF Loops
  <2>3. QED
    BY <1>1, <2>2, PureMoved
<1>2. CASE AnalyzeIssue(i)
  BY <1>1, <1>2 DEF AnalyzeIssue, Edge
<1>3. CASE ExpandGreenfieldSpec(i)
  BY <1>1, <1>3 DEF ExpandGreenfieldSpec, Edge
<1>4. CASE IntegrateSubTasks(i)
  BY <1>1, <1>4 DEF IntegrateSubTasks, Edge
<1>5. CASE ReviewGate(i)
  <2>1. RouteAfterReview(s) \in {{"OpenPullRequest"}, {"ReviewReconsideration"}}
    BY DEF RouteAfterReview
  <2>2. Edge("ReviewGate", RouteAfterReview(s))
    BY <2>1 DEF Edge
  <2>3. QED
    BY <1>1, <1>5, <2>2 DEF ReviewGate
<1>6. CASE CommentAndClose(i)
  BY <1>1, <1>6 DEF CommentAndClose, Edge
<1>7. CASE IndexKnowledge(i)
  BY <1>1, <1>7 DEF IndexKnowledge, Edge
<1>8. QED
  BY <1>2, <1>3, <1>4, <1>5, <1>6, <1>7

\* The tests.
LEMMA Tests ==
    ASSUME Inv, NEW i \in Invocations, RunDevcontainerTests(i)
    PROVE  Inv'
<1>1. PICK passed : LET s2 == [inv[i].st EXCEPT !.passed = passed]
                    IN  Pure(i, s2, RouteAfterTests(s2))
  BY DEF RunDevcontainerTests
<1> DEFINE s == inv[i].st
           s2 == [s EXCEPT !.passed = passed]
<1>2. At(i, "RunDevcontainerTests", "start") /\ Pure(i, s2, RouteAfterTests(s2))
  BY <1>1 DEF RunDevcontainerTests
<1>3. IsState(s)
  BY <1>2, StateOf
<1> HIDE DEF s
<1>4. IsState(s2) /\ s2.plan = s.plan /\ s2.pr = s.pr /\ s2.architecture = s.architecture
  BY <1>3 DEF IsState
<1>5. Counters(s2) = Counters(s) /\ Opinions(s2) = Opinions(s)
  BY <1>3 DEF IsState, Counters, Opinions
<1> HIDE DEF s2
<1>6. Edge("RunDevcontainerTests", RouteAfterTests(s2))
  <2>1. RouteAfterTests(s2) \in {{"ReviewCode"}, {"AutoCorrectionLoop"}}
    BY DEF RouteAfterTests
  <2>2. QED
    BY <2>1 DEF Edge
<1>7. Travel(credentials, forge, "RunDevcontainerTests", s, s2, RouteAfterTests(s2))
  BY <1>4, <1>5, <1>6, Carried DEF Loops
<1>8. QED
  BY <1>2, <1>7, PureMoved DEF s

\* The verdict after the merge.
LEMMA Validates ==
    ASSUME Inv, NEW i \in Invocations, FinishQaValidation(i)
    PROVE  Inv'
<1>1. PICK verdict : Pure(i, [inv[i].st EXCEPT !.qa = verdict], {})
  BY DEF FinishQaValidation
<1> DEFINE s == inv[i].st
           s2 == [s EXCEPT !.qa = verdict]
<1>2. PICK step : At(i, "QAValidation", step)
  BY DEF FinishQaValidation
<1>3. IsState(s) /\ Pure(i, s2, {})
  BY <1>1, <1>2, StateOf
<1> HIDE DEF s
<1>4. IsState(s2) /\ s2.plan = s.plan /\ s2.pr = s.pr /\ s2.architecture = s.architecture
  BY <1>3 DEF IsState
<1>5. Counters(s2) = Counters(s) /\ Opinions(s2) = Opinions(s)
  BY <1>3 DEF IsState, Counters, Opinions
<1> HIDE DEF s2
<1>6. Edge("QAValidation", {})
  BY DEF Edge
<1>7. Travel(credentials, forge, "QAValidation", s, s2, {})
  BY <1>4, <1>5, <1>6, Carried DEF Loops
<1>8. QED
  BY <1>2, <1>3, <1>7, PureMoved DEF s

\* The code reviewer, which also decides who else reviews.
LEMMA Reviews ==
    ASSUME Inv, NEW i \in Invocations, ReviewCode(i)
    PROVE  Inv'
<1>1. PICK verdict, sensitive, infrastructure :
          LET s2 == [inv[i].st EXCEPT !.code = verdict, !.securityNeeded = sensitive,
                                      !.opsNeeded = infrastructure]
          IN  Pure(i, s2, RouteAfterCodeReview(s2))
  BY Zenon DEF ReviewCode
<1> DEFINE s == inv[i].st
           s2 == [s EXCEPT !.code = verdict, !.securityNeeded = sensitive,
                           !.opsNeeded = infrastructure]
<1>2. At(i, "ReviewCode", "start") /\ Pure(i, s2, RouteAfterCodeReview(s2))
  BY <1>1, Zenon DEF ReviewCode
<1>3. IsState(s)
  BY <1>2, StateOf
<1> HIDE DEF s
<1>4. IsState(s2) /\ s2.plan = s.plan /\ s2.pr = s.pr /\ s2.architecture = s.architecture
  BY <1>3, Zenon DEF IsState
<1>5. Counters(s2) = Counters(s)
  BY <1>3, Zenon DEF IsState, Counters
<1> HIDE DEF s2
<1>6. RouteAfterCodeReview(s2) = {"ReviewGate"} \/ RouteAfterCodeReview(s2) \subseteq Roles
  BY DEF RouteAfterCodeReview, Roles
<1>7. Edge("ReviewCode", RouteAfterCodeReview(s2)) /\ "MergeAndClose" \notin RouteAfterCodeReview(s2)
  BY <1>6 DEF Edge, Roles
<1> HIDE DEF RouteAfterCodeReview
<1>8. Travel(credentials, forge, "ReviewCode", s, s2, RouteAfterCodeReview(s2))
  BY <1>4, <1>5, <1>7 DEF Travel, Counters
<1>9. QED
  BY <1>2, <1>8, PureMoved DEF s

\* The conditional roles.
LEMMA Advises ==
    ASSUME Inv, NEW i \in Invocations, ConditionalReviews(i)
    PROVE  Inv'
<1>1. PICK security, ops : Pure(i, ReviewOps(ReviewSecurity(inv[i].st, inv[i].next, security),
                                             inv[i].next, ops), {"ReviewGate"})
  BY Zenon DEF ConditionalReviews
<1> DEFINE s == inv[i].st
           s1 == ReviewSecurity(s, inv[i].next, security)
           s2 == ReviewOps(s1, inv[i].next, ops)
<1>2. PICK n \in Roles : At(i, n, "start")
  BY DEF ConditionalReviews, Roles
<1>3. IsState(s) /\ Pure(i, s2, {"ReviewGate"})
  BY <1>1, <1>2, StateOf
<1> HIDE DEF s
<1>4. IsState(s1) /\ s1.plan = s.plan /\ s1.pr = s.pr /\ s1.architecture = s.architecture
  BY <1>3 DEF IsState, ReviewSecurity
<1>5. Counters(s1) = Counters(s)
  BY <1>3 DEF IsState, Counters, ReviewSecurity
<1> HIDE DEF s1
<1>6. IsState(s2) /\ s2.plan = s1.plan /\ s2.pr = s1.pr /\ s2.architecture = s1.architecture
  BY <1>4 DEF IsState, ReviewOps
<1>7. Counters(s2) = Counters(s1)
  BY <1>4 DEF IsState, Counters, ReviewOps
<1> HIDE DEF s2
<1>8. Edge(n, {"ReviewGate"})
  BY <1>2 DEF Edge
<1>9. n \notin Loops \cup {"PlanParallelTasks", "OpenPullRequest", "AwaitHitlApproval", "ProvisionWorkshop",
                           "ReviewArchitecture", "RunDevcontainerTests", "ReviewGate"}
  BY <1>2 DEF Roles, Loops
<1>10. Travel(credentials, forge, n, s, s2, {"ReviewGate"})
  BY <1>2, <1>4, <1>5, <1>6, <1>7, <1>8, <1>9 DEF Travel, Counters, Loops
<1>11. QED
  BY <1>2, <1>3, <1>9, <1>10, PureMoved DEF s

-----------------------------------------------------------------------------
(* The nodes that make their calls one by one.                               *)

\* Such a node is alone in its superstep, and where it is is recorded.
LEMMA Alone ==
    ASSUME Inv, NEW i \in Invocations, NEW n, NEW step, At(i, n, step), n \notin Roles
    PROVE  /\ inv[i].next = {n} /\ inv[i].run = "running" /\ inv[i].step = step
           /\ IsInvocation(inv[i]) /\ Within(ticket, credentials, forge, inv[i])
           /\ Sound(ticket, credentials, forge, inv[i].st, inv[i].next)
<1>1. Healthy(ticket, credentials, forge, inv[i])
  BY DEF Inv
<1>2. Sound(ticket, credentials, forge, inv[i].st, inv[i].next)
  BY <1>1 DEF Healthy, At
<1>3. inv[i].next = {n}
  BY <1>2 DEF Sound, Superstep, At
<1>4. QED
  BY <1>1, <1>2, <1>3 DEF Healthy, At

\* The next call of the node.
LEMMA Called ==
    ASSUME Inv, WorldStep, NEW i \in Invocations, NEW n, NEW step, At(i, n, step), n \notin Roles,
           NEW task, NEW step2, Continue(i, task, step2), step2 # "answered",
           n = "ProvisionWorkshop" =>
               /\ task \in 1..Len(inv[i].st.plan)
               /\ step2 \in {"start", "credential"} => Deposited(inv[i].st.plan, credentials', task - 1)
               /\ step2 = "await" => Deposited(inv[i].st.plan, credentials', Len(inv[i].st.plan)),
           n = "DelegateToOpencode" => task = inv[i].task,
           n = "OpenPullRequest" /\ step2 = "count" => task \in DOMAIN forge'
    PROVE  Inv'
<1> DEFINE old == inv[i]
           me == [old EXCEPT !.task = task, !.step = step2]
<1>1. /\ old.next = {n} /\ old.run = "running" /\ IsInvocation(old)
      /\ Within(ticket, credentials, forge, old)
  BY Alone
<1>2. inv' = [inv EXCEPT ![i] = me] /\ UNCHANGED saved
  BY DEF Continue
<1> HIDE DEF old
<1>3. IsInvocation(me) /\ me.run = old.run /\ me.st = old.st /\ me.next = old.next
  BY <1>1, Zenon DEF IsInvocation
<1>4. me.supersteps = old.supersteps /\ me.step = step2 /\ me.task = task /\ me.pushed = old.pushed
  BY <1>1 DEF IsInvocation
<1> HIDE DEF me
<1>5. Goes(i, me)
  BY <1>2, <1>3, <1>4 DEF Goes, old
<1>6. Provisioning(credentials', me)
  BY <1>1, <1>3, <1>4, Zenon DEF Provisioning, old
<1>7. Delegating(me)
  BY <1>1, <1>3, <1>4 DEF Delegating, Within, old
<1>8. Opening(forge', me)
  BY <1>1, <1>3, <1>4, Zenon DEF Opening, old
<1>9. QED
  BY <1>1, <1>5, <1>6, <1>7, <1>8, Continued DEF old

\* Behind the planner, a plan has a first and a last sub-task.
LEMMA HasPlan ==
    ASSUME Inv, NEW i \in Invocations, NEW n, NEW step, At(i, n, step), n \notin Roles,
           n \in AfterPlan
    PROVE  /\ Planned(inv[i].st.plan) /\ Ordered(inv[i].st.plan)
           /\ n \in Equipped => Deposited(inv[i].st.plan, credentials, Len(inv[i].st.plan))
<1>1. Sound(ticket, credentials, forge, inv[i].st, inv[i].next)
  BY Alone
<1>2. Provided(credentials, inv[i].st, inv[i].next) /\ n \in inv[i].next
  BY <1>1 DEF Sound, At
<1>3. QED
  BY <1>2 DEF Provided

\* One more deposit.
LEMMA OneMore ==
    ASSUME NEW plan, Planned(plan), NEW task \in 1..Len(plan), NEW set,
           Deposited(plan, set, task - 1)
    PROVE  Deposited(plan, set \cup {plan[task].id}, task)
<1> SUFFICES ASSUME NEW k \in 1..task
             PROVE  plan[k].id \in set \cup {plan[task].id}
  BY DEF Deposited
<1>1. CASE k = task
  BY <1>1
<1>2. CASE k # task
  <2>1. k \in 1..task - 1
    BY <1>2 DEF Planned
  <2>2. QED
    BY <2>1 DEF Deposited
<1>3. QED
  BY <1>1, <1>2

\* After a sub-task that is not the last comes another one.
LEMMA Following ==
    ASSUME NEW plan, Planned(plan), NEW task \in 1..Len(plan), task # Len(plan)
    PROVE  task + 1 \in 1..Len(plan) /\ (task + 1) - 1 = task
<1>1. Len(plan) \in Nat
  BY Zenon DEF Planned
<1>2. QED
  BY <1>1

\* The next call of the provisioning.
LEMMA Provisions ==
    ASSUME Inv, WorldStep, NEW i \in Invocations, NEW step, At(i, "ProvisionWorkshop", step),
           NEW task \in 1..Len(inv[i].st.plan), NEW step2 \in {"start", "credential", "await"},
           Continue(i, task, step2),
           step2 # "await" => Deposited(inv[i].st.plan, credentials', task - 1),
           step2 = "await" => Deposited(inv[i].st.plan, credentials', Len(inv[i].st.plan))
    PROVE  Inv'
  BY Called DEF Roles

\* The Workshop.
LEMMA Creates ==
    ASSUME Inv, NEW i \in Invocations, CreateWorkshop(i)
    PROVE  Inv'
<1>1. At(i, "ProvisionWorkshop", "start") /\ Continue(i, inv[i].task, "credential")
  BY DEF CreateWorkshop
<1>2. UNCHANGED <<ticket, credentials, forge>>
  BY DEF CreateWorkshop, Elsewhere
<1>3. WorldStep
  BY <1>2, Quiet
<1>4. /\ inv[i].task \in 1..Len(inv[i].st.plan)
      /\ Deposited(inv[i].st.plan, credentials, inv[i].task - 1)
  <2>1. Provisioning(credentials, inv[i]) /\ inv[i].next = {"ProvisionWorkshop"} /\ inv[i].step = "start"
    BY <1>1, Alone DEF Within, Roles
  <2>2. QED
    BY <2>1, Zenon DEF Provisioning
<1>5. QED
  BY <1>1, <1>2, <1>3, <1>4, Provisions, Zenon

\* The credential.
LEMMA Deposits ==
    ASSUME Inv, NEW i \in Invocations, SetGitCredential(i)
    PROVE  Inv'
<1> DEFINE plan == inv[i].st.plan
           task == inv[i].task
<1>1. At(i, "ProvisionWorkshop", "credential")
  BY DEF SetGitCredential
<1>2. UNCHANGED <<ticket, forge>> /\ credentials' = credentials \cup {plan[task].id}
  BY DEF SetGitCredential, Elsewhere, Workshop
<1>3. WorldStep
  <2>1. WorldInv'
    BY <1>2 DEF Inv, WorldInv
  <2>2. Grows(forge, forge')
    BY <1>2 DEF Grows
  <2>3. QED
    BY <1>2, <2>1, <2>2 DEF WorldStep
<1>4. task \in 1..Len(plan) /\ Deposited(plan, credentials, task - 1)
  <2>1. /\ Provisioning(credentials, inv[i]) /\ inv[i].next = {"ProvisionWorkshop"}
        /\ inv[i].step = "credential"
    BY <1>1, Alone DEF Within, Roles
  <2>2. QED
    BY <2>1, Zenon DEF Provisioning
<1>5. Planned(plan)
  BY <1>1, HasPlan DEF AfterPlan, Roles
<1>6. Deposited(plan, credentials', task)
  BY <1>2, <1>4, <1>5, OneMore, Zenon
<1>7. CASE IsLast(i)
  <2>1. Continue(i, 1, "await") /\ task = Len(plan)
    BY <1>7 DEF SetGitCredential, IsLast
  <2>2. 1 \in 1..Len(plan)
    BY <1>5 DEF Planned
  <2>3. QED
    BY <1>1, <1>3, <1>6, <2>1, <2>2, Provisions, Zenon
<1>8. CASE ~IsLast(i)
  <2>1. Continue(i, task + 1, "start") /\ task # Len(plan)
    BY <1>8 DEF SetGitCredential, IsLast
  <2>2. task + 1 \in 1..Len(plan) /\ (task + 1) - 1 = task
    BY <1>4, <1>5, <2>1, Following, Zenon
  <2>3. Deposited(plan, credentials', (task + 1) - 1)
    BY <1>6, <2>2
  <2>4. QED
    BY <1>1, <1>3, <2>1, <2>2, <2>3, Provisions, Zenon
<1>9. QED
  BY <1>7, <1>8

\* The wait for the Workshops.
LEMMA Waits ==
    ASSUME Inv, NEW i \in Invocations, AwaitWorkshopRunning(i)
    PROVE  Inv'
<1> DEFINE s == inv[i].st
           task == inv[i].task
<1>1. At(i, "ProvisionWorkshop", "await") /\ UNCHANGED <<ticket, credentials, forge>>
  BY DEF AwaitWorkshopRunning, Elsewhere, world
<1>2. WorldStep
  BY <1>1, Quiet
<1>3. task \in 1..Len(s.plan) /\ Deposited(s.plan, credentials, Len(s.plan))
  <2>1. Provisioning(credentials, inv[i]) /\ inv[i].next = {"ProvisionWorkshop"} /\ inv[i].step = "await"
    BY <1>1, Alone DEF Within, Roles
  <2>2. QED
    BY <2>1, Zenon DEF Provisioning
<1>4. Planned(s.plan) /\ IsState(s)
  BY <1>1, HasPlan, StateOf DEF AfterPlan, Roles
<1>5. CASE Raise(i)
  BY <1>2, <1>5, Raised
<1>6. CASE Finish(i, s, {"DelegateToOpencode"})
  <2>1. Edge("ProvisionWorkshop", {"DelegateToOpencode"})
    BY DEF Edge
  <2>2. Travel(credentials, forge, "ProvisionWorkshop", s, s, {"DelegateToOpencode"})
    BY <1>3, <1>4, <2>1, Carried DEF Loops
  <2>3. inv[i].run = "running" /\ "ProvisionWorkshop" \in inv[i].next
    BY <1>1 DEF At
  <2>4. QED
    BY <1>1, <1>2, <1>6, <2>2, <2>3, Moved
<1>7. CASE ~IsLast(i) /\ Continue(i, task + 1, "await")
  <2>1. task # Len(s.plan)
    BY <1>7, Zenon DEF IsLast
  <2>2. task + 1 \in 1..Len(s.plan)
    BY <1>3, <1>4, <2>1, Following, Zenon
  <2>3. Continue(i, task + 1, "await") /\ Deposited(s.plan, credentials', Len(s.plan))
    BY <1>1, <1>3, <1>7, Zenon
  <2>4. QED
    BY <1>1, <1>2, <2>2, <2>3, Provisions, Zenon
<1>8. QED
  BY <1>5, <1>6, <1>7 DEF AwaitWorkshopRunning

\* The agent.
LEMMA Runs ==
    ASSUME Inv, NEW i \in Invocations, RunAgent(i)
    PROVE  Inv'
<1>1. At(i, "DelegateToOpencode", "start") /\ UNCHANGED <<ticket, credentials, forge>>
  BY DEF RunAgent, Elsewhere, world
<1>2. WorldStep
  BY <1>1, Quiet
<1>3. CASE Raise(i)
  BY <1>2, <1>3, Raised
<1>4. CASE Continue(i, inv[i].task, "push")
  BY <1>1, <1>2, <1>4, Called DEF Roles
<1>5. QED
  BY <1>3, <1>4 DEF RunAgent

\* The push, and the next sub-task.
LEMMA Pushes ==
    ASSUME Inv, NEW i \in Invocations, CommitAndPush(i)
    PROVE  Inv'
<1> DEFINE old == inv[i]
           s == inv[i].st
           task == inv[i].task
<1>1. At(i, "DelegateToOpencode", "push") /\ UNCHANGED <<ticket, credentials, forge>>
  BY DEF CommitAndPush, Elsewhere, world
<1>2. WorldStep
  BY <1>1, Quiet
<1>3. Planned(s.plan) /\ IsState(s)
  BY <1>1, HasPlan, StateOf DEF AfterPlan, Equipped, Roles
<1>4. CASE Raise(i)
  BY <1>2, <1>4, Raised
<1>5. CASE Finish(i, s, {"IntegrateSubTasks"})
  <2>1. Edge("DelegateToOpencode", {"IntegrateSubTasks"})
    BY DEF Edge
  <2>2. Travel(credentials, forge, "DelegateToOpencode", s, s, {"IntegrateSubTasks"})
    BY <1>3, <2>1, Carried DEF Loops
  <2>3. inv[i].run = "running" /\ "DelegateToOpencode" \in inv[i].next
    BY <1>1 DEF At
  <2>4. QED
    BY <1>1, <1>2, <1>5, <2>2, <2>3, Moved
<1>6. CASE ~IsLast(i) /\ NextTask(i)
  <2> DEFINE more == old.pushed \cup {s.plan[task].id}
             me == [old EXCEPT !.task = @ + 1, !.step = "start", !.pushed = @ \cup {Workshop(i)}]
  <2>1. /\ old.next = {"DelegateToOpencode"} /\ old.run = "running" /\ IsInvocation(old)
        /\ Delegating(old)
    BY <1>1, Alone DEF Within, Roles
  <2>2. task \in 1..Len(s.plan) /\ Deposited(s.plan, old.pushed, task - 1)
    BY <2>1, Zenon DEF Delegating
  <2>3. task + 1 \in 1..Len(s.plan) /\ (task + 1) - 1 = task
    BY <1>3, <1>6, <2>2, Following, Zenon DEF IsLast
  <2>4. Deposited(s.plan, more, task)
    BY <1>3, <2>2, OneMore, Zenon
  <2>5. inv' = [inv EXCEPT ![i] = me] /\ UNCHANGED saved
    BY <1>6 DEF NextTask
  <2> HIDE DEF old
  <2>6. IsInvocation(me) /\ me.run = old.run /\ me.st = old.st /\ me.next = old.next
    BY <2>1, Zenon DEF IsInvocation
  <2>7. /\ me.supersteps = old.supersteps /\ me.step = "start" /\ me.task = old.task + 1
        /\ me.pushed = old.pushed \cup {Workshop(i)}
    BY <2>1 DEF IsInvocation
  <2> HIDE DEF me
  <2>8. Goes(i, me)
    BY <2>5, <2>6, <2>7 DEF Goes, old
  <2>9. Provisioning(credentials', me) /\ Opening(forge', me)
    BY <2>1, <2>6 DEF Provisioning, Opening
  <2>10. me.st = s /\ me.task = task + 1 /\ Deposited(s.plan, me.pushed, (task + 1) - 1)
    BY <2>3, <2>4, <2>6, <2>7 DEF old, Workshop
  <2>11. Delegating(me)
    BY <2>3, <2>10, Zenon DEF Delegating
  <2>12. QED
    BY <1>2, <2>1, <2>8, <2>9, <2>11, Continued DEF old
<1>7. QED
  BY <1>4, <1>5, <1>6 DEF CommitAndPush

\* A new Pull Request is open and not approved.
LEMMA ForgeAppends ==
    ASSUME Inv, UNCHANGED <<ticket, credentials>>, NEW head,
           forge' = Append(forge, [head |-> head, state |-> "open", approved |-> FALSE])
    PROVE  WorldStep /\ Len(forge) + 1 \in DOMAIN forge'
<1> DEFINE new == [head |-> head, state |-> "open", approved |-> FALSE]
<1>1. PICK S : forge \in Seq(S)
  BY DEF Inv, WorldInv
<1>2. IsPr(new) /\ new.state = "open"
  BY DEF IsPr
<1> HIDE DEF new
<1>3. forge \in Seq(S \cup {new}) /\ forge' = Append(forge, new)
  BY <1>1 DEF new
<1>4. /\ forge' \in Seq(S \cup {new}) /\ Len(forge') = Len(forge) + 1
      /\ forge'[Len(forge) + 1] = new /\ \A k \in 1..Len(forge) : forge'[k] = forge[k]
  BY <1>3
<1>5. /\ Len(forge) \in Nat /\ DOMAIN forge = 1..Len(forge)
      /\ DOMAIN forge' = 1..Len(forge) + 1
  BY <1>3, <1>4
<1>6. ASSUME NEW pr \in DOMAIN forge'
      PROVE  IsPr(forge'[pr]) /\ (forge'[pr].state = "merged" => forge'[pr].approved)
  <2>1. CASE pr = Len(forge) + 1
    BY <1>2, <1>4, <2>1, Zenon
  <2>2. CASE pr # Len(forge) + 1
    <3>1. pr \in DOMAIN forge /\ forge'[pr] = forge[pr]
      <4>1. pr \in 1..Len(forge)
        BY <1>5, <2>2
      <4>2. QED
        BY <1>4, <1>5, <4>1, Zenon
    <3>2. QED
      BY <3>1, Zenon DEF Inv, WorldInv
  <2>3. QED
    BY <2>1, <2>2
<1>7. WorldInv'
  BY <1>4, <1>6, Zenon DEF Inv, WorldInv
<1>8. Grows(forge, forge')
  BY <1>4, <1>5 DEF Grows
<1>9. QED
  BY <1>5, <1>7, <1>8 DEF WorldStep

\* One Pull Request changes, within what is allowed, and keeps its approval.
LEMMA ForgeChanges ==
    ASSUME Inv, UNCHANGED <<ticket, credentials>>, NEW pr \in DOMAIN forge, NEW r,
           forge' = [forge EXCEPT ![pr] = r], IsPr(r), r.state = "merged" => r.approved,
           forge[pr].approved => r.approved
    PROVE  WorldStep /\ forge'[pr] = r
<1>1. PICK S : forge \in Seq(S)
  BY DEF Inv, WorldInv
<1>2. /\ DOMAIN forge' = DOMAIN forge /\ forge'[pr] = r
      /\ \A k \in DOMAIN forge \ {pr} : forge'[k] = forge[k]
  OBVIOUS
<1>3. forge \in Seq(S \cup {r}) /\ pr \in 1..Len(forge)
  BY <1>1
<1>4. forge' \in Seq(S \cup {r})
  BY <1>3
<1>5. WorldInv'
  BY <1>2, <1>4 DEF Inv, WorldInv
<1>6. Grows(forge, forge')
  BY <1>2 DEF Grows
<1>7. QED
  BY <1>2, <1>5, <1>6 DEF WorldStep

\* Opening the Pull Request.
LEMMA Opens ==
    ASSUME Inv, NEW i \in Invocations, CreatePullRequest(i)
    PROVE  Inv'
<1>1. At(i, "OpenPullRequest", "start") /\ UNCHANGED <<ticket, credentials>>
  BY DEF CreatePullRequest, Elsewhere
<1>2. CASE Raise(i) /\ UNCHANGED forge
  BY <1>1, <1>2, Quiet, Raised
<1>3. CASE /\ forge' = Append(forge, [head |-> inv[i].st.plan[1].id, state |-> "open", approved |-> FALSE])
           /\ Continue(i, Len(forge) + 1, "count")
  <2>1. WorldStep /\ Len(forge) + 1 \in DOMAIN forge'
    BY <1>1, <1>3, ForgeAppends
  <2>2. QED
    BY <1>1, <1>3, <2>1, Called DEF Roles
<1>4. QED
  BY <1>2, <1>3, Zenon DEF CreatePullRequest

\* The end of the node, with the number of what it created.
LEMMA Numbers ==
    ASSUME Inv, NEW i \in Invocations, CountChangedFiles(i)
    PROVE  Inv'
<1> DEFINE s == inv[i].st
           s2 == [s EXCEPT !.pr = inv[i].task]
<1>1. At(i, "OpenPullRequest", "count") /\ UNCHANGED <<ticket, credentials, forge>>
  BY DEF CountChangedFiles, Elsewhere, world
<1>2. WorldStep
  BY <1>1, Quiet
<1>3. CASE Raise(i)
  BY <1>2, <1>3, Raised
<1>4. CASE Finish(i, s2, {"SuspendWhileWaitingReview"})
  <2>1. inv[i].task \in DOMAIN forge
    <3>1. Opening(forge, inv[i]) /\ inv[i].next = {"OpenPullRequest"} /\ inv[i].step = "count"
      BY <1>1, Alone DEF Within, Roles
    <3>2. QED
      BY <3>1, Zenon DEF Opening
  <2>2. IsState(s)
    BY <1>1, StateOf
  <2> DEFINE task == inv[i].task
  <2> HIDE DEF s, task
  <2>3. IsState(s2) /\ s2.plan = s.plan /\ s2.pr = task /\ s2.architecture = s.architecture
    BY <2>2 DEF IsState, task
  <2>4. Counters(s2) = Counters(s) /\ Opinions(s2) = Opinions(s)
    BY <2>2 DEF IsState, Counters, Opinions
  <2> HIDE DEF s2
  <2>5. Edge("OpenPullRequest", {"SuspendWhileWaitingReview"})
    BY DEF Edge
  <2>6. Travel(credentials, forge, "OpenPullRequest", s, s2, {"SuspendWhileWaitingReview"})
    BY <2>1, <2>3, <2>4, <2>5 DEF Travel, Counters, task
  <2>7. inv[i].run = "running" /\ "OpenPullRequest" \in inv[i].next
    BY <1>1 DEF At
  <2>8. QED
    BY <1>1, <1>2, <1>4, <2>6, <2>7, Moved DEF s
<1>5. QED
  BY <1>3, <1>4 DEF CountChangedFiles

\* The Workshops are suspended.
LEMMA Suspends ==
    ASSUME Inv, NEW i \in Invocations, SuspendWhileWaitingReview(i)
    PROVE  Inv'
<1> DEFINE s == inv[i].st
<1>1. At(i, "SuspendWhileWaitingReview", "start") /\ UNCHANGED <<ticket, credentials, forge>>
  BY DEF SuspendWhileWaitingReview, Elsewhere
<1>2. WorldStep /\ IsState(s)
  BY <1>1, Quiet, StateOf
<1>3. CASE Continue(i, inv[i].task + 1, "start")
  BY <1>1, <1>2, <1>3, Called DEF Roles
<1>4. CASE Finish(i, s, {"AwaitHitlApproval"})
  <2>1. Edge("SuspendWhileWaitingReview", {"AwaitHitlApproval"})
    BY DEF Edge
  <2>2. Travel(credentials, forge, "SuspendWhileWaitingReview", s, s, {"AwaitHitlApproval"})
    BY <1>2, <2>1, Carried DEF Loops
  <2>3. inv[i].run = "running" /\ "SuspendWhileWaitingReview" \in inv[i].next
    BY <1>1 DEF At
  <2>4. QED
    BY <1>1, <1>2, <1>4, <2>2, <2>3, Moved
<1>5. QED
  BY <1>3, <1>4 DEF SuspendWhileWaitingReview

\* The pause: the invocation returns, with the node still to run.
LEMMA Pauses ==
    ASSUME Inv, NEW i \in Invocations, AwaitHitlApproval(i)
    PROVE  Inv'
<1> DEFINE old == inv[i]
           me == [old EXCEPT !.run = "returning"]
<1>1. At(i, "AwaitHitlApproval", "start") /\ UNCHANGED <<ticket, credentials, forge>>
  BY DEF AwaitHitlApproval, Elsewhere, world
<1>2. inv' = [inv EXCEPT ![i] = me] /\ UNCHANGED saved
  BY DEF AwaitHitlApproval
<1>3. WorldStep /\ IsInvocation(old)
  BY <1>1, Quiet, Alone DEF Roles
<1> HIDE DEF old
<1>4. IsInvocation(me) /\ me.run = "returning"
  BY <1>3 DEF IsInvocation
<1> HIDE DEF me
<1>5. QED
  BY <1>2, <1>3, <1>4, Stopped, Zenon

\* The Pull Request of a position behind its creation.
LEMMA OnTheForge ==
    ASSUME Inv, NEW i \in Invocations, NEW n, NEW step, At(i, n, step), n \in Opened, n \notin Roles
    PROVE  /\ inv[i].st.pr \in DOMAIN forge /\ IsPr(forge[inv[i].st.pr])
           /\ n = "MergeAndClose" => forge[inv[i].st.pr].approved
<1>1. Reviewable(forge, inv[i].st, inv[i].next) /\ inv[i].next = {n}
  BY Alone DEF Sound
<1>2. inv[i].st.pr \in DOMAIN forge /\ (n = "MergeAndClose" => forge[inv[i].st.pr].approved)
  BY <1>1 DEF Reviewable
<1>3. QED
  BY <1>2 DEF Inv, WorldInv

\* The answer: an approval is recorded for the Pull Request of the pause, and
\* it alone leads to the merge.
LEMMA Takes ==
    ASSUME Inv, NEW i \in Invocations, TakeAnswer(i)
    PROVE  Inv'
<1> DEFINE s == inv[i].st
           answer == inv[i].answer
           s2 == Decided(s, answer)
           old == forge[s.pr]
           r == [old EXCEPT !.approved = @ \/ answer = "approved"]
<1>1. /\ At(i, "AwaitHitlApproval", "answered") /\ UNCHANGED <<ticket, credentials>>
      /\ Finish(i, s2, RouteAfterHitl(s2))
  BY DEF TakeAnswer, Elsewhere
<1>2. s.pr \in DOMAIN forge /\ IsPr(old) /\ IsState(s)
  BY <1>1, OnTheForge, StateOf DEF Opened, Roles
<1>3. forge' = [forge EXCEPT ![s.pr] = r]
  BY DEF TakeAnswer
<1>4. (old.state = "merged" => old.approved)
  BY <1>2 DEF Inv, WorldInv
<1> HIDE DEF old, s, answer
<1>5. IsPr(r) /\ r.state = old.state /\ r.approved = (old.approved \/ answer = "approved")
  BY <1>2, Zenon DEF IsPr
<1>6. IsState(s2) /\ s2.plan = s.plan /\ s2.pr = s.pr /\ s2.architecture = s.architecture
  BY <1>2 DEF IsState, Decided
<1>7. Counters(s2) = Counters(s) /\ Opinions(s2) = Opinions(s) /\ s2.decision = answer
  BY <1>2 DEF IsState, Counters, Opinions, Decided
<1> HIDE DEF s2, r
<1>8. /\ r.state = "merged" => r.approved
      /\ old.approved => r.approved
      /\ answer = "approved" => r.approved
  BY <1>4, <1>5, Zenon
<1>9. WorldStep /\ forge'[s.pr] = r
  BY <1>1, <1>2, <1>3, <1>5, <1>8, ForgeChanges, Zenon DEF old
<1>10. /\ RouteAfterHitl(s2) \in {{"MergeAndClose"}, {}}
       /\ "MergeAndClose" \in RouteAfterHitl(s2) => answer = "approved"
  BY <1>7 DEF RouteAfterHitl
<1>11. Edge("AwaitHitlApproval", RouteAfterHitl(s2))
  BY <1>10 DEF Edge
<1>12. "MergeAndClose" \in RouteAfterHitl(s2) => forge'[s2.pr].approved
  BY <1>6, <1>8, <1>9, <1>10, Zenon
<1> HIDE DEF RouteAfterHitl
<1>13. Travel(credentials', forge', "AwaitHitlApproval", s, s2, RouteAfterHitl(s2))
  BY <1>6, <1>7, <1>11, <1>12 DEF Travel, Counters
<1>14. inv[i].run = "running" /\ "AwaitHitlApproval" \in inv[i].next /\ inv[i].step = "answered"
  BY <1>1 DEF At
<1>15. QED
  BY <1>1, <1>9, <1>13, <1>14, Moved DEF s

\* The merge.
LEMMA Merges ==
    ASSUME Inv, NEW i \in Invocations, MergePullRequest(i)
    PROVE  Inv'
<1> DEFINE pr == inv[i].st.pr
           old == forge[pr]
           r == [old EXCEPT !.state = "merged"]
<1>1. At(i, "MergeAndClose", "start") /\ UNCHANGED <<ticket, credentials>>
  BY DEF MergePullRequest, Elsewhere
<1>2. CASE Raise(i) /\ UNCHANGED forge
  BY <1>1, <1>2, Quiet, Raised
<1>3. CASE forge' = [forge EXCEPT ![pr].state = "merged"] /\ Continue(i, 1, "comment")
  <2>1. pr \in DOMAIN forge /\ IsPr(old) /\ old.approved
    BY <1>1, OnTheForge DEF Opened, Roles
  <2>2. forge' = [forge EXCEPT ![pr] = r]
    BY <1>3
  <2> HIDE DEF old
  <2>3. IsPr(r) /\ r.approved
    BY <2>1 DEF IsPr
  <2> HIDE DEF r
  <2>4. WorldStep
    BY <1>1, <2>1, <2>2, <2>3, ForgeChanges, Zenon DEF old
  <2>5. QED
    BY <1>1, <1>3, <2>4, Called DEF Roles
<1>4. QED
  BY <1>2, <1>3 DEF MergePullRequest

\* The validation, until its verdict.
LEMMA Exercises ==
    ASSUME Inv, NEW i \in Invocations, ProvisionQaWorkshop(i) \/ ExerciseApplication(i)
    PROVE  Inv'
<1>1. PICK step : At(i, "QAValidation", step)
  BY DEF ProvisionQaWorkshop, ExerciseApplication
<1>2. PICK step2 \in {"await", "ran", "degraded"} : Continue(i, 1, step2)
  BY DEF ProvisionQaWorkshop, ExerciseApplication
<1>3. UNCHANGED <<ticket, credentials, forge>>
  BY DEF ProvisionQaWorkshop, ExerciseApplication, Elsewhere
<1>4. WorldStep
  BY <1>3, Quiet
<1>5. QED
  BY <1>1, <1>2, <1>4, Called DEF Roles

\* The runner records the review, a call fails.
LEMMA Ends ==
    ASSUME Inv, NEW i \in Invocations, RecordReview(i) \/ NodeRaises(i)
    PROVE  Inv'
<1>1. Raise(i) /\ UNCHANGED <<ticket, credentials, forge>>
  BY DEF RecordReview, NodeRaises, Raise, world
<1>2. QED
  BY <1>1, Quiet, Raised

\* The process restarts.
LEMMA Restarts ==
    ASSUME Inv, Restart
    PROVE  Inv'
<1>1. UNCHANGED <<ticket, credentials, forge, saved>> /\ inv' = [i \in Invocations |-> Idle]
  BY DEF Restart, world
<1>2. IsInvocation(Idle) /\ Idle.run = "idle"
  BY DEF Idle, IsInvocation
<1>3. \A i \in Invocations : Healthy(ticket, credentials, forge, inv'[i])
  BY <1>1, <1>2 DEF Healthy
<1>4. QED
  BY <1>1, <1>3 DEF Inv, WorldInv

\* A step that none of this sees.
LEMMA Unseen ==
    ASSUME Inv, UNCHANGED <<ticket, credentials, forge, saved, inv>>
    PROVE  Inv'
  BY DEF Inv, WorldInv

-----------------------------------------------------------------------------
(* The inductive invariant, and what it says.                                *)

\* Before the first launch.
LEMMA InitInv ==
    ASSUME Init
    PROVE  Inv
<1>1. IsInvocation(Idle) /\ Idle.run = "idle"
  BY DEF Idle, IsInvocation
<1>2. IsState(Blank)
  BY DEF Blank, IsState
<1>3. /\ Blank.architectureAttempts = 0 /\ Blank.corrections = 0 /\ Blank.reviews = 0
  BY DEF Blank
<1>4. saved.st = Blank /\ saved.next = {} /\ ticket \in Tickets
  BY DEF Init
<1>5. Budgeted(ticket, Blank, {})
  <2>1. /\ Again(ticket.architecture) \in Nat /\ ticket.corrections \in Nat
        /\ Again(ticket.reviews) \in Nat
    BY <1>4, BudgetSizes
  <2>2. QED
    BY <1>3, <2>1 DEF Budgeted, ArchitectureLeft, CorrectionsLeft, ReviewsLeft
<1>6. Sound(ticket, credentials, forge, Blank, {})
  BY <1>2, <1>5 DEF Sound, Superstep, Reviewable, Provided, Gated
<1>7. WorldInv
  <2>1. forge = <<>> /\ forge \in Seq({}) /\ DOMAIN forge = {}
    BY DEF Init
  <2>2. QED
    BY <1>4, <2>1, Zenon DEF WorldInv
<1>8. DOMAIN inv = Invocations /\ \A i \in Invocations : inv[i] = Idle
  BY DEF Init
<1>9. \A i \in Invocations : Healthy(ticket, credentials, forge, inv[i])
  BY <1>1, <1>8 DEF Healthy
<1>10. QED
  BY <1>4, <1>6, <1>7, <1>8, <1>9 DEF Inv

\* Every step.
LEMMA InvStep ==
    ASSUME Inv, [Next]_vars
    PROVE  Inv'
<1>1. ASSUME NEW i \in Invocations, Planning(i)
      PROVE  Inv'
  BY <1>1, Passes, Proposes, Designs, Counts DEF Planning
<1>2. ASSUME NEW i \in Invocations, Building(i)
      PROVE  Inv'
  BY <1>2, Creates, Deposits, Waits, Runs, Pushes, Passes, Tests, Counts DEF Building
<1>3. ASSUME NEW i \in Invocations, Reviewing(i)
      PROVE  Inv'
  BY <1>3, Reviews, Advises, Passes, Counts DEF Reviewing
<1>4. ASSUME NEW i \in Invocations, Delivering(i)
      PROVE  Inv'
  BY <1>4, Opens, Numbers, Suspends, Pauses, Takes, Merges, Passes, Exercises, Validates
     DEF Delivering
<1>5. ASSUME NEW i \in Invocations, Running(i)
      PROVE  Inv'
  BY <1>5, Launched, Ends, Resumed DEF Running
<1>6. ASSUME NEW name \in Name, WorkshopReconciled(name) \/ WorkshopResumed(name)
      PROVE  Inv'
  <2>1. UNCHANGED <<ticket, credentials, forge, saved, inv>>
    BY <1>6 DEF WorkshopReconciled, WorkshopResumed, Elsewhere, scheduler
  <2>2. QED
    BY <2>1, Unseen
<1>7. CASE UNCHANGED vars
  <2>1. UNCHANGED <<ticket, credentials, forge, saved, inv>>
    BY <1>7 DEF vars, scheduler, world
  <2>2. QED
    BY <2>1, Unseen
<1>8. QED
  BY <1>1, <1>2, <1>3, <1>4, <1>5, <1>6, <1>7, Restarts DEF Next

\* In every reachable state.
LEMMA AlwaysInv == Spec => []Inv
  BY InitInv, InvStep, PTL DEF Spec

\* An agent that starts: the Workshops of its plan, and what was pushed.
LEMMA AgentStarts ==
    ASSUME Inv, NEW i \in Invocations, At(i, "DelegateToOpencode", "start")
    PROVE  LET plan == inv[i].st.plan
           IN  /\ Planned(plan) /\ Ordered(plan) /\ Deposited(plan, credentials, Len(plan))
               /\ inv[i].task \in 1..Len(plan) /\ Deposited(plan, inv[i].pushed, inv[i].task - 1)
<1>1. /\ Planned(inv[i].st.plan) /\ Ordered(inv[i].st.plan)
      /\ Deposited(inv[i].st.plan, credentials, Len(inv[i].st.plan))
  BY HasPlan DEF AfterPlan, Equipped, Roles
<1>2. Delegating(inv[i]) /\ inv[i].next = {"DelegateToOpencode"}
  BY Alone DEF Within, Roles
<1>3. QED
  BY <1>1, <1>2, Zenon DEF Delegating

\* runner.py resume_review, nodes.py merge_and_close: whatever launches and
\* answers reach the thread, at whatever moment, and whichever calls fail, a
\* Pull Request that is merged is one whose own pause was approved.
THEOREM MergeIsApproved == Spec => []MergeNeedsApproval
<1>1. Inv => MergeNeedsApproval
  BY DEF Inv, WorldInv, MergeNeedsApproval
<1>2. QED
  BY <1>1, AlwaysInv, PTL

\* provision_workshop, delegate_to_opencode: whatever order and length the
\* retained plan has, and wherever the process died, every agent starts when
\* the credential of every Workshop of the plan is deposited.
THEOREM AgentsHaveCredentials == Spec => []AgentsCanPush
<1>1. ASSUME Inv
      PROVE  AgentsCanPush
  <2> SUFFICES ASSUME NEW i \in Invocations, At(i, "DelegateToOpencode", "start"),
                      NEW task \in Range(inv[i].st.plan)
               PROVE  task.id \in credentials
    BY DEF AgentsCanPush
  <2>1. Planned(inv[i].st.plan) /\ Deposited(inv[i].st.plan, credentials, Len(inv[i].st.plan))
    BY <1>1, AgentStarts
  <2>2. PICK k \in 1..Len(inv[i].st.plan) : task = inv[i].st.plan[k]
    BY <2>1, Zenon DEF Range, Planned
  <2>3. QED
    BY <2>1, <2>2, Zenon DEF Deposited
<1>2. QED
  BY <1>1, AlwaysInv, PTL

\* nodes.py, _outstanding_review_concerns: when the human is asked, an
\* objection still in the checkpoint is one whose budget is spent.
THEOREM ObjectionsExhaustBudget == Spec => []ObjectionMeansBudgetSpent
<1>1. ASSUME Inv
      PROVE  ObjectionMeansBudgetSpent
  <2> SUFFICES ASSUME "AwaitHitlApproval" \in saved.next
               PROVE  ReviewClosed(ticket, saved.st) /\ ArchitectureClosed(ticket, saved.st)
    BY DEF ObjectionMeansBudgetSpent, ReviewClosed, ArchitectureClosed
  <2>1. Gated(ticket, saved.st, saved.next)
    BY <1>1 DEF Inv, Sound
  <2>2. QED
    BY <2>1 DEF Gated, Asking, Designed
<1>2. QED
  BY <1>1, AlwaysInv, PTL

\* runner.py, _RECURSION_LIMIT: no order of corrections and reconsiderations
\* that the budgets of a ticket allow takes an invocation to the limit.
THEOREM BudgetsFitTheLimit == Spec => []NeverOutOfSteps
<1>1. Inv => NeverOutOfSteps
  BY DEF Inv, Healthy, NeverOutOfSteps
<1>2. QED
  BY <1>1, AlwaysInv, PTL

\* _plan_is_credible, delegate_to_opencode: whatever plan is proposed, however
\* often it is delegated again, an agent that consumes a contract starts when
\* this delegation has pushed the sub-task that produces it.
THEOREM ContractsArePublishedFirst == Spec => []ContractPublishedFirst
<1>1. ASSUME Inv
      PROVE  ContractPublishedFirst
  <2> SUFFICES ASSUME NEW i \in Invocations, At(i, "DelegateToOpencode", "start"),
                      NEW producer \in Range(inv[i].st.plan) \ {inv[i].st.plan[inv[i].task]},
                      inv[i].st.plan[inv[i].task].needs # None,
                      inv[i].st.plan[inv[i].task].needs = producer.id
               PROVE  producer.id \in inv[i].pushed
    BY Zenon DEF ContractPublishedFirst
  <2> DEFINE plan == inv[i].st.plan
             task == inv[i].task
  <2>1. /\ Planned(plan) /\ Ordered(plan)
        /\ task \in 1..Len(plan) /\ Deposited(plan, inv[i].pushed, task - 1)
    BY <1>1, AgentStarts
  <2>2. PICK k \in 1..Len(plan) : producer = plan[k]
    BY <2>1, Zenon DEF Range, Planned
  <2>3. k # task /\ plan[task].needs # None /\ plan[task].needs = producer.id
    BY <2>2, Zenon
  <2> HIDE DEF plan, task
  <2>4. Len(plan) >= 2
    <3>1. Len(plan) \in Nat /\ task \in 1..Len(plan)
      BY <2>1, Zenon DEF Planned
    <3>2. QED
      BY <2>2, <2>3, <3>1
  <2>5. PICK j \in 1..task - 1 : plan[j].id = producer.id
    <3>1. \E j \in 1..task - 1 : plan[j].id = plan[task].needs
      BY <2>1, <2>3, <2>4, Zenon DEF Ordered
    <3>2. QED
      BY <2>3, <3>1, Zenon
  <2>6. QED
    BY <2>1, <2>5, Zenon DEF Deposited
<1>2. QED
  BY <1>1, AlwaysInv, PTL
=============================================================================
