----------------------------- MODULE Approvals -----------------------------
(***************************************************************************)
(* The approvals of the api-server (approvals.rs, chatops.rs): one request,  *)
(* its time to live, and the people who decide it, through the API or with a *)
(* button in Slack. A decision is a transaction that reads the row, then     *)
(* writes it by its identifier: PostgreSQL runs it READ COMMITTED and nothing *)
(* locks the row in between.                                                 *)
(***************************************************************************)
CONSTANTS Deciders,    \* those who may decide through the API
          Slack        \* the webhook Slack calls when a button is clicked

VARIABLES
    ticket,      \* the row of hitl_requests
    late,        \* expires_at has passed
    notified,    \* the buttons are in Slack
    hand,        \* where the transaction of each decider is
    choice,      \* what each decides
    rivals       \* those who held the row when each decision was committed

approvalVars == <<ticket, late, notified, hand, choice, rivals>>

Decision == {"APPROVED", "REJECTED"}
Everyone == Deciders \cup {Slack}

ApprovalInit ==
    /\ ticket = "none" /\ late = FALSE /\ notified = FALSE
    /\ hand = [d \in Everyone |-> "away"]
    /\ choice \in [Everyone -> Decision]
    /\ rivals = [d \in Everyone |-> {}]

\* Best effort: the buttons are shown or they are not.
notify_slack == notified' \in BOOLEAN

\* Slack is told after the row is committed.
create_approval ==
    /\ ticket = "none" /\ ticket' = "PENDING"
    /\ notify_slack
    /\ UNCHANGED <<late, hand, choice, rivals>>

TimeToLiveEnds ==
    /\ ticket # "none" /\ ~late
    /\ late' = TRUE
    /\ UNCHANGED <<ticket, notified, hand, choice, rivals>>

\* list_approvals: one UPDATE, whose condition PostgreSQL checks on the row it
\* writes.
expire_stale ==
    /\ ticket = "PENDING" /\ late
    /\ ticket' = "EXPIRED"
    /\ UNCHANGED <<late, notified, hand, choice, rivals>>

Holds(d) == hand[d] \in {"expire", "write"}

\* Mutation: what was decided can be decided again.
Verdict_Again == IF ticket = "PENDING" /\ late THEN "expire" ELSE "write"

\* apply_decision on the row it read: too late, already decided, or open.
Verdict ==
    IF ticket = "PENDING" /\ late THEN "expire"
    ELSE IF ticket # "PENDING" THEN "refused" ELSE "write"

\* A click needs the buttons; it decides as the API does.
slack_interactions(d) == d = Slack => notified

\* decide_approval and slack_interactions: the row is read.
BeginDecision(d) ==
    /\ hand[d] = "away" /\ ticket # "none"
    /\ slack_interactions(d)
    /\ hand' = [hand EXCEPT ![d] = Verdict]
    /\ UNCHANGED <<ticket, late, notified, choice, rivals>>

\* The row is marked expired, whatever it has become.
ExpireDecision(d) ==
    /\ hand[d] = "expire" /\ hand' = [hand EXCEPT ![d] = "refused"]
    /\ ticket' = "EXPIRED"
    /\ UNCHANGED <<late, notified, choice, rivals>>

\* The decision is written, whatever the row has become, and returned.
CommitDecision(d) ==
    /\ hand[d] = "write" /\ hand' = [hand EXCEPT ![d] = "told"]
    /\ ticket' = choice[d]
    /\ rivals' = [rivals EXCEPT ![d] = {e \in Everyone \ {d} : Holds(e)}]
    /\ UNCHANGED <<late, notified, choice>>

\* The database refuses: nothing is written, and the caller has an error.
DecisionFails(d) ==
    /\ Holds(d)
    /\ hand' = [hand EXCEPT ![d] = "refused"]
    /\ UNCHANGED <<ticket, late, notified, choice, rivals>>

ApprovalNext ==
    \/ create_approval \/ TimeToLiveEnds \/ expire_stale
    \/ \E d \in Everyone : BeginDecision(d) \/ ExpireDecision(d)
                             \/ CommitDecision(d) \/ DecisionFails(d)

\* apply_decision: the decision returned to someone is the one that stays,
\* unless another decider had already read the request as pending: neither a
\* later decision, nor the end of the time to live, nor a list changes it.
ToldIsKept ==
    \A d \in Everyone :
        hand[d] = "told" /\ rivals[d] = {} => ticket = choice[d]
=============================================================================
