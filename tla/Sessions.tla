------------------------------ MODULE Sessions ------------------------------
(***************************************************************************)
(* The sessions the api-server opens in a running Workshop: commands over    *)
(* SSH, the web editor, the web terminal and forwarded ports, each against   *)
(* the guest's service that answers it. A behaviour is about one kind of     *)
(* session, with its own bounds; the kinds share no state in the code but    *)
(* what GuestServices models, and each has its own service and secret there. *)
(* The approvals of the same server are one more kind, apart from the guest.  *)
(***************************************************************************)
EXTENDS Exec, Tunnel, Approvals

CONSTANT Kinds      \* the sessions checked: kind, bounds on faults and rotations, requests used

VARIABLE conf

vars == <<conf, guestVars, faults, execVars, tunnelVars, approvalVars>>

Commands == {"exec", "run"}

Init ==
    /\ conf \in Kinds /\ faults = conf.faults
    /\ GuestInit /\ ExecInit /\ TunnelInit /\ ApprovalInit
    /\ conf.kind # "approval" => choice = [d \in Everyone |-> "APPROVED"]
    /\ call = IF conf.kind \in Commands THEN conf.kind ELSE "exec"
    /\ kind = IF conf.kind \in Commands \cup {"approval"} THEN "editor" ELSE conf.kind

-----------------------------------------------------------------------------

OfCommand == conf.kind \in Commands /\ UNCHANGED <<conf, tunnelVars, approvalVars>>
OfTunnel ==
    conf.kind \notin Commands \cup {"approval"} /\ UNCHANGED <<conf, execVars, approvalVars>>
Same == conf.kind # "approval" /\ UNCHANGED <<conf, execVars, tunnelVars, approvalVars>>

\* A service's end is felt by the requests it was serving; each connection to
\* sshd has a process of its own, that stays.
Guest == (EnsureSessionAuth \/ ServiceStep \/ NetProxyStep) /\ Same
Rotation == RotateSecret /\ conf.rotate /\ Same
SshdExits == ServiceExits /\ OfCommand /\ UNCHANGED execVars

Command == (Opening \/ InGuest \/ Serving \/ Following) /\ OfCommand

Browser ==
    /\ \/ \E r \in conf.requests : Request(r) \/ Copy(r) \/ Upload(r)
       \/ UploadBlocks \/ ServiceExitsUnderRequests \/ PodReplacedUnderRequests
    /\ OfTunnel

Approving ==
    /\ conf.kind = "approval" /\ ApprovalNext
    /\ UNCHANGED <<conf, guestVars, faults, execVars, tunnelVars>>

Next == Guest \/ Rotation \/ SshdExits \/ Command \/ Browser \/ Approving

\* guest-init's loop, the start script, net-proxy's refresh, and the api-server's
\* tasks run by themselves; a browser that shows an editor keeps asking.
Fairness ==
    /\ WF_vars(EnsureSessionAuth /\ Same) /\ WF_vars(ServiceStep /\ Same)
    /\ WF_vars(RefreshOnce /\ Same)
    /\ WF_vars(ServerStep /\ OfCommand)
    /\ \A r \in Requests : WF_vars(r \in conf.requests /\ Request(r) /\ OfTunnel)

Spec == Init /\ [][Next]_vars /\ Fairness

-----------------------------------------------------------------------------
(* Properties.                                                              *)

\* A stream of `exec_in_workshop` that ends without an error event has told the
\* client the command's final status, and that after every byte the row holds
\* (stream_handler's one event per poll, opened before, during or after).
StreamComplete ==
    sse.done /\ sse.told # "error" =>
        /\ sse.told = row.status /\ row.status # "Running"
        /\ sse.out = row.out /\ sse.err = row.err

\* A command whose session is open ends for its caller, whatever the guest does,
\* unless the api-server stops or PostgreSQL refuses the last write; and `run`
\* answers as soon as it has dialled, sshd silent or not (the server's deadline
\* of run_over_ssh and run_over_within, ESTABLISH_TIMEOUT).
CommandSettles ==
    (task = "wait" \/ (call = "run" /\ task = "establish"))
        ~> (row.status # "Running" \/ task \in {"unrecorded", "crashed"})

\* The editor comes back: if from some time on guest-init has not lost the service
\* and the service, when it runs, runs with the password OpenBao holds, then pages
\* are served again and again, whatever cookie the api-server had kept
\* (proxy_to_guest_port, forget_code_server_cookie, guest-init's relaunch).
EditorRecovers ==
    conf.kind = "editor" =>
        (<>[](svc.state # "lost" /\ (svc.state = "up" => svc.cred = vault))
            => []<>(\E r \in conf.requests : req[r].at = "page"))
=============================================================================
