------------------------------- MODULE Tunnel -------------------------------
(***************************************************************************)
(* The api-server between a browser and a service of a guest. A request goes *)
(* through net-proxy's port forwarding with the proof the service asks for:  *)
(* the session password for the terminal, for the editor the cookie its      *)
(* login gives, kept from one request to the next. A terminal becomes a       *)
(* tunnel whose bytes are copied both ways and archived in S3 as they pass.  *)
(*                                                                         *)
(* A cookie is the number of the password it was obtained with.             *)
(***************************************************************************)
EXTENDS GuestServices, FiniteSets

CONSTANTS
    Requests,   \* requests a browser has at the same time
    Pipe        \* blocks the recording pipe holds

VARIABLES
    kind,       \* "editor", "terminal" or "ports"
    cookie,     \* the Workshop's entry of code_server_cookies, 0 when there is none
    req,        \* the requests
    archive,    \* the recording of each request's tunnel: its upload and its pipe
    blocked     \* S3 has stopped reading

tunnelVars == <<kind, cookie, req, archive, blocked>>

\* "stuck": the guest's end is gone and nobody says so.
Idle == [at |-> "idle", password |-> 0, cookie |-> 0]
NoArchive == [state |-> "none", pipe |-> 0]

TunnelInit ==
    /\ cookie = 0 /\ req = [r \in Requests |-> Idle]
    /\ archive = [r \in Requests |-> NoArchive] /\ blocked = FALSE

Move(r, at) == req' = [req EXCEPT ![r].at = at]

-----------------------------------------------------------------------------
(* A request.                                                               *)

\* Through the websocket to net-proxy and its connection to the guest.
OpenStream(r) ==
    /\ req[r].at = "idle" /\ archive[r] = NoArchive /\ svc.state = "up"
    /\ Move(r, IF kind = "ports" THEN "tunnel" ELSE "open")
    /\ UNCHANGED <<guestVars, faults, kind, cookie, archive, blocked>>

\* net-proxy reports that nothing listens: 502.
OpenPortFails(r) ==
    /\ req[r].at = "idle" /\ svc.state # "up"
    /\ Move(r, "refused")
    /\ UNCHANGED <<guestVars, faults, kind, cookie, archive, blocked>>

\* The secret is read at each request; without it the request goes as it is.
SessionPassword(r) ==
    /\ req[r].at = "open"
    /\ \/ /\ req' = [req EXCEPT ![r].password = vault,
                                ![r].at = IF kind = "editor" /\ vault # 0 THEN "login" ELSE "send"]
          /\ UNCHANGED faults
       \/ /\ Fault /\ Move(r, "send")
    /\ UNCHANGED <<guestVars, kind, cookie, archive, blocked>>

CachedCookie(r) ==
    /\ req[r].at = "login" /\ cookie # 0
    /\ req' = [req EXCEPT ![r].cookie = cookie, ![r].at = "send"]
    /\ UNCHANGED <<guestVars, faults, kind, cookie, archive, blocked>>

\* The login plays on the same connection; refused, the request goes without.
CodeServerLogin(r) ==
    /\ req[r].at = "login" /\ cookie = 0
    /\ IF req[r].password = svc.cred
       THEN /\ cookie' = svc.cred
            /\ req' = [req EXCEPT ![r].cookie = svc.cred, ![r].at = "send"]
       ELSE Move(r, "send") /\ UNCHANGED cookie
    /\ UNCHANGED <<guestVars, faults, kind, archive, blocked>>

Proven(r) == svc.cred # 0 /\ svc.cred = IF kind = "editor" THEN req[r].cookie ELSE req[r].password

\* The service answers. A terminal that accepts becomes a tunnel, and its
\* recording starts; an editor that refuses sends the browser to its login page.
ProxyToGuestPort(r) ==
    /\ req[r].at = "send"
    /\ Move(r, CASE Proven(r) /\ kind = "editor" -> "page"
                 [] Proven(r) /\ kind = "terminal" -> "tunnel"
                 [] ~Proven(r) /\ kind = "editor" -> "redirected"
                 [] OTHER -> "refused")
    /\ archive' = IF Proven(r) /\ kind = "terminal"
                  THEN [archive EXCEPT ![r].state = "uploading"] ELSE archive
    /\ UNCHANGED <<guestVars, faults, kind, cookie, blocked>>

ForgetCookie_Keeps(r) ==
    /\ req[r].at = "redirected"
    /\ UNCHANGED cookie /\ Move(r, "refused")
    /\ UNCHANGED <<guestVars, faults, kind, archive, blocked>>

\* The entry is removed whatever it holds by now.
ForgetCookie(r) ==
    /\ req[r].at = "redirected"
    /\ cookie' = 0 /\ Move(r, "refused")
    /\ UNCHANGED <<guestVars, faults, kind, archive, blocked>>

\* The browser has its answer, or has waited enough, and asks again.
BrowserMovesOn(r) ==
    /\ req[r].at \in {"page", "refused", "stuck"}
    /\ req' = [req EXCEPT ![r] = Idle]
    /\ UNCHANGED <<guestVars, faults, kind, cookie, archive, blocked>>

-----------------------------------------------------------------------------
(* A tunnel and its recording.                                              *)

Recording(r) == archive[r].state = "uploading"

\* Bytes from the browser's side: written to the recording first, and that write
\* waits while the pipe is full.
CopyFromBrowser(r) ==
    /\ req[r].at = "tunnel"
    /\ IF Recording(r)
       THEN archive[r].pipe < Pipe /\ archive' = [archive EXCEPT ![r].pipe = @ + 1]
       ELSE UNCHANGED archive
    /\ UNCHANGED <<guestVars, faults, kind, cookie, req, blocked>>

\* One end closes. The recording is closed and its upload waited for; the plain
\* relay of ports has none.
CopyEnds(r) ==
    /\ req[r].at = "tunnel"
    /\ IF Recording(r)
       THEN archive' = [archive EXCEPT ![r].state = "closed"] /\ Move(r, "closing")
       ELSE req' = [req EXCEPT ![r] = Idle] /\ archive' = [archive EXCEPT ![r] = NoArchive]
    /\ UNCHANGED <<guestVars, faults, kind, cookie, blocked>>

\* A failed write ends the copy at once: nobody waits for the upload.
CopyFails(r) ==
    /\ req[r].at = "tunnel" /\ Fault
    /\ req' = [req EXCEPT ![r] = Idle]
    /\ archive' = [archive EXCEPT ![r] = IF Recording(r) THEN [@ EXCEPT !.state = "closed"]
                                         ELSE NoArchive]
    /\ UNCHANGED <<guestVars, kind, cookie, blocked>>

UploadReads(r) ==
    /\ ~blocked /\ archive[r].pipe > 0
    /\ archive' = [archive EXCEPT ![r].pipe = @ - 1]
    /\ UNCHANGED <<guestVars, faults, kind, cookie, req, blocked>>

\* The upload of a tunnel whose copy failed ends unattended.
UploadCompletes(r) ==
    /\ ~blocked /\ archive[r] = [state |-> "closed", pipe |-> 0]
    /\ archive' = [archive EXCEPT ![r] = IF req[r].at = "closing" THEN [@ EXCEPT !.state = "stored"]
                                         ELSE NoArchive]
    /\ UNCHANGED <<guestVars, faults, kind, cookie, req, blocked>>

\* The pipe's other end is dropped: later writes fail and are ignored.
UploadFails(r) ==
    /\ archive[r].state \in {"uploading", "closed"} /\ Fault
    /\ archive' = [archive EXCEPT ![r] = IF req[r].at = "idle" THEN NoArchive
                                         ELSE [state |-> "failed", pipe |-> 0]]
    /\ UNCHANGED <<guestVars, kind, cookie, req, blocked>>

UploadBlocks ==
    /\ kind = "terminal" /\ ~blocked /\ Fault
    /\ blocked' = TRUE
    /\ UNCHANGED <<guestVars, kind, cookie, req, archive>>

Finish(r) ==
    /\ req[r].at = "closing" /\ archive[r].state \in {"stored", "failed"}
    /\ req' = [req EXCEPT ![r] = Idle] /\ archive' = [archive EXCEPT ![r] = NoArchive]
    /\ UNCHANGED <<guestVars, faults, kind, cookie, blocked>>

-----------------------------------------------------------------------------
(* What happens to requests and tunnels when their guest end goes.          *)

Held(r) == req[r].at \in {"open", "login", "send", "tunnel"}

\* net-proxy's session does not close the websocket when the guest closes its
\* side: a request waits for an answer, a tunnel stays open and silent.
ServiceExitsUnderRequests ==
    /\ ServiceExits
    /\ req' = [r \in Requests |->
          IF Held(r) /\ req[r].at # "tunnel" THEN [req[r] EXCEPT !.at = "stuck"] ELSE req[r]]
    /\ UNCHANGED <<kind, cookie, archive, blocked>>

\* With the pod its websockets close, and both ends learn it.
PodReplacedUnderRequests ==
    /\ PodReplaced
    /\ req' = [r \in Requests |->
          CASE Held(r) /\ req[r].at # "tunnel" -> [req[r] EXCEPT !.at = "refused"]
            [] req[r].at = "tunnel" /\ Recording(r) -> [req[r] EXCEPT !.at = "closing"]
            [] req[r].at = "tunnel" /\ ~Recording(r) -> Idle
            [] OTHER -> req[r]]
    /\ archive' = [r \in Requests |->
          CASE Recording(r) -> [archive[r] EXCEPT !.state = "closed"]
            [] ~Recording(r) /\ req[r].at = "tunnel" -> NoArchive
            [] OTHER -> archive[r]]
    /\ UNCHANGED <<kind, cookie, blocked>>

-----------------------------------------------------------------------------

Request(r) ==
    \/ OpenStream(r) \/ OpenPortFails(r) \/ SessionPassword(r) \/ CachedCookie(r)
    \/ CodeServerLogin(r) \/ ProxyToGuestPort(r) \/ ForgetCookie(r) \/ BrowserMovesOn(r)

Copy(r) == CopyFromBrowser(r) \/ CopyEnds(r) \/ CopyFails(r) \/ Finish(r)

Upload(r) == UploadReads(r) \/ UploadCompletes(r) \/ UploadFails(r)
=============================================================================
