--------------------------- MODULE GuestServices ---------------------------
(***************************************************************************)
(* One service of a guest (`sshd`, `code-server` or `ttyd`) and the way its  *)
(* credential reaches it. The controller provisions the secret in OpenBao,   *)
(* net-proxy caches it and serves it to the guest, the start script asks for *)
(* it before it runs the service, and `guest-init` (PID 1) runs the script   *)
(* again when the service ends. A credential is a number, 0 when there is    *)
(* none; the number changes when the secret is written again.                *)
(***************************************************************************)
EXTENDS Naturals

CONSTANTS
    Tries,          \* times the start script asks before it goes on (60 in the code)
    MaxCredential   \* bound: secrets written for the Workshop

VARIABLES
    vault,      \* the secret in OpenBao
    cached,     \* net-proxy's copy, served to the guest
    attempted,  \* net-proxy has tried to read the secret since the pod started
    svc,        \* the service: state, credential it runs with, tries of its script
    faults      \* faults left in this behaviour

guestVars == <<vault, cached, attempted, svc>>

Fault == faults > 0 /\ faults' = faults - 1

\* A service is starting, up, dead (ended and not yet reaped) or lost
\* (guest-init holds no child for it).
Starting == [state |-> "starting", cred |-> 0, tries |-> 0]

\* The controller provisions the secret before it creates the pod, and goes on
\* when that fails.
GuestInit ==
    /\ vault \in {0, 1} /\ cached = 0 /\ attempted = FALSE
    /\ svc = Starting

-----------------------------------------------------------------------------
(* The secret and net-proxy's copy of it.                                   *)

\* Every reconciliation: reads the secret, and writes one only when there is none.
EnsureSessionAuth ==
    /\ vault = 0 /\ vault' = 1
    /\ UNCHANGED <<cached, attempted, svc, faults>>

\* An operator writes the secret again.
RotateSecret ==
    /\ vault # 0 /\ vault < MaxCredential /\ vault' = vault + 1
    /\ UNCHANGED <<cached, attempted, svc, faults>>

\* A cycle of the loop whose login and read both succeed.
RefreshOnce ==
    /\ vault # 0
    /\ cached' = vault /\ attempted' = TRUE
    /\ UNCHANGED <<vault, svc, faults>>

\* OpenBao does not answer, or has no secret yet: the known value stays.
RefreshFails ==
    /\ \/ Fault
       \/ vault = 0 /\ UNCHANGED faults
    /\ attempted' = TRUE
    /\ UNCHANGED <<vault, cached, svc>>

-----------------------------------------------------------------------------
(* The start script: curl in a loop, then exec of the service.              *)

\* metadata.rs answers 503 as long as nothing is cached.
FetchCredential ==
    /\ svc.state = "starting" /\ cached # 0
    /\ svc' = [svc EXCEPT !.state = "up", !.cred = cached]
    /\ UNCHANGED <<vault, cached, attempted, faults>>

FetchRefused ==
    /\ svc.state = "starting" /\ cached = 0 /\ svc.tries < Tries
    /\ svc' = [svc EXCEPT !.tries = @ + 1]
    /\ UNCHANGED <<vault, cached, attempted, faults>>

\* The loop is over and the script goes on with an empty value. Two minutes
\* have passed: net-proxy's first cycle, made when it starts, is behind.
GiveUpFetching ==
    /\ svc.state = "starting" /\ cached = 0 /\ svc.tries = Tries /\ attempted
    /\ svc' = [svc EXCEPT !.state = "up", !.cred = 0]
    /\ UNCHANGED <<vault, cached, attempted, faults>>

-----------------------------------------------------------------------------
(* guest-init.                                                              *)

ServiceExits ==
    /\ svc.state = "up" /\ Fault
    /\ svc' = [svc EXCEPT !.state = "dead"]
    /\ UNCHANGED <<vault, cached, attempted>>

SpawnIfPresent == svc' = Starting

\* `spawn().ok()`: a failed spawn leaves no child, and nothing looks again.
SpawnFails ==
    /\ Fault
    /\ svc' = [Starting EXCEPT !.state = "lost"]

\* The loop reaps the child it knows, sleeps two seconds and spawns again.
Reap ==
    /\ svc.state = "dead"
    /\ \/ SpawnIfPresent /\ UNCHANGED faults
       \/ SpawnFails
    /\ UNCHANGED <<vault, cached, attempted>>

\* The Workshop was stopped and resumed: a new pod with a new net-proxy, and a
\* guest that boots.
PodReplaced ==
    /\ Fault
    /\ cached' = 0 /\ attempted' = FALSE /\ svc' = Starting
    /\ UNCHANGED vault

-----------------------------------------------------------------------------

ServiceStep == FetchCredential \/ FetchRefused \/ GiveUpFetching \/ Reap
NetProxyStep == RefreshOnce \/ RefreshFails

=============================================================================
