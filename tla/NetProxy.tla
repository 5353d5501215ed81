------------------------------ MODULE NetProxy ------------------------------
(***************************************************************************)
(* `net-proxy`, the only way out of a Workshop's microVM: the egress        *)
(* allowlist with its periodic reload and its hot additions, the routing    *)
(* of an HTTP, CONNECT, transparent TLS or DNS exchange, the relay to an     *)
(* internal alias that survives the destination hanging up, the squad token *)
(* presented to another Workshop's `ingress`, and the anomaly detector that  *)
(* asks `vm-supervisor` for a lockdown.                                      *)
(*                                                                          *)
(* A host is a model value; the wildcards of an allowlist entry are not      *)
(* told apart from the hosts they match. Bodies are left out.                *)
(***************************************************************************)
EXTENDS Integers, Sequences, FiniteSets

CONSTANTS
    Hosts,          \* hosts outside the pod
    Aliases,        \* aliases of internal.rs, squad targets left out
    SquadTargets,   \* aliases of other Workshops of the squad
    Simulator,      \* the alias enable_simulator turns on
    Configurations, \* the deployments considered, see Configuration
    TokenTTL,       \* life of a squad token, in ticks
    Threshold,      \* refusals that trigger a lockdown ...
    Window,         \* ... when they fall in that many ticks
    Exchanges,      \* slots for the exchanges open at the same time, numbers
    MaxRequests     \* bound: requests of one keep-alive connection

Kind == {"http", "connect", "tls", "dns"}

\* key: a squad key is set; identity: identity-proxy is configured. Each
\* deployment comes with the egress file it starts with, the tools of
\* mcp-gateway the Workshop enables, and its bounds: the traffic of the guest,
\* exchanges accepted, changes of the file and hot additions, ticks.
Configuration == [key : BOOLEAN, identity : BOOLEAN, file : SUBSET Hosts,
                  tools : SUBSET {"egress", "enable_simulator"}, traffic : SUBSET Kind,
                  accepted : Nat, edits : Nat, time : Nat]

ASSUME NetProxyAssumption ==
    /\ Configurations \subseteq Configuration
    /\ Threshold \in Nat \ {0} /\ Window \in Nat /\ TokenTTL \in Nat
    /\ MaxRequests \in Nat
    /\ IsFiniteSet(Hosts) /\ Exchanges \subseteq Nat

Named == Hosts \cup Aliases \cup SquadTargets \cup {Simulator}

NoToken == -1

VARIABLES
    conf,         \* the deployment, fixed
    now,          \* clock
    file,         \* hosts of the mounted egress file
    readable,     \* the file can be read
    allowlist,    \* the shared list
    previousFile, \* what the reload task read last
    edits,        \* changes made so far
    simulator,    \* the alias `simulator` is on
    ex,           \* the exchanges
    accepted,     \* exchanges accepted so far
    denials,      \* refusals the detector still counts
    triggered,    \* it asked for a lockdown
    lockdown,     \* what became of the request
    \* @history
    allDenials    \* every refusal recorded

listVars == <<file, readable, allowlist, previousFile, edits, simulator>>
anomalyVars == <<denials, triggered, lockdown, allDenials>>
netVars == <<conf, now, listVars, ex, accepted, anomalyVars>>

\* No exchange.  `stage` is free, dial (connecting to the next hop), relay
\* (connected) or query (waiting for the upstream resolver); `far` is the end
\* of a relay: token (the ingress has yet to read it), open or closed.
Free == [kind |-> "http", stage |-> "free", host |-> Simulator, route |-> "none",
         token |-> NoToken, far |-> "none", asked |-> 0, sent |-> 0, answered |-> 0]

NetInit ==
    /\ conf \in Configurations
    /\ now = 0
    /\ file = conf.file /\ readable = TRUE
    /\ allowlist = file /\ previousFile = file /\ edits = 0
    /\ simulator = FALSE
    /\ ex = [x \in Exchanges |-> Free] /\ accepted = 0
    /\ denials = <<>> /\ triggered = FALSE /\ lockdown = "none"
    /\ allDenials = <<>>

\* A tick is minutes; connecting, presenting a token and asking a resolver
\* take seconds.
Busy(e) == e.stage \in {"dial", "query"} \/ e.far = "token"

Tick ==
    /\ now < conf.time
    /\ \A x \in Exchanges : ~Busy(ex[x])
    /\ now' = now + 1
    /\ UNCHANGED <<conf, listVars, ex, accepted, anomalyVars>>

-----------------------------------------------------------------------------
(* The allowlist: the mounted file, its reload, the admin endpoints.        *)

\* The controller rewrites the ConfigMap; the mount may be missing meanwhile.
EditFile ==
    /\ edits < conf.edits
    /\ edits' = edits + 1
    /\ \/ \E new \in SUBSET Hosts : file' = new /\ new # file /\ readable' = TRUE
       \/ readable /\ readable' = FALSE /\ file' = file
    /\ UNCHANGED <<conf, now, allowlist, previousFile, simulator, ex, accepted,
                   anomalyVars>>

\* The mount comes back.
RestoreFile ==
    /\ ~readable
    /\ readable' = TRUE
    /\ UNCHANGED <<conf, now, file, allowlist, previousFile, edits, simulator,
                   ex, accepted, anomalyVars>>

MergeReload_Replaces(current, previous, new) == new    \* mutation: hot additions lost
MergeReload(current, previous, new) ==
    new \cup {h \in current : h \notin previous}

ReloadAllowlist ==
    /\ readable /\ file # previousFile
    /\ allowlist' = MergeReload(allowlist, previousFile, file)
    /\ previousFile' = file
    /\ UNCHANGED <<conf, now, file, readable, edits, simulator, ex, accepted,
                   anomalyVars>>

\* A host already listed changes nothing.
AddHost(h) ==
    /\ edits < conf.edits
    /\ h \notin allowlist
    /\ allowlist' = allowlist \cup {h} /\ edits' = edits + 1
    /\ UNCHANGED <<conf, now, file, readable, previousFile, simulator, ex,
                   accepted, anomalyVars>>

EnableSimulator ==
    /\ ~simulator
    /\ simulator' = TRUE
    /\ UNCHANGED <<conf, now, file, readable, allowlist, previousFile, edits, ex,
                   accepted, anomalyVars>>

IsAllowed(h) == h \in allowlist

-----------------------------------------------------------------------------
(* The anomaly detector.                                                    *)

Recent_DropsAll(t) == <<>>                              \* mutation: forgets the window

\* The front is popped while it is older than the window.
Recent(t) ==
    LET Fresh(i) == i > Len(denials) \/ t - denials[i] <= Window
        first == CHOOSE i \in 1..Len(denials) + 1 :
                    Fresh(i) /\ \A j \in 1..i - 1 : ~Fresh(j)
    IN  SubSeq(denials, first, Len(denials))

\* Counts one refusal; past the threshold the first one fires the lockdown
\* request, in a task of its own.
RecordDenial ==
    LET kept == Append(Recent(now), now)
        fires == Len(kept) >= Threshold /\ ~triggered
    IN  /\ denials' = kept
        /\ triggered' = (triggered \/ fires)
        /\ lockdown' = IF fires THEN "posted" ELSE lockdown
        /\ allDenials' = Append(allDenials, now)

\* vm-supervisor accepts, refuses, or cannot be reached within ten seconds.
LockdownAnswered ==
    /\ lockdown = "posted"
    /\ lockdown' \in {"accepted", "failed"}
    /\ UNCHANGED <<conf, now, listVars, ex, accepted, denials, triggered,
                   allDenials>>

-----------------------------------------------------------------------------
(* Accepting and routing an exchange.                                       *)

\* The slots are alike: the first free one is taken.
Accept(x, kind) ==
    /\ kind \in conf.traffic
    /\ ex[x].stage = "free" /\ accepted < conf.accepted
    /\ \A y \in Exchanges : y < x => ex[y].stage # "free"
    /\ accepted' = accepted + 1

Open(kind, h, route, token) ==
    [Free EXCEPT !.kind = kind, !.stage = "dial", !.host = h, !.route = route,
                 !.token = token, !.asked = 1]

Routed(x, new) ==
    /\ Accept(x, new.kind)
    /\ ex' = [ex EXCEPT ![x] = new]
    /\ UNCHANGED <<conf, now, listVars, anomalyVars>>

\* A refusal answers 403 (TLS: closes) and is counted.
Deny(x, kind) ==
    /\ Accept(x, kind)
    /\ RecordDenial
    /\ UNCHANGED <<conf, now, listVars, ex>>

SquadToken == IF conf.key THEN now + TokenTTL ELSE NoToken

RouteSquad(x, kind, h) ==
    /\ h \in SquadTargets
    /\ Routed(x, Open(kind, h, "squad", SquadToken))

RouteInternal(x, kind, h) ==
    /\ h \in Aliases
    /\ Routed(x, Open(kind, h, "internal", NoToken))

RouteSimulator(x, kind, h) ==
    /\ h = Simulator /\ simulator
    /\ Routed(x, Open(kind, h, "simulator", NoToken))

OutwardHop == IF conf.identity THEN "identity" ELSE "upstream"

RouteOutward(x, kind, h) ==
    /\ h \in Hosts \/ (h = Simulator /\ ~simulator)
    /\ IsAllowed(h)
    /\ Routed(x, Open(kind, h, OutwardHop, NoToken))

DenyOutward(x, kind, h) ==
    /\ h \in Hosts \/ (h = Simulator /\ ~simulator)
    /\ ~IsAllowed(h)
    /\ Deny(x, kind)

HandleConnection(x) ==
    \E kind \in {"http", "connect"}, h \in Named :
        \/ RouteSquad(x, kind, h)
        \/ RouteInternal(x, kind, h)
        \/ RouteSimulator(x, kind, h)
        \/ RouteOutward(x, kind, h)
        \/ DenyOutward(x, kind, h)

\* The redirected port 443: the SNI against the allowlist, never an alias.
HandleTransparentTls(x) ==
    \E h \in Named :
        \/ IsAllowed(h) /\ Routed(x, Open("tls", h, OutwardHop, NoToken))
        \/ ~IsAllowed(h) /\ Deny(x, "tls")

\* DNS: an alias is answered here, another name is refused (uncounted) or
\* asked upstream. A malformed question and a forbidden type change nothing.
HandleQuery(x) ==
    \E h \in Hosts :
        /\ IsAllowed(h)
        /\ Routed(x, [Free EXCEPT !.kind = "dns", !.stage = "query"])

\* The upstream resolver answers, or five seconds pass.
QueryUpstream(x) ==
    /\ ex[x].stage = "query"
    /\ ex' = [ex EXCEPT ![x] = Free]
    /\ UNCHANGED <<conf, now, listVars, accepted, anomalyVars>>

-----------------------------------------------------------------------------
(* Relaying. An exchange that keeps rewriting its requests is plain HTTP     *)
(* to an internal or squad alias; every other one is copied blindly.        *)

Rewriting(e) == e.kind = "http" /\ e.route \in {"squad", "internal"}

Change(x, new) ==
    /\ ex' = [ex EXCEPT ![x] = new]
    /\ UNCHANGED <<conf, now, listVars, accepted, anomalyVars>>

\* What a fresh connection to the destination looks like: the token, when
\* there is one, is its first line.
Connected(e) ==
    [e EXCEPT !.stage = "relay", !.sent = e.asked,
              !.far = IF e.token # NoToken THEN "token" ELSE "open"]

Connect(x) ==
    /\ ex[x].stage = "dial"
    /\ Change(x, Connected(ex[x]))

\* 502 (nothing for TLS), end of the exchange.
ConnectFails(x) ==
    /\ ex[x].stage = "dial"
    /\ Change(x, Free)

TokenValid(token) == now <= token

\* The other Workshop's net-proxy reads the token before any other byte.
IngressAccepts(x) ==
    /\ ex[x].far = "token" /\ TokenValid(ex[x].token)
    /\ Change(x, [ex[x] EXCEPT !.far = "open"])

IngressRefuses(x) ==
    /\ ex[x].far = "token" /\ ~TokenValid(ex[x].token)
    /\ Change(x, [ex[x] EXCEPT !.far = "closed"])

Answer(x) ==
    /\ ex[x].stage = "relay" /\ Rewriting(ex[x]) /\ ex[x].far = "open"
    /\ ex[x].answered < ex[x].sent
    /\ Change(x, [ex[x] EXCEPT !.answered = @ + 1])

\* Idle timeout of the destination, or its end.
HangUp(x) ==
    /\ ex[x].stage = "relay" /\ Rewriting(ex[x]) /\ ex[x].far = "open"
    /\ Change(x, [ex[x] EXCEPT !.far = "closed"])

\* Next request of a keep-alive client. The end of the task that copies the
\* answers tells that the destination hung up: reconnect first, with the
\* token minted when the exchange was accepted.
NextRequest(x) ==
    LET e == [ex[x] EXCEPT !.asked = @ + 1]
    IN  /\ ex[x].stage = "relay" /\ Rewriting(ex[x])
        /\ ex[x].answered = ex[x].asked
        /\ ex[x].asked < MaxRequests
        /\ \/ ex[x].far # "closed" /\ Change(x, [e EXCEPT !.sent = @ + 1])
           \/ ex[x].far = "closed" /\ Change(x, Connected(e))
           \/ ex[x].far = "closed" /\ Change(x, Free)     \* 502

\* The client is done, or a blindly copied far end closed.
Close(x) ==
    /\ ex[x].stage = "relay"
    /\ Change(x, Free)

NetExchange(x) ==
    \/ HandleConnection(x) \/ HandleTransparentTls(x)
    \/ HandleQuery(x) \/ QueryUpstream(x)
    \/ Connect(x) \/ ConnectFails(x)
    \/ IngressAccepts(x) \/ IngressRefuses(x)
    \/ Answer(x) \/ HangUp(x) \/ NextRequest(x) \/ Close(x)
=============================================================================
