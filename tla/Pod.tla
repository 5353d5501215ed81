-------------------------------- MODULE Pod --------------------------------
(***************************************************************************)
(* The network side of a Workshop's pod: `net-proxy`, `identity-proxy` when *)
(* it is configured, and the tools `mcp-gateway` offers the agent. Allowed   *)
(* plain HTTP goes from the one to the other: net-proxy copies the bytes of  *)
(* a connection blindly, identity-proxy serves its requests.                *)
(* The controller's passes over the pods of a campaign (ParentPod) are        *)
(* checked apart from the traffic: all the proxies see of them is that their  *)
(* files change, which EditFile and EditRules do at any time.                *)
(***************************************************************************)
EXTENDS NetProxy, IdentityProxy, ParentPod

vars == <<netVars, idVars, squadVars>>

\* Without identity-proxy its variables stand still.
Init ==
    /\ NetInit /\ IdInit
    /\ ~conf.identity => rulesFile = <<>>
    /\ SquadInit /\ (conf.traffic = {} <=> squad.members # {})

-----------------------------------------------------------------------------
(* mcp-gateway. A tool that is not enabled answers an error.                *)

RequestEgress ==
    /\ "egress" \in conf.tools
    /\ \E h \in Hosts : AddHost(h)
    /\ UNCHANGED idVars

EnableSimulatorTool ==
    /\ "enable_simulator" \in conf.tools
    /\ EnableSimulator
    /\ UNCHANGED idVars

-----------------------------------------------------------------------------
(* The connection net-proxy holds with identity-proxy.                      *)

ViaIdentity(e) == e.kind = "http" /\ e.route = "identity"

\* identity-proxy accepts as soon as net-proxy has connected to it.
Chain(x) ==
    /\ ViaIdentity(ex[x])
    /\ Connect(x)
    /\ Serve(x, ex[x].host)
    /\ UNCHANGED <<ruleVars, loopVars>>

\* Either end closes: the copy ends, and the other end with it.
Unchain(x) ==
    /\ ViaIdentity(ex[x])
    /\ Close(x)
    /\ Drop(x)
    /\ UNCHANGED <<ruleVars, loopVars>>

\* Without identity-proxy on the way net-proxy is alone.
Alone(x) ==
    /\ \/ ~ViaIdentity(ex[x]) /\ NetExchange(x)
       \/ ViaIdentity(ex[x]) /\ ConnectFails(x)
    /\ UNCHANGED idVars

Injecting(x) == conf.identity /\ IdServe(x) /\ UNCHANGED netVars

-----------------------------------------------------------------------------
Background ==
    \/ Tick \/ EditFile \/ RestoreFile \/ ReloadAllowlist \/ LockdownAnswered

IdBackground ==
    /\ conf.identity
    /\ \/ EditRules \/ RestoreRules
       \/ \E s \in Secrets : WriteSecret(s) \/ DeleteSecret(s)
       \/ RefreshStep \/ LoginFails

Proxies ==
    \/ Background /\ UNCHANGED idVars
    \/ IdBackground /\ UNCHANGED netVars
    \/ RequestEgress \/ EnableSimulatorTool
    \/ \E x \in Exchanges : Chain(x) \/ Unchain(x) \/ Alone(x) \/ Injecting(x)

OfProxies == squad.members = {} /\ UNCHANGED squadVars
OfCampaign == UNCHANGED <<netVars, idVars>>

Next ==
    \/ Proxies /\ OfProxies
    \/ SquadNext /\ OfCampaign

\* The two reload tasks are loops over a sleep that nothing can stop; the
\* kubelet puts a missing mount back. The controller requeues every Workshop,
\* and Kubernetes ends a pod that is deleted.
Fairness ==
    /\ WF_vars(ReloadAllowlist /\ UNCHANGED idVars /\ OfProxies)
    /\ WF_vars(RestoreFile /\ UNCHANGED idVars /\ OfProxies)
    /\ WF_vars(conf.identity /\ RefreshStep /\ UNCHANGED netVars /\ OfProxies)
    /\ WF_vars(conf.identity /\ RestoreRules /\ UNCHANGED netVars /\ OfProxies)
    /\ \A w \in Members : WF_vars(w \in squad.members /\ Pass(w) /\ OfCampaign)
    /\ WF_vars((\E w \in squad.members : ParentGone(w)) /\ OfCampaign)

Spec == Init /\ [][Next]_vars /\ Fairness

-----------------------------------------------------------------------------
(* Properties                                                               *)

\* The reload of the egress file (main.rs, allowlist.rs) takes a host away
\* only because the file it read before named it and the new one does not: a
\* hot addition of request_egress is never lost to a reload that has nothing
\* to do with it, and every host of the file last read is allowed.
ListFollowsFile ==
    [][/\ \A h \in allowlist \ allowlist' : h \in previousFile \ previousFile'
       /\ previousFile' \subseteq allowlist']_vars

\* The detector (anomaly.rs) keeps only a window of the refusals, yet it
\* misses no burst: as many refusals as the threshold, within one window of
\* the latest, have always triggered the lockdown request, and nothing less
\* ever does.
BurstTriggers ==
    LET Burst(j) == Cardinality({i \in 1..j : allDenials[j] - allDenials[i] <= Window})
                        >= Threshold
    IN  /\ triggered <=> \E j \in 1..Len(allDenials) : Burst(j)
        /\ triggered <=> lockdown # "none"

\* Every request identity-proxy adds a credential to (proxy.rs, secrets.rs),
\* on a new, kept or renewed connection, carries a value of the secret named
\* by a rule for its host, and one at least as recent as what OpenBao held
\* when the last complete refresh began: a rotated credential is replaced and
\* a deleted one forgotten by one refresh, whatever changed while it read.
InjectsCurrentCredential ==
    [][\A x \in Links :
        LET l == link'[x]
        IN  l.count > link[x].count /\ l.used # NotInjected =>
                /\ l.host \in l.rule[1].hosts
                /\ l.used \in floor[l.rule[1].secret]..vault[l.rule[1].secret]]_vars

\* The pod ends up configured as its files and OpenBao say: the egress file is
\* allowed, the rules are in force, and the cache holds the current value of
\* every secret a rule names (main.rs, secrets.rs), however the changes and
\* the refresh interleaved.
Configured ==
    /\ file \subseteq allowlist
    /\ conf.identity =>
        /\ rules = rulesFile
        /\ \A i \in 1..Len(rules) :
            LET s == rules[i].secret
            IN  cache[s] = IF s \in gone THEN NotInjected ELSE vault[s]
ConfigurationConverges == <>[](squad.members = {} => Configured)

\* ensure_parent_pod: a Workshop of a campaign left Running is brought to what
\* its spec and the cluster say (Brought), in whatever order the members are
\* provisioned, suspended and resumed, and whichever best-effort call failed in
\* between: a pod created without a peer, a forge or LiteLLM does not go
\* unnoticed.
SquadConverges ==
    <>[](\A w \in squad.members : spec[w].desired = "Running" => Brought(w))
=============================================================================
