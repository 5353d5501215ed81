----------------------------- MODULE ParentPod -----------------------------
(***************************************************************************)
(* ensure_parent_pod (crates/controller/src/reconcile.rs) for the Workshops  *)
(* of a campaign, reconciled side by side: what each pod is created with,    *)
(* once and for all, what is published again at every pass, and what is only *)
(* reported. An `await` on another service is a step; one that may fail      *)
(* without stopping the pass is marked best effort in the code and leaves     *)
(* its part out here.                                                       *)
(***************************************************************************)
EXTENDS Integers, FiniteSets

CONSTANTS Members,     \* the Workshops of the namespace
          Squads       \* the installations checked

VARIABLES
    squad,       \* the installation, chosen once: see Squad
    spec,        \* Workshop.spec of each, as users last wrote it
    left,        \* changes users may still make
    mishaps,     \* calls that may still fail
    step,        \* where the pass over each Workshop is
    plan,        \* what the pass has gathered
    stored,      \* what OpenBao holds for each: role and secrets
    services,    \* Workshops with a Service for what they export
    policies,    \* Workshops with a campaign NetworkPolicy
    team,        \* the Workshop whose budget the campaign's LiteLLM Team has
    minted,      \* Virtual Keys LiteLLM made for each
    held,        \* the key OpenBao holds for each, by number
    maps,        \* the two ConfigMaps of each
    parent,      \* the parent pod of each
    created,     \* pods created for each
    badge        \* status.upgradeState = NeedsRestartForUpgrade

squadVars == <<squad, spec, left, mishaps, step, plan, stored, services, policies,
               team, minted, held, maps, parent, created, badge>>

Secrets_of_workshop == {"role", "session_auth", "ssh_key"}

\* The fields of WorkshopSpec that reach the pod, and the desired state.
WorkshopSpec == [egress : Nat, simulators : BOOLEAN, exported : BOOLEAN,
                 targets : SUBSET Members, campaign : BOOLEAN,
                 desired : {"Running", "Suspended"}]

\* What the controller was configured with, who takes part, and the bounds.
Squad == [members : SUBSET Members, openbao : BOOLEAN, litellm : BOOLEAN,
          git : BOOLEAN, changes : Nat, mishaps : Nat,
          specs : [Members -> WorkshopSpec]]

ASSUME SquadAssumption == \A s \in Squads : s \in Squad

NoParent == [spec |-> <<>>, hash |-> <<>>, labels |-> {}, stopping |-> FALSE]
NoMap == [rules |-> {}, egress |-> 0]

SquadInit ==
    /\ squad \in Squads /\ spec = squad.specs
    /\ left = squad.changes /\ mishaps = squad.mishaps
    /\ step = [w \in Members |-> "idle"] /\ plan = [w \in Members |-> <<>>]
    /\ stored = [w \in Members |-> {}]
    /\ services = {} /\ policies = {} /\ team = {}
    /\ minted = [w \in Members |-> 0] /\ held = [w \in Members |-> 0]
    /\ maps = [w \in Members |-> NoMap]
    /\ parent = [w \in Members |-> NoParent] /\ created = [w \in Members |-> 0]
    /\ badge = [w \in Members |-> FALSE]

Mishap == mishaps > 0 /\ mishaps' = mishaps - 1

\* Some of these calls fail, as one mishap.
Succeed(calls, done) ==
    \/ done = calls /\ UNCHANGED mishaps
    \/ done # calls /\ Mishap

Goto(w, from, to) == step[w] = from /\ step' = [step EXCEPT ![w] = to]
Gather(w, entries) == plan' = [plan EXCEPT ![w] = entries]

-----------------------------------------------------------------------------
(* The pod's template.                                                     *)

\* The rules the pass adds to those of the Workshop.
injection_rule(t) == (IF t.git THEN {"git"} ELSE {})
                        \cup (IF t.llm THEN {"llm"} ELSE {})

SupervisorContainer == [digest |-> "imageDigest"]

\* ATELIER_LLM_PROXY_ADDR: through identity-proxy when it can inject the key,
\* else straight to LiteLLM.
NetProxyContainer(t) ==
    [egress |-> t.view.egress, aliases |-> t.view.simulators,
     llm |-> IF t.llm THEN "identity-proxy" ELSE IF squad.litellm THEN "direct" ELSE "none",
     git |-> t.git, exported |-> t.view.exported, targets |-> t.targets,
     squadKey |-> t.view.campaign]

IdentityProxyContainer(t) == [rules |-> injection_rule(t)]

McpGatewayContainer == [tools |-> "spec.tools"]

simulator_container(t) == t.view.simulators

host_aliases(t) == injection_rule(t)

PodSpec(t) ==
    [supervisor |-> SupervisorContainer, netProxy |-> NetProxyContainer(t),
     identityProxy |-> IdentityProxyContainer(t), gateway |-> McpGatewayContainer,
     simulator |-> simulator_container(t), hosts |-> host_aliases(t)]

\* Labels are metadata: they are not in the hash.
CampaignLabels(view) == IF view.campaign THEN {"campaign-id", "owner-group"} ELSE {}

\* Mutation: the hash forgets what was resolved in the cluster.
pod_spec_template_hash_Declared(s) == [s EXCEPT !.netProxy.targets = {}]

\* The hash stands for the whole PodSpec it is computed from.
pod_spec_template_hash(s) == s

-----------------------------------------------------------------------------
(* The pass, in the order of the code.                                     *)

\* Whether the pod is there is read first; the Workshop is the watch's copy.
\* Accounts and Kubernetes roles are applied again at every pass.
Begin(w) ==
    /\ spec[w].desired = "Running"
    /\ Goto(w, "idle", "secrets")
    /\ Gather(w, [view |-> spec[w], will |-> parent[w] = NoParent])
    /\ UNCHANGED <<squad, spec, left, mishaps, stored, services, policies, team,
                   minted, held, maps, parent, created, badge>>

\* Role and secrets, best effort: a secret that exists is kept.
EnsureSecrets(w) ==
    /\ Goto(w, "secrets", "targets")
    /\ IF squad.openbao
       THEN \E done \in SUBSET Secrets_of_workshop :
                /\ Succeed(Secrets_of_workshop, done)
                /\ stored' = [stored EXCEPT ![w] = @ \cup done]
       ELSE UNCHANGED <<stored, mishaps>>
    /\ UNCHANGED <<squad, spec, left, plan, services, policies, team, minted, held,
                   maps, parent, created, badge>>

\* A target without a Service yet is left out.
resolve_allowed_internal_targets(w) ==
    /\ Goto(w, "targets", "aliases")
    /\ LET there == plan[w].view.targets \cap services
       IN  \E found \in SUBSET there :
              /\ Succeed(there, found)
              /\ Gather(w, [view |-> plan[w].view, will |-> plan[w].will,
                            targets |-> found])
    /\ UNCHANGED <<squad, spec, left, stored, services, policies, team, minted,
                   held, maps, parent, created, badge>>

\* The addresses of the forge and of LiteLLM: without one, neither rule nor
\* host alias.
ResolveAliases(w) ==
    LET wanted == (IF squad.git THEN {"git"} ELSE {})
                    \cup (IF squad.litellm /\ squad.openbao THEN {"llm"} ELSE {})
    IN  /\ Goto(w, "aliases", "key")
        /\ \E found \in SUBSET wanted :
              /\ Succeed(wanted, found)
              /\ Gather(w, [view |-> plan[w].view, will |-> plan[w].will,
                            targets |-> plan[w].targets,
                            git |-> "git" \in found, llm |-> "llm" \in found])
        /\ UNCHANGED <<squad, spec, left, stored, services, policies, team, minted,
                       held, maps, parent, created, badge>>

\* The first member to come makes the Team, with its own budget.
ensure_team(w) ==
    team' = IF plan[w].view.campaign /\ team = {} THEN {w} ELSE team

\* A key for a pod that is to be created; the Team, the key and its writing to
\* OpenBao are best effort, and a Team that fails does not stop the key.
EnsureVirtualKey(w) ==
    LET calls == {"key", "secret"} \cup (IF plan[w].view.campaign THEN {"team"} ELSE {})
    IN  /\ Goto(w, "key", "maps")
        /\ IF plan[w].will /\ squad.litellm /\ squad.openbao
           THEN \E done \in SUBSET calls :
                  /\ Succeed(calls, done) /\ ("secret" \in done => "key" \in done)
                  /\ IF "team" \in done THEN ensure_team(w) ELSE UNCHANGED team
                  /\ minted' = [minted EXCEPT ![w] = IF "key" \in done THEN @ + 1 ELSE @]
                  /\ held' = [held EXCEPT ![w] = IF "secret" \in done
                                                 THEN minted[w] + 1 ELSE @]
           ELSE UNCHANGED <<team, minted, held, mishaps>>
        /\ UNCHANGED <<squad, spec, left, plan, stored, services, policies, maps,
                       parent, created, badge>>

\* The rules and the egress list, read again by the proxies: best effort.
PublishMaps(w) ==
    /\ Goto(w, "maps", "create")
    /\ \E done \in SUBSET {"rules", "egress"} :
          /\ Succeed({"rules", "egress"}, done)
          /\ maps' = [maps EXCEPT
                ![w].rules = IF "rules" \in done THEN injection_rule(plan[w]) ELSE @,
                ![w].egress = IF "egress" \in done THEN plan[w].view.egress ELSE @]
    /\ UNCHANGED <<squad, spec, left, plan, stored, services, policies, team, minted,
                   held, parent, created, badge>>

\* A pod is created under a free name and never changed; whatever is there, one
\* that is stopping too, is taken as it is.
CreateParentPod(w) ==
    LET desired == pod_spec_template_hash(PodSpec(plan[w]))
        fresh == [spec |-> PodSpec(plan[w]), hash |-> desired,
                  labels |-> CampaignLabels(plan[w].view), stopping |-> FALSE]
        current == IF parent[w] = NoParent THEN fresh ELSE parent[w]
    IN  /\ Goto(w, "create", "expose")
        /\ parent' = [parent EXCEPT ![w] = current]
        /\ created' = [created EXCEPT ![w] = IF parent[w] = NoParent THEN @ + 1 ELSE @]
        /\ Gather(w, [view |-> plan[w].view, behind |-> current.hash # desired])
        /\ UNCHANGED <<squad, spec, left, mishaps, stored, services, policies, team,
                       minted, held, maps, badge>>

ensure_exported_service(w) ==
    services' = IF plan[w].view.exported THEN services \cup {w} ELSE services

campaign_network_policy(w) ==
    policies' = IF plan[w].view.campaign THEN policies \cup {w} ELSE policies

\* Services and policy, applied again at every pass.
Expose(w) ==
    /\ Goto(w, "expose", "report")
    /\ ensure_exported_service(w) /\ campaign_network_policy(w)
    /\ UNCHANGED <<squad, spec, left, mishaps, plan, stored, team, minted, held, maps,
                   parent, created, badge>>

\* A pod behind its template is reported; the patch of the status never says
\* that one is not.
Report(w) ==
    /\ Goto(w, "report", "idle") /\ Gather(w, <<>>)
    /\ badge' = [badge EXCEPT ![w] = @ \/ plan[w].behind]
    /\ UNCHANGED <<squad, spec, left, mishaps, stored, services, policies, team,
                   minted, held, maps, parent, created>>

\* A call the pass cannot do without fails: the cache volume, the pod, a
\* Service, the policy, the status.
Abandon(w) ==
    /\ step[w] \in {"targets", "create", "expose", "report"} /\ Mishap
    /\ step' = [step EXCEPT ![w] = "idle"] /\ Gather(w, <<>>)
    /\ UNCHANGED <<squad, spec, left, stored, services, policies, team, minted, held,
                   maps, parent, created, badge>>

-----------------------------------------------------------------------------
(* Around the pass.                                                        *)

\* ensure_suspended, once the snapshot is settled: the pod is deleted.
SuspendParent(w) ==
    /\ step[w] = "idle" /\ spec[w].desired = "Suspended"
    /\ parent[w] # NoParent /\ ~parent[w].stopping
    /\ parent' = [parent EXCEPT ![w].stopping = TRUE]
    /\ UNCHANGED <<squad, spec, left, mishaps, step, plan, stored, services, policies,
                   team, minted, held, maps, created, badge>>

ParentGone(w) ==
    /\ parent[w].stopping
    /\ parent' = [parent EXCEPT ![w] = NoParent]
    /\ UNCHANGED <<squad, spec, left, mishaps, step, plan, stored, services, policies,
                   team, minted, held, maps, created, badge>>

\* Suspend or resume, an edited egress list, request_simulator.
EditWorkshop(w) ==
    /\ left > 0 /\ left' = left - 1
    /\ \/ spec' = [spec EXCEPT ![w].desired = IF @ = "Running" THEN "Suspended" ELSE "Running"]
       \/ spec' = [spec EXCEPT ![w].egress = @ + 1]
       \/ ~spec[w].simulators /\ spec' = [spec EXCEPT ![w].simulators = TRUE]
    /\ UNCHANGED <<squad, mishaps, step, plan, stored, services, policies, team, minted,
                   held, maps, parent, created, badge>>

Pass(w) ==
    \/ Begin(w) \/ EnsureSecrets(w) \/ resolve_allowed_internal_targets(w)
    \/ ResolveAliases(w) \/ EnsureVirtualKey(w) \/ PublishMaps(w)
    \/ CreateParentPod(w) \/ Expose(w) \/ Report(w) \/ SuspendParent(w)

SquadNext ==
    \E w \in squad.members :
        Pass(w) \/ Abandon(w) \/ ParentGone(w) \/ EditWorkshop(w)

\* What a Workshop that stays Running is brought to: OpenBao has its role and
\* secrets, the ConfigMaps say what spec and cluster say now, its peers find
\* its Services, its pod is as it would be created now or says it is not, and,
\* had nothing failed, LiteLLM made no more keys for it than it had pods.
Brought(w) ==
    LET ideal == [view |-> spec[w], targets |-> spec[w].targets \cap services,
                  git |-> squad.git, llm |-> squad.litellm /\ squad.openbao]
    IN  /\ squad.openbao => stored[w] = Secrets_of_workshop
        /\ maps[w] = [rules |-> injection_rule(ideal), egress |-> spec[w].egress]
        /\ spec[w].exported => w \in services
        /\ spec[w].campaign => w \in policies
        /\ mishaps = squad.mishaps => minted[w] <= created[w]
        /\ parent[w] # NoParent
        /\ parent[w].spec = PodSpec(ideal) \/ badge[w]
=============================================================================
