# Atelier: a TLA+ model

Atelier runs development environments ("Workshops") in Firecracker microVMs on
Kubernetes. This directory holds a model of the parts of it where the order of
steps matters, the TLC configurations that check the model on small instances,
and TLAPS proofs of what must hold for every instance.

    tlc -workers 2 -config VmSupervisor.cfg MC_VmSupervisor    # a run
    tlapm VmSupervisor_proof.tla                               # the proofs of a module

`PROJECT.json` lists the runs, the theorems, the source lines behind each
definition, the hazards of the code and what covers them.

## The system

| Part | Source | What it does | State that outlives a step |
| --- | --- | --- | --- |
| controller | `crates/controller` | reconciles each `Workshop`: build Job, parent pod, suspension, finalizer; periodic eviction of the image cache | the `Workshop` object and its status, pods, Jobs, OpenBao roles, LiteLLM keys |
| vm-supervisor | `crates/vm-supervisor`, `crates/firecracker` | one per parent pod: TAP and iptables, boot or restore, snapshot, lockdown | the snapshot files on the shared volume, the objects on S3 |
| net-proxy | `crates/net-proxy` | the guest's only gateway: allowlist, DNS, anomaly detector, port forwarding | allowlist, sliding window of refusals |
| identity-proxy, mcp-gateway | `crates/identity-proxy`, `crates/mcp-gateway` | add credentials to the guest's requests, relay MCP | cached secrets |
| image-builder, builder-vm-init | `crates/image-builder`, `crates/builder-vm-init` | build a devcontainer in a microVM, publish it by digest | the image cache |
| guest-init, kvm-device-plugin | `crates/guest-init`, `crates/kvm-device-plugin` | first process of a guest; `/dev/kvm` as a resource | none |
| api-server | `crates/api-server` | REST and MCP: Workshops, exec and runs, approvals, budgets, session archives | PostgreSQL |
| pm-engine | `services/pm-engine` | turns tickets into changes: Redis stream, LangGraph workflow, human review | PostgreSQL checkpoints, stream entries |
| cli, dashboard | `crates/cli`, `dashboard` | clients of the api-server | tokens |

They meet in four places: the `Workshop` status, patched by the controller and
by image-builder; the shared cache volume, written by vm-supervisor,
image-builder, the eviction Job and the snapshot-cleanup Job; the control port
of vm-supervisor, called by the controller (`POST /snapshot`) and by net-proxy
(`POST /lockdown`); and the parent pod, created and deleted by the controller
and by Kubernetes.

## Modules

| Module | Models | Instance | Theorems |
| --- | --- | --- | --- |
| `VmSupervisor` | the life of one Workshop's microVM and of its snapshots | `MC_VmSupervisor` | `VmSupervisor_proof` |
| `Suspension` | what a suspension promises, abstractly | through `VmSupervisor_refines` | `Suspension_proof`, `VmSupervisor_suspension` |
| `Workshop` | the reconciliation of one Workshop | `MC_Workshop` | `Workshop_proof` |
| `Pod` = `NetProxy` + `IdentityProxy` + `ParentPod` | the proxies of a parent pod, mcp-gateway's tools, and the creation of the pods of a campaign | `MC_Pod` | `Pod_proof` |
| `Sessions` = `GuestServices` + `Exec` + `Tunnel` + `Approvals` | what the api-server does in a running Workshop, and approvals | `MC_Sessions` | `Sessions_proof` |
| `ImageBuild` = `Rootfs` + `ImageCache` | from a repository to an image a pod boots | `MC_ImageBuild` | `ImageBuild_proof` |
| `PmEngine` | one ticket through the LangGraph workflow | `MC_PmEngine` | `PmEngine_proof` |

Modules meet where the code does. `Workshop` summarises `VmSupervisor` by what it
may leave on the cache; `ParentPod` opens up the one step `Workshop` has for
`ensure_parent_pod`, and `ImageBuild` the one for `ensure_image_build_job`.

Operators whose name carries a suffix (`Start_AlwaysFetch`,
`Branch_BuildFirst`, ...) and whose comment says "Mutation" are not part of the
model. Each is a plausible slip in the code. Put in place of the definition it
is named after, it makes TLC report the property that `PROJECT.json` lists
next to it.

### VmSupervisor

A file of the snapshot directory, or an object on S3, is a `Copy`: the instant
of the guest it describes (`of`) and whether it was written to its end
(`whole`). The three files of a snapshot are only worth something together,
which is what the properties are about; their bytes are not.

| State | Code |
| --- | --- |
| `local`, `tmp` | `snapshot.state`, `snapshot.mem`, `snapshot.rootfs` and their `.tmp` |
| `zst`, `raw` | the S3 objects, compressed and in the form of earlier versions |
| `pod`, `tap`, `frozen` | the parent pod; the TAP and iptables chains of its network namespace |
| `pc`, `step`, `writing` | where `main` and `snapshot_and_publish` are |
| `vm`, `guest` | the microVM, and the files it was restored from |
| `queue`, `serving`, `lockedDown` | the channel of the control server, the flag of `GET /lockdown` |
| `clock`, `durable` | history: instants captured; the acknowledged one still in place |

Each `await` at which the process can die or another task can run is an action
boundary. A copy or a download is two actions, so that it can be cut in half; a
rename and a completed multipart upload are one. `Fail` and the second
disjuncts of the actions are the `?` of the code: they leave behind whatever
was done. `KillPod` and `Crash` are enabled everywhere. `Crash` keeps the
network namespace, so a restarted container finds the TAP of the previous one
and `Start` is not enabled, as `ip tuntap add` would fail. `Start` itself may
also die half-way.

`LoseCache` replaces the volume by an empty one between two pods. It is the
case the S3 fall-back exists for: the eviction of the controller does not touch
snapshots.

### Suspension

Five variables: whether there is an S3 fall-back, the instants taken, the
suspension a start would be restored from, the one last acknowledged, the one
the running microVM came from. A suspension is replaced in one step, and what is
acknowledged stays until then. `VmSupervisor_refines` maps the three files to it
(`Snapshot`: nothing if incomplete, the instant if they are of one, a mixture
otherwise), so that the nine steps of a publication must look like one.

### Workshop

One reconciliation is a sequence of actions, one per call to the outside:
`Begin` takes a copy of the Workshop from the watch cache, `Branch` chooses, and
`PatchStatus` ends. The cache lags (`Observe`), so the copy may be outdated when
it is taken and more so when it is used. `Merged` is the serialisation of the
status followed by a JSON merge patch: an absent optional field is not sent,
`podName` always is, the conditions are merged by key.

| State | Code |
| --- | --- |
| `object`, `cache`, `seen` | the `Workshop` in the API server, in the watch cache, in the reconciliation |
| `pod`, `current` | `<name>-parent`, and the copy of it the reconciliation read |
| `job`, `role`, `purge` | the build Job, the OpenBao role, the snapshot-cleanup Job |
| `disk`, `outcome` | the snapshot on the cache (abstracted from `VmSupervisor`), what `request_snapshot` returned |
| `template` | the version of the pod template: changes with `Upgrade` |
| `reply` | the status about to be patched |

`Published` summarises what `VmSupervisor` may leave on the cache: a new
snapshot, the old one, or none if it died between the two. `role` says that the
OpenBao role may exist. Its creation is best effort in the code; the model takes
the worst case.

`image` in the status stands for the three fields image-builder writes in one
patch. What `ensure_parent_pod` and `ensure_image_build_job` do inside is the
subject of `ParentPod` and `ImageBuild`. A probe of a reachable guest answers
what the guest would; one that times out on a guest that is up, which delays
the announcement by a reconciliation, is not modelled.

### Pod

`NetProxy` is the guest's gateway. An exchange (HTTP, CONNECT, transparent TLS or
DNS) is routed to a squad peer, an internal alias, the simulator or outside,
refused, or passed to identity-proxy. The relay to an alias reconnects when a
kept connection has been closed by the other side.

| State | Code |
| --- | --- |
| `file`, `readable`, `previousFile`, `allowlist` | the mounted egress file, what the reload read last, the shared list with the hot additions of `request_egress` |
| `ex` | the exchanges: route, token, connection, requests |
| `denials`, `triggered`, `lockdown` | the window of the anomaly detector and its request; `allDenials` is history |
| `rulesFile`, `rules`, `vault`, `gone` | injection rules on disk and in force; OpenBao's values, numbered |
| `loop`, `next`, `values`, `cache` | `refresh_once`: where it is, what it has read, what is injected; `before`, `floor` are history |
| `link` | the connections identity-proxy serves |

`Pod` composes them: an allowed plain HTTP connection is held by both, accepted
and closed in one step. The detector is taken to be configured (it is optional).

`ParentPod` is the whole of `ensure_parent_pod` for the members of a campaign,
reconciled side by side: OpenBao role and secrets, LiteLLM team and key, git
identity, exported services, network policies, ConfigMaps, the pod, the upgrade
badge. A best-effort call that fails leaves its part out and the pass goes on.
Campaigns and traffic are checked apart: all the proxies see of the controller is
that their files change, and the environment edits those at any time.

### Sessions

`GuestServices` is a service of the guest and the way its credential reaches it:
OpenBao, net-proxy's cached copy, the start script, guest-init's relaunch.
`Exec` is a command over SSH, in the background with an event stream or in one
request. `Tunnel` is the api-server between a browser and the editor, the
terminal or a forwarded port, with the shared cookie and the recording.
`Approvals` is one request, its time to live and those who decide it. A
behaviour is about one kind of session: the kinds share no state in the code
except through the guest's services, of which each has its own.

| State | Code |
| --- | --- |
| `vault`, `cached`, `svc` | the secret, net-proxy's copy, the service and the secret it runs with |
| `task`, `age`, `cmd`, `wire`, `end` | the task serving the command, the clock against its two delays, the guest's side, the SSH channel, the known ending |
| `row`, `sse` | the row of `exec_commands`, the stream of a client |
| `cookie`, `req`, `archive`, `blocked` | `code_server_cookies`, the requests, the recordings and their S3 uploads |
| `ticket`, `late`, `hand`, `choice`, `rivals` | the row of `hitl_requests`, its expiry, the transactions; `rivals` is history |

A decision is a transaction that reads the row and then writes it by identifier,
without a lock: two people who both read "pending" may both be told their
decision was recorded. `ToldIsKept` is therefore stated for a decision that had
no such rival when it was committed. In the recording of a terminal the side
`vscode.rs` calls "server" is the api-server's connection to the browser; the
model names it `CopyFromBrowser`.

### ImageBuild

`Rootfs` has one operator per function of image-builder that changes the exported
tree, composed by `Assemble` in the order of `run`; a tree keeps what the
functions test or a later reader needs. `ImageCache` has the volume, the bucket
and the eviction Job. `ImageBuild` has the controller's part, the Job with its
retries, the builder microVM and the pod that boots.

| State | Code |
| --- | --- |
| `file`, `object`, `order` | each digest on the volume and in the bucket (absent, partial, whole), oldest first |
| `eviction`, `evicting` | the list the running eviction Job has left |
| `control`, `copy`, `key`, `grants`, `job`, `condition` | `ensure_image_build_job`: its step and copy of the Workshop, the LiteLLM key, the Job and its rights, the reported condition |
| `builder`, `registry`, `image`, `made` | the running attempt, the tag in the registry, the content of a digest and how many builds packaged it |
| `status`, `pod` | what image-builder reported, the pod of the Workshop |

Two builds of the same sources give two digests, because `mke2fs` draws a UUID;
the scenarios called reproducible allow them to coincide. Digests are numbered in
the order they are drawn, at most `MaxImages` of them. `Baked` is all the
programs the Dockerfile of the Job installs.

### PmEngine

The graph of `graph.py` with its nodes and routing functions, and the two ways
`runner.py` enters it. Nothing in the code keeps two invocations of a thread
apart: `launch_workflow` creates a task and `decide_review` resumes the graph in
its request, whatever else is running. So an invocation is a record of its own
(`inv`): it takes the last checkpoint once (`saved`), goes on in memory, and
writes a checkpoint after each superstep; the last one written is what the next
launch or answer finds. An answer runs the pending nodes of that checkpoint, and
only `AwaitHitlApproval` reads it. A node whose calls change something outside
one at a time (provisioning, delegation, opening, suspending, merging,
validating) runs in several steps, so that the process can die, or another
invocation move, between any two of them. Answers of the models are free
choices. LangGraph, the forge and the Workshops are external.

| State | Code |
| --- | --- |
| `saved` | the last checkpoint: `PMWorkflowState` and the nodes to run |
| `inv` | the invocations: their state and nodes, the answer they carry, the call the node is at, the recursion count |
| `row` | the row of `pm_reviews` |
| `ws`, `credentials`, `forge` | Workshops, git credentials, the Pull Requests with their head branch |
| `ticket` | what the models may answer, the budgets, and the bounds of the model |

Two fields are history: `approved` of a Pull Request (the pause for that one was
answered by an approval) and `pushed` of an invocation (the sub-tasks this
delegation has pushed). Which Pull Request the human looked at is not tracked: the
dashboard shows the address in the row, and the answer goes to the one in the
checkpoint.

## Runs

| Run | Result | What it shows |
| --- | --- | --- |
| `supervisor` | passes, 620 711 states | snapshots stay whole and of one suspension, on the cache and on S3; an acknowledged one is restored; a frozen egress stays frozen; no microVM stays paused; the whole implements `Suspension` |
| `workshop` | passes, 476 245 states | outdated reconciliations neither erase the image nor stop a newer pod; the OpenBao role goes with the Workshop; suspension, resumption and deletion converge |
| `pod` | passes, 175 465 states | reloads keep hot additions; every burst of refusals triggers, nothing less does; credentials are those of the last refresh; files, rules and campaigns converge |
| `sessions` | passes, 335 539 states | a stream that ends has sent everything; a decision returned stays; commands settle; the editor comes back |
| `image_build` | passes, 225 870 states | a reported image is whole somewhere; what the status announces the image serves; builds end with an image or a reason |
| `pm_engine` | passes, 672 831 states | merges are approved, also when launches and answers overlap; agents can push; contracts come first; objections are dropped only when the budget is spent; the recursion limit is never met |
| `supervisor_interrupted_fetch` | violated | an interrupted S3 fall-back leaves a truncated file that the next start restores |
| `supervisor_lockdown` | violated | the microVM runs on after a lockdown |
| `workshop_digest` | violated | a suspension without snapshot keeps the previous digest |
| `workshop_resume_while_stopping` | violated | `Running` is announced from a pod being deleted |
| `pm_rejected` | violated | a rejection sent after an approval whose merge failed merges the Pull Request |
| `image_evicted` | violated | a Workshop whose image was evicted to S3 never boots again |

The six violated runs each check one sentence of the sources or of the
documents, quoted in `PROJECT.json`, against what the code does.

**Bounds.** `supervisor`: three deployments (no S3, S3, S3 after the change of
object format), two requests and two pods. Two requests give a suspension that
replaces another one, or a lockdown followed by a suspension; two pods give a
crash in the first and a restart from what it left. `workshop`: two changes of
the desired state (one suspend and resume cycle) and one incident, which may be
a failed call or a killed controller at any step, a drained or evicted pod, a
lockdown, or an upgrade. `pod`: four pods with room for one thing each (squad
tokens, refusals, the egress file, identity-proxy), with a threshold of two in a
window of one tick, two rules that overlap, two connections; and four
installations of one or two Workshops, with one call that fails or up to two
changes of the specs. `sessions`: one session of each kind, with up to two
faults, one rotation of the secret, and two requests where two can race;
commands write up to two bytes where `run` keeps one, so that truncation
happens; three people decide. `image_build`: fifteen scenarios, thirteen with one
Workshop and two faults, each differing in what the assembly tests, two with two
Workshops over a volume that holds one image. `pm_engine`: five
tickets. One has the real budgets (three of each, limit 150), and every loop of
it is exhausted. One is launched twice, at once or one after the other, with a
fault anywhere and a plan of two sub-tasks proposed in the right and in the wrong
order. Three are answered at any moment, whether or not a pause waits: twice
with one fault, which gives the second answer after a merge that failed; once
between two launches that may plan for different branches, so that two Pull
Requests are open; and twice between two launches with one fault, one invocation
at a time (`atOnce`), which gives the relaunch of a ticket that was decided.
The two invocations are interchangeable (`Symmetry`).

`CHECK_DEADLOCK FALSE` everywhere but in `ImageBuild.cfg` and `ImageBuild_evicted.cfg`: a Workshop that is deleted, a
session that is over, a ticket that is done, or a bound that is reached, is the
end of the behaviour.

**Fairness.** All of it is weak fairness of what the code or the cluster does by
itself; none of users, guests, clients, upgrades or faults, whose bounds make the
failures finite.

| Module | Weak fairness of | Because |
| --- | --- | --- |
| `VmSupervisor` | the supervisor's own steps | tasks of a live async runtime, with timeouts of their own |
| `Workshop` | the reconciliation, the watch, pods starting and stopping, guests booting, garbage collection, builds ending | every outcome of `reconcile` requeues; the cluster works |
| `Pod` | the two reload loops, the mounts being restored, each Workshop's pass, deleted pods going away | loops over a sleep that nothing stops; kubelet; requeue |
| `Sessions` | the provisioning of the secret, the guest's service, net-proxy's refresh, the api-server's steps, each request of a browser | guest-init's and net-proxy's loops; an open editor page keeps asking |
| `ImageBuild` | for each Workshop: the controller, its watch, the attempt with its microVM, the pod | requeue, deadline of the builder microVM, kubelet |
| `PmEngine` | nothing | only safety is stated |

**Scope of some properties.** `AnnouncedAfterAnswer` and `AcknowledgedDigest`
are stated for runs without incident and without an outdated copy (`Clean`).
With one they do not hold: a status update that fails after a suspension leaves
`Running`, which makes the next pod skip its probe, and a pod that disappears
between the snapshot and its deletion loses the digest. `ResumeConverges` sets
aside a failed build and an evicted pod, which nothing re-creates.
`LocalCoherent` is about deployments without S3, since the fall-back breaks it
(`supervisor_interrupted_fetch`). `FetchCoherent` leaves out objects of the
old form, where a failed request for a compressed object may read an older one.
`CommandSettles` starts, for a command in the background, once its SSH session
is open, and sets aside an api-server that stops and a last write that
PostgreSQL refuses: nothing takes such a row up again. `EditorRecovers` is about
a service that from some time on runs, whenever it runs, with the password
OpenBao holds; a rotation alone does not restart it. `ReportedIsKept` is about a digest
packaged by one build: `publish_to_cache` takes any file under the digest for
the image, so a second build of the same digest may report what a killed one
left. `SquadConverges` says what a member left `Running` is brought to, the
upgrade badge included: a pod is never re-created for a peer that came later,
and the badge is how that shows. `ContractPublishedFirst` is about another
sub-task: `_plan_is_credible` retains a plan of one sub-task without looking at
what it names. `AnnouncedIsServed` leaves out a base image without systemd whose
`/sbin` is an absolute link: `ensure_init_system` joins the path to the
directory of the tree, so guest-init lands in the file system of the Job;
`check_boot_prerequisites` asks for `/sbin/init` only next to systemd, and the
image is published without an init. `MergeNeedsApproval` is about the pause of
the Pull Request that is merged; an answer that comes later does not take its
approval back (`pm_rejected`).

**Beside the violated runs.** Three more places where the model and a comment
differ have no run. `upgradeState`, like the digest of `workshop_digest`, is not
serialised when absent and is never cleared. The header of `runner.py` calls
`pm_reviews` the threads "actuellement en pause"; a ticket launched again after a
decision pauses without being listed, since the upsert keeps the status of the
row. `launch_workflow` says that a new call on the same thread "reprend ou on en
etait"; the graph starts at its first node again, on the fields of the checkpoint.

## Proofs

For any value of the constants, and any number of pods, requests, faults or
steps where the runs have bounds:

| Module | Theorem | States |
| --- | --- | --- |
| `VmSupervisor_proof` | `TypeCorrect`, `Inductive` | `[]TypeOK`, `[]Inv` |
| | `LocalIsCoherent`, `S3IsCoherent`, `AcknowledgedStays` | `[]LocalCoherent`, `[]S3Coherent`, `[]AcknowledgedIsDurable` |
| | `ResumeIsAcknowledged`, `FetchIsCoherent`, `FrozenStays` | `ResumesAcknowledged`, `FetchCoherent`, `FrozenUntilTeardown` |
| `VmSupervisor_suspension` | `Implements` | `ImplementsSuspension` |
| `Suspension_proof` | `PromiseKept` | of `Suspension`: what was acknowledged is what is restored |
| `Workshop_proof` | `ImageIsKept`, `RoleDoesNotSurvive`, `StopsForSuspension` | `ImageKept`, `[]RoleGoneWithWorkshop`, `StopsOnlySuspended` |
| | `RunningAfterAnswer`, `DigestIsAcknowledged` | `AnnouncedAfterAnswer`, `[]AcknowledgedDigest` |
| `Pod_proof` | `ReloadKeepsAdditions`, `CredentialIsCurrent` | `ListFollowsFile`, `InjectsCurrentCredential` |
| | `DetectorMissesNoBurst` | `[]BurstTriggers` |
| `Sessions_proof` | `StreamIsComplete`, `DecisionIsKept` | `[]StreamComplete`, `[]ToldIsKept` |
| `ImageBuild_proof` | `ImagesAreKept`, `AnnouncementsAreServed` | `[]ReportedIsKept`, `[]AnnouncedIsServed` |
| `PmEngine_proof` | `MergeIsApproved`, `AgentsHaveCredentials` | `[]MergeNeedsApproval`, `[]AgentsCanPush` |
| | `ContractsArePublishedFirst` | `[]ContractPublishedFirst` |
| | `ObjectionsExhaustBudget`, `BudgetsFitTheLimit` | `[]ObjectionMeansBudgetSpent`, `[]NeverOutOfSteps` |

Assumptions: `ConstantsAssumption`, `CacheAssumption` and `NetProxyAssumption`
(types of the constants; the threshold of the detector is not zero),
`BuildAssumption` (types of the scenarios), `RulesAssumption` (a rule names a
secret), `TicketsAssumption` (a proposed plan is a sequence that is not empty:
`nodes.py` falls back to a single task otherwise) and `LimitAssumption` (the
longest invocation the budgets of a ticket allow fits in the recursion limit: 48
of 150 with the budgets of `initial_state`). `Workshop_proof` and
`Sessions_proof` need none.

None of the properties is inductive as it stands.

**VmSupervisor.** A publication is nine steps long, and each step is correct only
because of the ones before it. `Inv` says what holds at each control point: the
temporary files already copied are of the current instant (`TmpInv`); while
renaming, no state is published, renamed files are of the current instant and
the others still wait in their temporary file (`PublishInv`); the same on S3
(`OffloadInv`, `ObjectsInv`); the fall-back runs only when nothing acknowledged
is in place (`FallbackInv`) and what it has fetched so far is what S3 holds
(`FetchInv`). `LocalCoherent` and `AcknowledgedIsDurable` are conjuncts of it;
`S3Coherent` follows from `ObjectsInv` and the way a download chooses between
the two forms. A step preserves `Inv` by two lemmas: `CacheStep` for the cache
and the process, which hold whatever S3 does, and `S3Step` for the objects.

**Suspension.** `Implements` maps each step to a step of `Suspension` or to a
stutter. It needs `Inv`, the order of the instants (`OrderInv`: what is about to
be published is newer than what was acknowledged) and that nothing is restored
while no microVM runs (`GuestInv`). The last rename is the step that replaces the
suspension; the removal of the old state is the one that withdraws it.

**Workshop.** `TypeInv` types the three copies of the Workshop, the pods and the
reply. `RoleInv` ties the role to the finalizer: no copy that would have the role
written is in use once the cleanup has begun. `StopInv` orders the copies by
generation (`Older`) and says that the pod was made for a generation not later
than any copy in use, one that asked for a pod (`MadeFor`); with the uid the
reconciliation read, a stop is for a newer suspension of that very pod.

The other two properties are about behaviours in which nothing interfered, and
most of their invariants say `Clean =>`. `IdentityInv`: a pod has a uid, a probe
is about a pod, and the purge is for a Workshop that is being deleted. `SyncInv`: the copy in use has the phase and the snapshot of the
Workshop, since nobody else writes them. `AnswerInv`: a Workshop said to be
Running has no pod, or one whose guest answered, or its phase is about to be
replaced. `ParkInv`: one said to be Suspended has no pod, and a pod asked for its
snapshot is still there. With both, `DigestInv` follows the digest from the
answer of the supervisor through the release of the pod to the patch.

**Pod.** `ListInv`: what was read last is allowed. `CacheInv`: what the cache holds,
and what the refresh in progress has read, lies between what OpenBao held when
that refresh began and what it holds now. `LinkInv`: a connection has no rule, or
one for its host; the first matching rule exists by well-ordering (`Least`).
`DetectorInv`: the queue is the end of the history, refusals are in the order of
time, and what was popped is out of the window, for good. The refusals within
the window of the latest are then exactly those in the queue (`WindowCounted`),
so the length the code compares is the size of the burst.

**Sessions.** `RowInv` and `StreamInv`: the row has its final status only when its
task has ended, so what was sent before the last event is all there will be.
`KeptInv`: once a decision without a rival is committed, nobody holds the row.

**ImageBuild.** Steps are first classed by what they do to the caches, the digests
and the attempts (`Turned`, `Assembled`, `Advanced`, `Reported`, `Evicted`).
`ImageInv`: a digest nobody packaged is nowhere; one that a single build packaged
is in the hands of that attempt, partial only while the attempt copies, and whole
from then on, in the bucket too before a file goes. `ServedInv`: from its assembly
on an attempt has a tree that serves the ports of its Job, and a reported digest
keeps its content. That the assembly gives such a tree is a chain of lemmas, one
for each function of `Rootfs` (`AssembledServes`).

**PmEngine.** A position is a state with the nodes to run on it; the checkpoint is
one, and every running invocation is at one. `Sound` is what holds of a position
wherever it is kept: a superstep runs one node or the two conditional reviews;
behind the creation the state names a Pull Request of the forge, and the merge is
only reached when that one is approved (`Reviewable`); behind the planner the plan
is in order, behind the provisioning its Workshops have their credentials
(`Provided`); behind a gate the verdicts and counters are those it let through
(`Gated`); a loop is entered with an attempt left (`Budgeted`). `Travel` is what a
node may do to the state on its way along an edge, and `TravelSound` that it leads
from a sound position to a sound one. What an invocation knows besides, in the
middle of a node, is `Within`: the credentials deposited and the sub-tasks pushed
before the one it is at, the Pull Request just created, and that the supersteps
used plus the `Rank` of the next node (the longest way to the end, given the
attempts left) stay within the limit; every edge lowers the rank, and an answer
starts the count again. `Inv` has all of this of the checkpoint and of every invocation. Interleaving is then harmless:
credentials and Pull Requests are never deleted and approvals never taken back,
so a position stays sound while others move (`SoundStays`, `HealthyStays`), and an
invocation that overwrites the checkpoint overwrites it with a sound position.

Only model-checked: the liveness properties, which with their fairness are out of
the prover's reach. Every invariant, every action property and the refinement of
the passing runs have a theorem.

## Not modelled

- kvm-device-plugin registers once and answers `Allocate` with a constant.
- The LLM budget routes and the MCP server of the api-server read another
  service and render its answer, or offer the operations modelled here under
  another protocol.
- The CLI and the dashboard are clients, one request at a time.
- Token validation, signatures and TLS are done by libraries; a squad token is
  only the instant it was made at.
- Health endpoints, metrics, telemetry and the start of each process hold no
  state that anything reads.
- The Redis consumer of pm-engine is not started by any code of the service.
- The mounts and network set-up of guest-init and builder-vm-init are sequential
  and nothing reads their state concurrently; only their outcome appears.
- The unit conversions of the controller, the texts of units, scripts and prompts,
  and the budgets LiteLLM keeps are data.
- The re-creation of a Workshop under the name of a deleted one, and several
  forwarded ports on one socket, are left out; `PROJECT.json` names the hazards
  that no property covers and why.
