------------------------------ MODULE Workshop ------------------------------
(***************************************************************************)
(* The reconciliation of one Workshop by the controller: finalizer, image  *)
(* build, parent pod, suspension, deletion.                                *)
(*                                                                         *)
(* A reconciliation works on the copy of the Workshop it was started with, *)
(* taken from a watch cache that lags behind the API server, and ends with *)
(* a merge patch of the status.  Meanwhile the user patches the spec, the  *)
(* image builder patches the status, and pods start, stop and get drained. *)
(***************************************************************************)
EXTENDS Integers, FiniteSets

CONSTANTS
    MaxGenerations,  \* bound: changes of spec.desiredState
    MaxIncidents     \* bound: failed calls, drained, evicted or confined
                     \* pods, upgrades of the controller

ASSUME BoundsAssumption ==
    MaxGenerations \in Nat /\ MaxIncidents \in Nat

\* The phase is one of WorkshopPhase, of which nothing ever sets Terminating;
\* the conditions are a subset of ImageBuildFailed and SecurityLockdown.
\* An absent optional field is "none", an absent snapshot digest 0.  `image`
\* stands for the three fields image-builder writes: digest, ports, session.
NewStatus == [phase |-> "Pending", podName |-> "none", image |-> "none",
              snapshot |-> 0, upgrade |-> "none", conds |-> {}]

\* The Workshop object, in the API server, in the cache, or as reconciled.
\* `life` goes from live to deleting (deletionTimestamp is set) to gone.
NewObject == [desired |-> "Running", generation |-> 0, finalizer |-> FALSE,
              life |-> "live", status |-> NewStatus]

\* The parent pod: `for` is the generation it was created from, `guest` tells
\* whether its guest answers and ever did, `locked` is its supervisor's flag.
\* Its phase is none (no such pod), Pending, Running or Failed; its guest is
\* booting, up or restarting.
NoPod == [uid |-> 0, for |-> 0, hash |-> 0, phase |-> "none",
          guest |-> "booting", locked |-> FALSE, stopping |-> FALSE]

VARIABLES
    object,     \* the Workshop, as the API server has it
    pod, job,   \* `<name>-parent` and `<name>-image-build`
    role,       \* the OpenBao role and policy of the Workshop may exist
    disk,       \* digest of the snapshot published on the shared cache
    purge,      \* the snapshot-cleanup Job is still to run
    \* @controller
    cache,      \* its watch cache
    template,   \* version of the pod template it builds
    pc,         \* the call the reconciliation is at
    seen,       \* the Workshop it was started with
    current,    \* the pod it read
    reply,      \* the status it is about to patch
    \* @history
    pods,       \* pods created so far
    taken,      \* snapshots published so far
    asked,      \* uid of the last pod asked for a snapshot
    outcome,    \* what the last request_snapshot returned
    stale,      \* a reconciliation started from an outdated copy
    incidents   \* incidents so far

cluster == <<object, pod, job, role, disk, purge>>
work == <<pc, seen, current, reply>>
history == <<pods, taken, asked, outcome, stale, incidents>>
vars == <<cluster, cache, template, work, history>>

Init ==
    /\ object = NewObject
    /\ pod = NoPod /\ job = "none" /\ role = FALSE /\ disk = 0
    /\ purge = FALSE
    /\ cache = object /\ template = 1
    /\ pc = "idle" /\ seen = NewObject /\ current = NoPod /\ reply = NewStatus
    /\ pods = 0 /\ taken = 0 /\ asked = 0 /\ outcome = 0
    /\ stale = FALSE /\ incidents = 0

-----------------------------------------------------------------------------
(* The status: what a patch carries and what it leaves.                    *)

carry_forward_status(view, phase) ==
    [view.status EXCEPT !.phase = phase, !.conds = {}]

\* Mutation: an absent field is sent as null.
Merged_Nulls(old, new) == [new EXCEPT !.conds = old.conds \cup @]

\* update_status: a JSON merge patch.  Absent digests and upgrade state are
\* not serialised, podName always is, conditions are merged key by key.
Merged(old, new) ==
    [new EXCEPT
        !.image    = IF @ = "none" THEN old.image ELSE @,
        !.snapshot = IF @ = 0 THEN old.snapshot ELSE @,
        !.upgrade  = IF @ = "none" THEN old.upgrade ELSE @,
        !.conds    = old.conds \cup @]

-----------------------------------------------------------------------------
(* The user, through the API server.                                       *)

SetDesired ==
    /\ object.life # "gone" /\ object.generation < MaxGenerations
    /\ object' = [object EXCEPT
                    !.desired = IF @ = "Running" THEN "Suspended" ELSE "Running",
                    !.generation = @ + 1]
    /\ UNCHANGED <<pod, job, role, disk, purge, cache, template, work, history>>

\* Held back by the finalizer, if it is there.
Delete ==
    /\ object.life = "live"
    /\ object' = [object EXCEPT
                    !.life = IF object.finalizer THEN "deleting" ELSE "gone"]
    /\ UNCHANGED <<pod, job, role, disk, purge, cache, template, work, history>>

-----------------------------------------------------------------------------
(* Kubernetes and what runs in it.                                         *)

\* A watch event reaches the controller.
Observe ==
    /\ cache # object
    /\ cache' = object
    /\ UNCHANGED <<cluster, template, work, history>>

PodStarts ==
    /\ pod.phase = "Pending" /\ ~pod.stopping
    /\ pod' = [pod EXCEPT !.phase = "Running"]
    /\ UNCHANGED <<object, job, role, disk, purge, cache, template, work, history>>

GuestAnswers ==
    /\ pod.phase = "Running" /\ pod.guest # "up" /\ ~pod.stopping
    /\ pod' = [pod EXCEPT !.guest = "up"]
    /\ UNCHANGED <<object, job, role, disk, purge, cache, template, work, history>>

\* What a supervisor asked for a snapshot may leave on the cache: a new one,
\* the previous one, or, stopped between the two, none (see VmSupervisor).
Published ==
    \/ disk' \in {disk, 0} /\ taken' = taken
    \/ disk' = taken + 1 /\ taken' = taken + 1

\* net-proxy's detector confines the Workshop through its supervisor.
Lockdown ==
    /\ pod.phase = "Running" /\ pod.guest = "up" /\ ~pod.locked
    /\ incidents < MaxIncidents /\ incidents' = incidents + 1
    /\ pod' = [pod EXCEPT !.locked = TRUE]
    /\ Published
    /\ UNCHANGED <<object, job, role, purge, cache, template, work, pods,
                   asked, outcome, stale>>

PodStops ==
    /\ pod.stopping
    /\ pod' = NoPod
    /\ UNCHANGED <<object, job, role, disk, purge, cache, template, work, history>>

\* A node is drained, or evicts the pod and leaves its object behind.
Disturb ==
    /\ pod # NoPod /\ ~pod.stopping /\ incidents < MaxIncidents
    /\ \/ pod' = [pod EXCEPT !.stopping = TRUE]
       \/ pod' = [pod EXCEPT !.phase = "Failed"]
    /\ incidents' = incidents + 1
    /\ UNCHANGED <<object, job, role, disk, purge, cache, template, work,
                   pods, taken, asked, outcome, stale>>

\* The objects the Workshop owns follow it.
GarbageCollect ==
    /\ object.life = "gone"
    /\ job # "none" \/ (pod # NoPod /\ ~pod.stopping)
    /\ job' = "none"
    /\ pod' = IF pod = NoPod THEN NoPod ELSE [pod EXCEPT !.stopping = TRUE]
    /\ UNCHANGED <<object, role, disk, purge, cache, template, work, history>>

\* image-builder patches the status and its Job ends, or the Job gives up.
JobEnds ==
    /\ job = "active" /\ object.life # "gone"
    /\ \/ object' = [object EXCEPT !.status.image = "built"] /\ job' = "succeeded"
       \/ object' = object /\ job' = "failed"
    /\ UNCHANGED <<pod, role, disk, purge, cache, template, work, history>>

\* The snapshot-cleanup Job empties the Workshop's snapshot directory.
PurgeRuns ==
    /\ purge
    /\ purge' = FALSE /\ disk' = 0
    /\ UNCHANGED <<object, pod, job, role, cache, template, work, history>>

\* helm upgrade: a new controller, with another pod template.
Upgrade ==
    /\ pc = "idle" /\ incidents < MaxIncidents
    /\ template' = template + 1 /\ cache' = object
    /\ incidents' = incidents + 1
    /\ UNCHANGED <<cluster, work, pods, taken, asked, outcome, stale>>

-----------------------------------------------------------------------------
(* The controller.                                                         *)

Working == pc # "idle"

\* The end of a reconciliation: its copies are dropped.
Done ==
    pc' = "idle" /\ seen' = NewObject /\ current' = NoPod /\ reply' = NewStatus

\* Mutation: a suspended Workshop is still built.
Branch_BuildFirst(view) ==
    IF view.life = "deleting" THEN "cleanup"
    ELSE IF ~view.finalizer THEN "adopt"
    ELSE IF view.status.image = "none" THEN "build"
    ELSE IF view.desired = "Suspended" THEN "suspend"
    ELSE "prepare"

\* Mutation: a suspended Workshop is not cleaned up.
Branch_SuspendFirst(view) ==
    IF ~view.finalizer THEN "adopt"
    ELSE IF view.desired = "Suspended" THEN "suspend"
    ELSE IF view.life = "deleting" THEN "cleanup"
    ELSE IF view.status.image = "none" THEN "build"
    ELSE "prepare"

\* reconcile and apply choose the branch from the copy they were given.
Branch(view) ==
    IF view.life = "deleting" THEN "cleanup"
    ELSE IF ~view.finalizer THEN "adopt"
    ELSE IF view.desired = "Suspended" THEN "suspend"
    ELSE IF view.status.image = "none" THEN "build"
    ELSE "prepare"

Begin ==
    /\ pc = "idle" /\ cache.life # "gone"
    /\ cache.life = "deleting" => cache.finalizer
    /\ seen' = cache /\ pc' = Branch(cache)
    /\ stale' = (stale \/ cache # object)
    /\ UNCHANGED <<cluster, cache, template, current, reply,
                   pods, taken, asked, outcome, incidents>>

\* Any call may fail, and the controller may be killed at any of them; what
\* was done stays done and the next reconciliation starts over.
Fail ==
    /\ Working /\ incidents < MaxIncidents
    /\ incidents' = incidents + 1 /\ Done
    /\ role' = (role \/ pc \in {"build", "prepare"})
    /\ UNCHANGED <<object, pod, job, disk, purge, cache, template, pods,
                   taken, asked, outcome, stale>>

\* The finalizer is added alone; the rest waits for the next reconciliation.
Adopt ==
    /\ pc = "adopt" /\ Done
    /\ object' = IF object.life = "live" THEN [object EXCEPT !.finalizer = TRUE]
                                        ELSE object
    /\ UNCHANGED <<pod, job, role, disk, purge, cache, template, history>>

\* ensure_suspended, first call: the pod is read.
Suspend ==
    /\ pc = "suspend"
    /\ IF pod # NoPod /\ ~pod.stopping
       THEN /\ pc' = "snapshot" /\ current' = pod /\ reply' = reply
       ELSE /\ pc' = "patch" /\ current' = current
            /\ reply' = [carry_forward_status(seen,
                           IF pod = NoPod THEN "Suspended" ELSE "Suspending")
                         EXCEPT !.podName = "none"]
    /\ UNCHANGED <<cluster, cache, template, seen, history>>

\* request_snapshot: best effort.  The supervisor ends after its answer, and
\* with it the guest, until the kubelet restarts it.
RequestSnapshot ==
    /\ pc = "snapshot" /\ pc' = "release"
    /\ asked' = current.uid
    /\ \/ /\ pod.uid = current.uid /\ pod.phase = "Running"
          /\ Published
          /\ outcome' \in IF taken' = taken THEN {0} ELSE {0, taken'}
          /\ pod' = IF taken' = taken THEN pod
                    ELSE [pod EXCEPT !.locked = FALSE,
                             !.guest = IF @ = "up" THEN "restarting" ELSE @]
       \/ outcome' = 0 /\ UNCHANGED <<pod, disk, taken>>
    /\ UNCHANGED <<object, job, role, purge, cache, template, seen, current,
                   reply, pods, stale, incidents>>

\* Mutation: the digest of the previous suspension is carried forward.
Release_KeepsDigest ==
    /\ pc = "release"
    /\ IF pod = NoPod
       THEN Done /\ pod' = pod
       ELSE /\ pc' = "patch" /\ UNCHANGED <<seen, current>>
            /\ pod' = [pod EXCEPT !.stopping = TRUE]
            /\ reply' = [carry_forward_status(seen, "Suspending")
                         EXCEPT !.podName = "none"]
    /\ UNCHANGED <<object, job, role, disk, purge, cache, template, history>>

\* ensure_suspended, last call: the pod is deleted by name; it is an error
\* if it went away meanwhile.
Release ==
    /\ pc = "release"
    /\ IF pod = NoPod
       THEN Done /\ pod' = pod
       ELSE /\ pc' = "patch" /\ UNCHANGED <<seen, current>>
            /\ pod' = [pod EXCEPT !.stopping = TRUE]
            /\ reply' = [carry_forward_status(seen, "Suspending")
                         EXCEPT !.podName = "none", !.snapshot = outcome]
    /\ UNCHANGED <<object, job, role, disk, purge, cache, template, history>>

\* ensure_image_build_job: the Job is created once, never replaced.
Build ==
    /\ pc = "build" /\ pc' = "patch"
    /\ role' = TRUE
    /\ job' = IF job = "none" THEN "active" ELSE job
    /\ reply' = IF job = "failed"
                THEN [carry_forward_status(seen, "Failed")
                        EXCEPT !.conds = {"ImageBuildFailed"}]
                ELSE carry_forward_status(seen, "BuildingImage")
    /\ UNCHANGED <<object, pod, disk, purge, cache, template, seen, current,
                   history>>

\* ensure_parent_pod, up to the pod: accounts, role, secrets, ConfigMaps.
Prepare ==
    /\ pc = "prepare" /\ pc' = "ensure"
    /\ role' = TRUE
    /\ UNCHANGED <<object, pod, job, disk, purge, cache, template, seen,
                   current, reply, history>>

FreshPod == [uid |-> pods + 1, for |-> seen.generation, hash |-> template,
             phase |-> "Pending", guest |-> "booting", locked |-> FALSE,
             stopping |-> FALSE]

\* Mutation: a pod of another template is replaced at once.
EnsurePod_Replaces ==
    /\ pc = "ensure" /\ pc' = "probe"
    /\ IF pod = NoPod
       THEN pod' = FreshPod /\ current' = FreshPod /\ pods' = pods + 1
       ELSE /\ pod' = IF pod.hash = template THEN pod
                      ELSE [pod EXCEPT !.stopping = TRUE]
            /\ current' = pod /\ pods' = pods
    /\ UNCHANGED <<object, job, role, disk, purge, cache, template, seen,
                   reply, taken, asked, outcome, stale, incidents>>

\* The pod is created once; one that exists, even stopping, is left alone.
EnsurePod ==
    /\ pc = "ensure" /\ pc' = "probe"
    /\ IF pod = NoPod
       THEN pod' = FreshPod /\ current' = FreshPod /\ pods' = pods + 1
       ELSE current' = pod /\ UNCHANGED <<pod, pods>>
    /\ UNCHANGED <<object, job, role, disk, purge, cache, template, seen,
                   reply, taken, asked, outcome, stale, incidents>>

\* The pod is still the one that was read, and answers.
Reachable == pod.uid = current.uid /\ pod.phase = "Running"

\* Mutation: a pod that runs is enough.
Ready_PodRunning == current.phase = "Running"

\* guest_ready: a guest once announced is not probed again.
Ready ==
    /\ current.phase = "Running"
    /\ \/ seen.status.phase = "Running"
       \/ Reachable /\ pod.guest = "up"

\* ensure_parent_pod, after the pod: upgrade state, phase, confinement.
Probe ==
    /\ pc = "probe" /\ pc' = "patch"
    /\ \E confined \in {FALSE, Reachable /\ pod.locked} :
          reply' = [carry_forward_status(seen,
                      IF Ready THEN "Running"
                      ELSE IF seen.status.phase \in {"Suspended", "Suspending"}
                      THEN "Resuming" ELSE "Provisioning")
                    EXCEPT !.podName = "parent",
                           !.upgrade = IF current.hash = template THEN "none"
                                       ELSE "NeedsRestartForUpgrade",
                           !.conds = IF confined THEN {"SecurityLockdown"} ELSE {}]
    /\ UNCHANGED <<cluster, cache, template, seen, current, history>>

PatchStatus ==
    /\ pc = "patch" /\ Done
    /\ object' = IF object.life = "gone" THEN object
                 ELSE [object EXCEPT !.status = Merged(@, reply)]
    /\ UNCHANGED <<pod, job, role, disk, purge, cache, template, history>>

\* Mutation: the role is deleted on a best-effort basis too.
Cleanup_BestEffort ==
    /\ pc = "cleanup" /\ pc' = "unfinalize"
    /\ role' \in {role, FALSE} /\ purge' \in {purge, TRUE}
    /\ UNCHANGED <<object, pod, job, disk, cache, template, seen, current,
                   reply, history>>

\* cleanup: only a failure on the OpenBao role stops it (Fail).
Cleanup ==
    /\ pc = "cleanup" /\ pc' = "unfinalize"
    /\ role' = FALSE /\ purge' \in {purge, TRUE}
    /\ UNCHANGED <<object, pod, job, disk, cache, template, seen, current,
                   reply, history>>

Unfinalize ==
    /\ pc = "unfinalize" /\ Done
    /\ object' = [object EXCEPT !.finalizer = FALSE, !.life = "gone"]
    /\ UNCHANGED <<pod, job, role, disk, purge, cache, template, history>>

-----------------------------------------------------------------------------
Reconcile ==
    \/ Begin \/ Adopt \/ Suspend \/ RequestSnapshot \/ Release \/ Build
    \/ Prepare \/ EnsurePod \/ Probe \/ PatchStatus \/ Cleanup \/ Unfinalize

Next ==
    \/ Reconcile \/ Fail \/ Observe \/ Upgrade \/ SetDesired \/ Delete
    \/ PodStarts \/ GuestAnswers \/ PodStops \/ Disturb \/ GarbageCollect
    \/ Lockdown \/ JobEnds \/ PurgeRuns

\* The controller requeues every Workshop and its watch delivers; pods start,
\* stop and boot their guest; builds end.  Nothing is assumed of users, of
\* upgrades, of drains or of the anomaly detector.
Fairness ==
    /\ WF_vars(Reconcile) /\ WF_vars(Observe)
    /\ WF_vars(PodStarts) /\ WF_vars(GuestAnswers) /\ WF_vars(PodStops)
    /\ WF_vars(GarbageCollect) /\ WF_vars(JobEnds)

Spec == Init /\ [][Next]_vars /\ Fairness

-----------------------------------------------------------------------------
\* No incident so far, and no reconciliation worked on an outdated copy.
Clean == incidents = 0 /\ ~stale

\* WorkshopStatus: what image-builder published is never erased or replaced
\* by a controller that reconciles an older copy of the Workshop.
ImageKept ==
    [][object.status.image = "built" => object'.status.image = "built"]_vars

\* ensure_suspended, ensure_parent_pod: the controller stops a pod only for a
\* suspension asked for after the generation the pod was created from, and
\* only once that very pod was asked for its snapshot; never for an upgrade.
StopsOnlySuspended ==
    [][~pod.stopping /\ pod'.stopping /\ pc' # pc =>
          /\ seen.desired = "Suspended" /\ seen.generation > pod.for
          /\ asked = pod.uid]_vars

\* cleanup: once the Workshop is gone its OpenBao role is gone and stays so,
\* whatever reconciliation of an older copy ran in between.
RoleGoneWithWorkshop == object.life = "gone" => ~role

\* guest_ready: absent incidents, Running is announced only of a pod whose
\* guest has answered at least once.
AnnouncedAfterAnswer ==
    [][Clean /\ Probe /\ reply'.phase = "Running" /\ pod.uid = current.uid
          => pod.guest # "booting"]_vars

\* ensure_suspended: absent incidents, a suspension that was acknowledged leaves
\* its own digest in the status, and that snapshot on the cache.
AcknowledgedDigest ==
    Clean /\ object.status.phase = "Suspended" /\ outcome # 0 /\ pc = "idle"
        => /\ object.status.snapshot = outcome
           /\ object.life = "live" => disk = outcome

\* apply: a Workshop left Suspended ends up with no pod and says so.
SuspendConverges ==
    <>[](object.desired = "Suspended" /\ object.life = "live")
        => <>[](pod = NoPod /\ object.status.phase = "Suspended")

\* apply: a Workshop left Running ends up Running, unless its build failed or
\* its pod was evicted.
ResumeConverges ==
    <>[](object.desired = "Running" /\ object.life = "live")
        => <>[](object.status.phase = "Running"
                \/ job = "failed" \/ pod.phase = "Failed")

\* reconcile: the finalizer never keeps a deleted Workshop, nor its pod.
DeleteConverges ==
    object.life = "deleting" ~> object.life = "gone" /\ pod = NoPod

\* ensure_suspended: "Une suspension qui n'a pas produit d'instantane n'en
\* laisse pas l'empreinte de la precedente".
DigestCleared ==
    Clean /\ object.status.phase = "Suspended" /\ outcome = 0 /\ pc = "idle"
        => object.status.snapshot = 0

\* ensure_parent_pod: the badge "refletera alors reellement" what can be used:
\* Running is not announced of a pod being deleted.
RunningMeansUsable ==
    Clean /\ pc = "patch" /\ reply.phase = "Running" => ~current.stopping
=============================================================================
