---------------------------- MODULE VmSupervisor ----------------------------
(***************************************************************************)
(* The life of one Workshop's microVM under `vm-supervisor`: start, S3     *)
(* fall-back download, restore or cold boot, suspend and lockdown          *)
(* requests, publication of the three snapshot files on the shared cache,  *)
(* offload to S3, and every interruption between two of those steps.       *)
(*                                                                         *)
(* A file or an object is abstracted to a Copy: the instant of the guest   *)
(* it describes and whether it was written to its end.                     *)
(***************************************************************************)
EXTENDS Integers, Sequences

CONSTANTS
    Configurations, \* the deployments considered, see Configuration
    MaxRequests,    \* bound: control requests sent to the supervisor
    MaxPods         \* bound: parent pods created for the Workshop

\* s3: the offload is configured for the Workshop; legacy: S3 already holds a
\* suspension, offloaded by a version that did not compress it.
Configuration == [s3 : BOOLEAN, legacy : BOOLEAN]

ASSUME ConstantsAssumption ==
    /\ Configurations \subseteq Configuration
    /\ MaxRequests \in Nat
    /\ MaxPods \in Nat

File == {"state", "mem", "disk"}
Kind == {"suspend", "lockdown"}

\* The orders the code walks the files in.
Named        == <<"state", "mem", "disk">>
CopyOrder    == <<"state", "mem">>
PublishOrder_StateFirst == <<"state", "mem", "disk">>    \* mutation
PublishOrder == <<"disk", "mem", "state">>
OffloadOrder_StateFirst == <<"state", "mem", "disk">>    \* mutation
OffloadOrder == <<"mem", "disk", "state">>

NoInstant == -1
OldInstant == 0       \* the suspension a previous version left behind
Copy == [of : Nat \cup {NoInstant}, whole : BOOLEAN]
Absent == [of |-> NoInstant, whole |-> FALSE]
Whole(i) == [of |-> i, whole |-> TRUE]
Partial(i) == [of |-> i, whole |-> FALSE]

Nothing == [f \in File |-> Absent]
All(i) == [f \in File |-> Whole(i)]

VARIABLES
    conf,         \* the deployment, fixed
    \* @durable: the shared cache (PVC) and S3
    local,        \* published files of the Workshop's snapshot directory
    tmp,          \* the *.tmp files next to them
    zst, raw,     \* S3 objects `<name>.zst` and `<name>`
    \* @pod: the parent pod and its network namespace
    pod,          \* "gone", "up", "terminating"
    pods,         \* pods created so far
    tap,          \* TAP device and iptables chain exist in the namespace
    frozen,       \* the chain starts with the lockdown DROP
    \* @process: vm-supervisor and the microVM
    pc, step,     \* control point, position in the order being walked
    writing,      \* a file is open and not yet written to its end
    vm,           \* "off", "running", "paused", "dead"
    guest,        \* the files the microVM was restored from, Nothing if cold
    queue,        \* requests accepted by the control server
    serving,      \* the request being handled
    lockedDown,   \* the flag GET /lockdown exposes
    \* @history
    asked,        \* requests sent so far
    clock,        \* instants captured so far
    durable       \* instant of the last acknowledged snapshot still in place

storage == <<local, tmp, zst, raw>>
podVars == <<pod, pods, tap, frozen>>
process == <<pc, step, writing, vm, guest, queue, serving, lockedDown>>
history == <<asked, clock, durable>>
vars == <<conf, storage, podVars, process, history>>

Complete(files) == \A f \in File : files[f] # Absent
OneInstant(files) == \E i \in {files["state"].of} : files = All(i)

Listening == pc \notin {"down", "fetch", "discard", "boot"}

-----------------------------------------------------------------------------
(* Before the first start the cache is empty, or holds a suspension taken  *)
(* before disks were kept, or (legacy) one taken before compression.       *)
Init ==
    /\ conf \in Configurations
    /\ raw = IF conf.legacy THEN All(OldInstant) ELSE Nothing
    /\ local \in {Nothing, [Nothing EXCEPT !["state"] = Whole(OldInstant),
                                           !["mem"] = Whole(OldInstant)]}
                 \cup (IF conf.legacy THEN {All(OldInstant)} ELSE {})
    /\ tmp = Nothing /\ zst = Nothing
    /\ pod = "gone" /\ pods = 0 /\ tap = FALSE /\ frozen = FALSE
    /\ pc = "down" /\ step = 1 /\ writing = FALSE
    /\ vm = "off" /\ guest = Nothing
    /\ queue = <<>> /\ serving = "suspend" /\ lockedDown = FALSE
    /\ asked = 0 /\ clock = OldInstant /\ durable = NoInstant

-----------------------------------------------------------------------------
(* The pod, as the controller and the kubelet drive it.                    *)

\* What the death of the process leaves of its own state.
Dead ==
    /\ pc' = "down" /\ step' = 1 /\ writing' = FALSE
    /\ vm' = "off" /\ guest' = Nothing
    /\ queue' = <<>> /\ serving' = "suspend" /\ lockedDown' = FALSE

CreatePod ==
    /\ pod = "gone" /\ pods < MaxPods
    /\ pod' = "up" /\ pods' = pods + 1
    /\ UNCHANGED <<conf, storage, tap, frozen, process, history>>

\* Asked for by a suspension that has its answer or gave up waiting, or by a
\* drain: the supervisor has no SIGTERM handler and keeps going.
DeletePod ==
    /\ pod = "up"
    /\ pod' = "terminating"
    /\ UNCHANGED <<conf, storage, pods, tap, frozen, process, history>>

\* End of the grace period: the network namespace goes with the pod.
KillPod ==
    /\ pod = "terminating"
    /\ pod' = "gone" /\ tap' = FALSE /\ frozen' = FALSE
    /\ Dead
    /\ UNCHANGED <<conf, storage, pods, history>>

\* The container alone dies; the namespace, its TAP and its rules stay.
Crash ==
    /\ pc # "down"
    /\ Dead
    /\ UNCHANGED <<conf, storage, podVars, history>>

\* The cache volume is replaced by an empty one between two pods.
LoseCache ==
    /\ pod = "gone"
    /\ \E f \in File : local[f] # Absent
    /\ local' = Nothing /\ tmp' = Nothing /\ durable' = NoInstant
    /\ UNCHANGED <<conf, zst, raw, podVars, process, asked, clock>>

-----------------------------------------------------------------------------
(* Start: TAP, S3 fall-back, restore or cold boot.                         *)

\* Mutation: the fall-back does not look at what the cache already holds.
Start_AlwaysFetch ==
    /\ pod = "up" /\ pc = "down" /\ ~tap
    /\ tap' = TRUE /\ step' = 1
    /\ pc' = IF conf.s3 THEN "fetch" ELSE "boot"
    /\ UNCHANGED <<conf, storage, pod, pods, frozen, writing, vm, guest,
                   queue, serving, lockedDown, history>>

\* The TAP and the chain must not exist yet: after a crash in the same
\* namespace every start fails here.
Start ==
    /\ pod = "up" /\ pc = "down" /\ ~tap
    /\ tap' = TRUE /\ step' = 1
    /\ \/ pc' = IF conf.s3 /\ ~Complete(local) THEN "fetch" ELSE "boot"
       \/ pc' = "down"                  \* a rule fails after the TAP is made
    /\ UNCHANGED <<conf, storage, pod, pods, frozen, writing, vm, guest,
                   queue, serving, lockedDown, history>>

\* GET of the compressed object, of the old form on any error; the published
\* path itself is truncated and written.
FetchBegin ==
    /\ pc = "fetch" /\ ~writing
    /\ LET f == Named[step] IN
       \E object \in {zst[f], raw[f]} \ {Absent} :
          local' = [local EXCEPT ![f] = Partial(object.of)]
    /\ writing' = TRUE
    /\ UNCHANGED <<conf, tmp, zst, raw, podVars, pc, step, vm, guest, queue,
                   serving, lockedDown, history>>

\* Mutation: the position is not reset after the last file.
FetchEnd_NoReset ==
    /\ pc = "fetch" /\ writing
    /\ local' = [local EXCEPT ![Named[step]] = Whole(@.of)]
    /\ writing' = FALSE /\ step' = step + 1
    /\ pc' = IF step = 3 THEN "boot" ELSE pc
    /\ UNCHANGED <<conf, tmp, zst, raw, podVars, vm, guest, queue, serving,
                   lockedDown, history>>

FetchEnd ==
    /\ pc = "fetch" /\ writing
    /\ local' = [local EXCEPT ![Named[step]] = Whole(@.of)]
    /\ writing' = FALSE
    /\ IF step = 3 THEN pc' = "boot" /\ step' = 1
                   ELSE pc' = pc /\ step' = step + 1
    /\ UNCHANGED <<conf, tmp, zst, raw, podVars, vm, guest, queue, serving,
                   lockedDown, history>>

\* Neither object can be read, or the stream breaks.
FetchFail ==
    /\ pc = "fetch"
    /\ pc' = "discard" /\ step' = 1 /\ writing' = FALSE
    /\ UNCHANGED <<conf, storage, podVars, vm, guest, queue, serving,
                   lockedDown, history>>

\* SnapshotFiles::remove, file by file, errors ignored.
Discard ==
    /\ pc = "discard"
    /\ \/ local' = [local EXCEPT ![Named[step]] = Absent]
       \/ local' = local
    /\ IF step = 3 THEN pc' = "boot" /\ step' = 1
                   ELSE pc' = pc /\ step' = step + 1
    /\ UNCHANGED <<conf, tmp, zst, raw, podVars, writing, vm, guest, queue,
                   serving, lockedDown, history>>

Boot ==
    /\ pc = "boot"
    /\ guest' = IF Complete(local) THEN local ELSE Nothing
    /\ vm' = "running" /\ pc' = "serve"
    /\ UNCHANGED <<conf, storage, podVars, step, writing, queue, serving,
                   lockedDown, history>>

\* The error leaves `main` before any teardown.
BootFail ==
    /\ pc = "boot"
    /\ Dead
    /\ UNCHANGED <<conf, storage, podVars, history>>

-----------------------------------------------------------------------------
(* The control server and the main loop.                                   *)

\* POST /snapshot from the controller, which may have read the pod before it
\* was deleted, or POST /lockdown from net-proxy.
Request(kind) ==
    /\ Listening /\ asked < MaxRequests
    /\ queue' = Append(queue, kind) /\ asked' = asked + 1
    /\ UNCHANGED <<conf, storage, podVars, pc, step, writing, vm, guest,
                   serving, lockedDown, clock, durable>>

\* Mutation: every request sets the freeze anew.
Take_SetsFreeze ==
    /\ pc = "serve" /\ queue # <<>>
    /\ serving' = Head(queue) /\ queue' = Tail(queue) /\ pc' = "pause"
    /\ frozen' = (Head(queue) = "lockdown")
    /\ UNCHANGED <<conf, storage, pod, pods, tap, step, writing, vm, guest,
                   lockedDown, history>>

\* A lockdown freezes the egress first; a failure to do so is only logged.
Take ==
    /\ pc = "serve" /\ queue # <<>>
    /\ serving' = Head(queue) /\ queue' = Tail(queue) /\ pc' = "pause"
    /\ \/ frozen' = (frozen \/ Head(queue) = "lockdown")
       \/ frozen' = frozen
    /\ UNCHANGED <<conf, storage, pod, pods, tap, step, writing, vm, guest,
                   lockedDown, history>>

GuestStops ==
    /\ vm = "running"
    /\ vm' = "dead"
    /\ UNCHANGED <<conf, storage, podVars, pc, step, writing, guest, queue,
                   serving, lockedDown, history>>

\* Mutation: only an unreachable microVM ends the loop, not a paused one.
Poll_DeadOnly ==
    /\ pc = "serve" /\ vm = "dead"
    /\ pc' = "halt"
    /\ UNCHANGED <<conf, storage, podVars, step, writing, vm, guest, queue,
                   serving, lockedDown, history>>

\* The 30 s poll: a microVM paused or unreachable ends the main loop.
Poll ==
    /\ pc = "serve" /\ vm # "running"
    /\ pc' = "halt"
    /\ UNCHANGED <<conf, storage, podVars, step, writing, vm, guest, queue,
                   serving, lockedDown, history>>

\* The TAP, the chain and, with it, the DROP of a lockdown.
Teardown == tap' = FALSE /\ frozen' = FALSE

\* Vm::shutdown, NetworkSetup::teardown, return.
Halt ==
    /\ pc = "halt"
    /\ Teardown
    /\ Dead
    /\ UNCHANGED <<conf, storage, pod, pods, history>>

-----------------------------------------------------------------------------
(* snapshot_and_publish.                                                   *)

\* An error returns from snapshot_and_publish with nothing undone.
Fail ==
    /\ pc' = "refuse" /\ step' = 1 /\ writing' = FALSE

Pause ==
    /\ pc = "pause"
    /\ \/ /\ vm = "running" /\ vm' = "paused" /\ clock' = clock + 1
          /\ pc' = "record" /\ UNCHANGED <<step, writing>>
       \/ Fail /\ UNCHANGED <<vm, clock>>
    /\ UNCHANGED <<conf, storage, podVars, guest, queue, serving, lockedDown,
                   asked, durable>>

\* snapshot/create, then the disk is copied while the microVM is paused.
RecordBegin ==
    /\ pc = "record" /\ ~writing
    /\ tmp' = [tmp EXCEPT !["disk"] = Partial(clock)]
    /\ writing' = TRUE
    /\ UNCHANGED <<conf, local, zst, raw, podVars, pc, step, vm, guest,
                   queue, serving, lockedDown, history>>

\* The microVM resumes whatever the outcome, unless the resume itself fails
\* or the resources of the snapshot could not be declared.
RecordEnd ==
    /\ pc = "record" /\ vm = "paused"
    /\ \/ /\ writing /\ tmp' = [tmp EXCEPT !["disk"] = Whole(clock)]
          /\ \/ /\ vm' = "running" /\ pc' = "copy" /\ step' = 1
                /\ writing' = FALSE
             \/ Fail /\ vm' = vm
       \/ Fail /\ vm' \in {"running", "paused"} /\ tmp' = tmp
    /\ UNCHANGED <<conf, local, zst, raw, podVars, guest, queue, serving,
                   lockedDown, history>>

\* State and memory leave the jail for temporary files.
CopyBegin ==
    /\ pc = "copy" /\ ~writing
    /\ tmp' = [tmp EXCEPT ![CopyOrder[step]] = Partial(clock)]
    /\ writing' = TRUE
    /\ UNCHANGED <<conf, local, zst, raw, podVars, pc, step, vm, guest,
                   queue, serving, lockedDown, history>>

CopyEnd ==
    /\ pc = "copy"
    /\ \/ /\ writing
          /\ tmp' = [tmp EXCEPT ![CopyOrder[step]] = Whole(clock)]
          /\ writing' = FALSE
          /\ IF step = 2 THEN pc' = "retract" /\ step' = 1
                         ELSE pc' = pc /\ step' = step + 1
       \/ Fail /\ tmp' = tmp
    /\ UNCHANGED <<conf, local, zst, raw, podVars, vm, guest, queue, serving,
                   lockedDown, history>>

\* Mutation: an error of the removal is ignored.
Retract_BestEffort ==
    /\ pc = "retract" /\ pc' = "publish"
    /\ \/ local' = [local EXCEPT !["state"] = Absent] /\ durable' = NoInstant
       \/ UNCHANGED <<local, durable>>
    /\ UNCHANGED <<conf, tmp, zst, raw, podVars, step, writing, vm, guest,
                   queue, serving, lockedDown, asked, clock>>

\* The state of the previous suspension goes before anything is published.
Retract ==
    /\ pc = "retract"
    /\ \/ /\ local' = [local EXCEPT !["state"] = Absent]
          /\ durable' = NoInstant
          /\ pc' = "publish" /\ UNCHANGED <<step, writing>>
       \/ Fail /\ UNCHANGED <<local, durable>>
    /\ UNCHANGED <<conf, tmp, zst, raw, podVars, vm, guest, queue, serving,
                   lockedDown, asked, clock>>

\* Three renames, the state last.
Publish ==
    /\ pc = "publish"
    /\ \/ LET f == PublishOrder[step] IN
          /\ local' = [local EXCEPT ![f] = tmp[f]]
          /\ tmp' = [tmp EXCEPT ![f] = Absent]
          /\ writing' = writing
          /\ IF step = 3 THEN /\ pc' = IF conf.s3 THEN "withdraw" ELSE "digest"
                              /\ step' = 1
                         ELSE pc' = pc /\ step' = step + 1
       \/ Fail /\ UNCHANGED <<local, tmp>>
    /\ UNCHANGED <<conf, zst, raw, podVars, vm, guest, queue, serving,
                   lockedDown, history>>

\* Mutation: the state is only deleted in its compressed form.
Withdraw_CompressedOnly ==
    /\ pc = "withdraw"
    /\ zst' = [zst EXCEPT !["state"] = Absent] /\ raw' = raw
    /\ pc' = "offload" /\ step' = 1
    /\ UNCHANGED <<conf, local, tmp, podVars, writing, vm, guest, queue,
                   serving, lockedDown, history>>

\* offload_snapshot: the state object goes first, in both forms; an error
\* abandons the offload, not the suspension.
Withdraw ==
    /\ pc = "withdraw"
    /\ \/ /\ step = 1 /\ raw' = [raw EXCEPT !["state"] = Absent]
          /\ zst' = zst /\ pc' = pc /\ step' = 2
       \/ /\ step = 2 /\ zst' = [zst EXCEPT !["state"] = Absent]
          /\ raw' = raw /\ pc' = "offload" /\ step' = 1
       \/ pc' = "digest" /\ step' = 1 /\ UNCHANGED <<zst, raw>>
    /\ UNCHANGED <<conf, local, tmp, podVars, writing, vm, guest, queue,
                   serving, lockedDown, history>>

\* A multipart upload replaces the object when it completes, or not at all.
Offload ==
    /\ pc = "offload"
    /\ \/ LET f == OffloadOrder[step] IN
          /\ zst' = [zst EXCEPT ![f] = local[f]]
          /\ IF step = 3 THEN pc' = "digest" /\ step' = 1
                         ELSE pc' = pc /\ step' = step + 1
       \/ pc' = "digest" /\ step' = 1 /\ zst' = zst
    /\ UNCHANGED <<conf, local, tmp, raw, podVars, writing, vm, guest, queue,
                   serving, lockedDown, history>>

\* The digest of the published state and memory is the answer.
Digest ==
    /\ pc = "digest"
    /\ \/ /\ durable' = clock /\ UNCHANGED <<step, writing>>
          /\ IF serving = "lockdown"
             THEN pc' = "serve" /\ lockedDown' = TRUE
             ELSE pc' = "halt" /\ lockedDown' = lockedDown
       \/ Fail /\ UNCHANGED <<durable, lockedDown>>
    /\ UNCHANGED <<conf, storage, podVars, vm, guest, queue, serving, asked,
                   clock>>

\* The error is answered; a lockdown is recorded all the same.
Refuse ==
    /\ pc = "refuse"
    /\ pc' = "serve"
    /\ lockedDown' = (lockedDown \/ serving = "lockdown")
    /\ UNCHANGED <<conf, storage, podVars, step, writing, vm, guest, queue,
                   serving, history>>

-----------------------------------------------------------------------------
Supervise ==
    \/ FetchBegin \/ FetchEnd \/ FetchFail \/ Discard \/ Boot \/ BootFail
    \/ Take \/ Poll \/ Halt
    \/ Pause \/ RecordBegin \/ RecordEnd \/ CopyBegin \/ CopyEnd
    \/ Retract \/ Publish \/ Withdraw \/ Offload \/ Digest \/ Refuse

Environment ==
    \/ CreatePod \/ DeletePod \/ KillPod \/ Crash \/ LoseCache
    \/ Start \/ GuestStops
    \/ \E kind \in Kind : Request(kind)

Next == Supervise \/ Environment

\* The supervisor's own steps are tasks of a live runtime: each is taken as
\* long as the process lives.  Nothing is assumed of pods, crashes or callers.
Fairness == WF_vars(Supervise)

Spec == Init /\ [][Next]_vars /\ Fairness

-----------------------------------------------------------------------------
Step == 1..3
Pc == {"down", "fetch", "discard", "boot", "serve", "pause", "record",
       "copy", "retract", "publish", "withdraw", "offload", "digest",
       "refuse", "halt"}

FlagsOK ==
    /\ tap \in BOOLEAN /\ frozen \in BOOLEAN
    /\ writing \in BOOLEAN /\ lockedDown \in BOOLEAN

StateOK ==
    /\ conf \in Configuration
    /\ local \in [File -> Copy] /\ tmp \in [File -> Copy]
    /\ zst \in [File -> Copy] /\ raw \in [File -> Copy]
    /\ pod \in {"gone", "up", "terminating"} /\ pods \in Nat
    /\ pc \in Pc /\ step \in Step /\ (pc = "copy" => step # 3)
    /\ vm \in {"off", "running", "paused", "dead"}
    /\ guest \in [File -> Copy]
    /\ queue \in Seq(Kind) /\ serving \in Kind
    /\ asked \in Nat /\ clock \in Nat /\ durable \in Nat \cup {NoInstant}

\* The type invariant of the supervisor, the cache and S3.
TypeOK == FlagsOK /\ StateOK

\* snapshot_and_publish: without the S3 fall-back, a snapshot that a start
\* takes for complete is three whole files of one suspension, whatever
\* interrupted the previous publications.
LocalCoherent == ~conf.s3 /\ Complete(local) => OneInstant(local)

\* What a download reads when no request fails: the compressed object, the
\* old form when there is none.
Readable(f) == IF zst[f] # Absent THEN zst[f] ELSE raw[f]

\* offload_snapshot: once a state object can be read on S3, the memory and
\* the disk read with it are whole and of the same suspension, across every
\* interrupted offload and across the change of object format.
S3Coherent ==
    Readable("state") # Absent =>
        OneInstant([f \in File |-> Readable(f)])

\* control_request answered 200: the acknowledged snapshot is published whole
\* and stays so until a later suspension replaces it or the cache is lost,
\* through crashes, restarts and S3 fall-backs.
AcknowledgedIsDurable == durable # NoInstant => local = All(durable)

\* main: as long as an acknowledged snapshot is in place, a start restores the
\* microVM from that very suspension, never from S3's older one, never cold.
ResumesAcknowledged ==
    [][Boot /\ durable # NoInstant => guest' = All(durable)]_vars

\* main, S3 fall-back: a download that ran from its first to its last file,
\* with no restart in between and no object of the old form on S3, leaves the
\* three files of one suspension.
FetchCoherent ==
    [][FetchEnd /\ pc' = "boot" /\ ~conf.legacy => OneInstant(local')]_vars

\* Vm::snapshot_internal can leave the microVM paused on an error path; the
\* poll of the main loop then stops the supervisor: a paused microVM never
\* stays so.
PausedIsTransient == vm = "paused" ~> vm # "paused"

\* lockdown_egress: the frozen egress is thawed only by the teardown that
\* follows the end of the microVM, or with the pod; never by a later request,
\* a failed snapshot or a crash of the container.
FrozenUntilTeardown ==
    [][frozen /\ ~frozen' => vm' = "off" /\ ~tap']_vars

\* main and snapshot_and_publish: "un lecteur ne voit jamais un fichier
\* partiellement ecrit", "jamais un melange de deux suspensions": a microVM is
\* restored from whole files of one suspension.
RestoreCoherent == guest # Nothing => OneInstant(guest)

\* main: "La microVM reste figee" once the lockdown is recorded and the
\* emergency snapshot archived.
LockdownFreezesVm == lockedDown /\ durable # NoInstant => vm # "running"
=============================================================================
