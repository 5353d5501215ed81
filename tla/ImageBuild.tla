----------------------------- MODULE ImageBuild -----------------------------
(***************************************************************************)
(* From a Workshop without an image to a pod that boots it:                 *)
(*   - the controller, in ensure_image_build_job, mints a key for the       *)
(*     build, creates the Job once, then reads its outcome at every pass    *)
(*     until its own copy of the Workshop carries an image digest;          *)
(*   - the Job runs image-builder until an attempt succeeds, one is         *)
(*     refused, or BackoffLimit retries are spent;                          *)
(*   - image-builder boots a builder VM, waits for it to power off,         *)
(*     exports what the registry holds, assembles and checks the tree       *)
(*     (Rootfs), publishes it (ImageCache) and reports it in the status;    *)
(*   - the builder VM builds the devcontainer and pushes it, or does not,   *)
(*     and powers off either way unless it hangs;                           *)
(*   - a pod of the Workshop boots from the volume and only from there.     *)
(***************************************************************************)
EXTENDS ImageCache, Rootfs

CONSTANTS Workshops,     \* names of the Workshops
          Scenarios,     \* the deployments and Workshops of the instance
          BackoffLimit   \* retries of the Job

\* Hosts a devcontainer downloads from while it builds.
Hosts == {"packages"}

\* A Workshop and its repository: the tree it builds into, where it is and
\* whether it is private, what the build downloads, the lists of hosts of the
\* spec (one of its own for the build, or not), and what its
\* devcontainer.json declares for the session.
Source == [base : Base, repo : {"public", "forge"}, private : BOOLEAN,
           needs : SUBSET Hosts, egress : SUBSET Hosts,
           buildEgress : SUBSET Hosts, ownList : BOOLEAN,
           declared : {"plain", "unusable"},
           clone : BOOLEAN, services : SUBSET Services, ca : BOOLEAN]

ASSUME BuildAssumption ==
    /\ \A s \in Scenarios :
        /\ DOMAIN s = {"source", "builds", "pushed", "running", "s3",
                       "reproducible", "faults"}
        /\ s.source \in [Workshops -> Source \cup {<<>>}]
        /\ s.faults \in 0..MaxFaults
    /\ BackoffLimit \in Nat

VARIABLES
    conf,        \* the scenario
    image,       \* the content of each digest, <<>> for none yet
    made,        \* how many builds have packaged each digest
    control,     \* the controller inside ensure_image_build_job
    grants,      \* what the Job may use: volume, status, git credentials
    key,         \* keys of the build alive at LiteLLM
    job,         \* the Job of each Workshop
    condition,   \* the ImageBuild condition in the status
    builder,     \* the pod of the running attempt
    registry,    \* the tree tagged latest in the registry, <<>> for none
    status,      \* what image-builder wrote in the status, <<>> for nothing
    copy,        \* the image digest in the controller's copy, 0 for none
    pod          \* the pod of each Workshop

buildVars == <<conf, image, made, control, grants, key, job, condition,
               builder, registry, status, copy, pod>>
vars == <<cacheVars, faults, buildVars>>

\* A Workshop of the scenario.
Asked(w) == conf.source[w] # <<>>

\* No attempt: `pc` is the call of run() an attempt is at, `guest` its builder
\* VM (running, stuck or off), `auth` whether it has git credentials, then the
\* tree, the session fields and the digest it has come to.
Idle == [pc |-> "none", guest |-> "off", auth |-> FALSE, tree |-> <<>>,
         session |-> FALSE, digest |-> 0]

Init ==
    /\ CacheInit
    /\ conf \in Scenarios
    /\ faults = conf.faults
    /\ image = [d \in Digest |-> <<>>]
    /\ made = [d \in Digest |-> 0]
    /\ control = [w \in Workshops |-> "idle"]
    /\ grants = [w \in Workshops |-> {}]
    /\ key = [w \in Workshops |-> 0]
    /\ job = [w \in Workshops |->
                [state |-> "none", failed |-> 0, message |-> "none",
                 env |-> <<>>, egress |-> {}, git |-> FALSE]]
    /\ condition = [w \in Workshops |-> "unset"]
    /\ builder = [w \in Workshops |-> Idle]
    /\ registry = [w \in Workshops |-> conf.pushed[w]]
    /\ status = [w \in Workshops |-> <<>>]
    /\ copy = [w \in Workshops |-> 0]
    /\ pod = [w \in Workshops |-> "none"]

(***************************************************************************)
(* The controller.  apply() calls ensure_image_build_job as long as its     *)
(* copy of the Workshop has no digest.                                      *)
(***************************************************************************)
Building(w) == Asked(w) /\ copy[w] = 0

generate_virtual_key(w) == key' = [key EXCEPT ![w] = @ + 1]
delete_virtual_key(w) == key' = [key EXCEPT ![w] = 0]

ensure_image_cache_pvc(g) == g \cup {"volume"}
ensure_image_build_rbac(g) == g \cup {"status"}
ensure_workshop_role(g) == g \cup {"git"}

\* The grants after a pass: the volume and the account of the Job stop it
\* when they fail, the role in OpenBao does not.
Required(w) == ensure_image_build_rbac(ensure_image_cache_pvc(grants[w]))
Granted(w) == ensure_workshop_role(Required(w))

VirtualToken(w) ==
    /\ generate_virtual_key(w)
    /\ control' = [control EXCEPT ![w] = "virtual"]

\* The token every Workshop shares, if the installation has one.
SharedToken(w) ==
    /\ UNCHANGED key
    /\ \E token \in {"shared", "none"} :
        control' = [control EXCEPT ![w] = token]

\* The role of the Job and the key of the build are best effort: without the
\* key, the shared token.
MintKey(w) ==
    /\ Building(w)
    /\ control[w] = "idle"
    /\ job[w].state = "none"
    /\ \/ /\ NoFault
          /\ grants' = [grants EXCEPT ![w] = Granted(w)]
          /\ VirtualToken(w)
       \/ /\ Fault
          /\ grants' = [grants EXCEPT ![w] = Granted(w)]
          /\ SharedToken(w)
       \/ /\ Fault
          /\ grants' = [grants EXCEPT ![w] = Required(w)]
          /\ VirtualToken(w)
    /\ UNCHANGED <<cacheVars, conf, image, made, job, condition, builder,
                   registry, status, copy, pod>>

\* The Job reads the git credentials, then boots the builder VM.
Attempt(w) == [Idle EXCEPT !.pc = "vm", !.guest = "running",
                           !.auth = "git" \in grants[w]]

\* What the containers of the Job are told, for all its attempts.
BuildEnvironment(w) ==
    [clone |-> conf.source[w].clone, services |-> conf.source[w].services,
     token |-> control[w], s3 |-> conf.s3, ca |-> conf.source[w].ca]

\* The hosts the net-proxy of the Job lets through: the list of the spec for
\* the build if there is one, even empty, else the list of the Workshop.
egress_allowlist(w) ==
    IF conf.source[w].ownList THEN conf.source[w].buildEgress
    ELSE conf.source[w].egress

\* The Job is created with what is known at that time, and never patched
\* afterwards; the alias of the forge is left out when the address of its
\* Service cannot be read.
BuildJob(w, git) ==
    [state |-> "active", failed |-> 0, message |-> "none",
     env |-> BuildEnvironment(w), egress |-> egress_allowlist(w), git |-> git]

CreateJob(w) ==
    /\ control[w] # "idle"
    /\ \E git_alias_addr \in BOOLEAN :
        /\ IF git_alias_addr THEN NoFault ELSE Fault
        /\ job' = [job EXCEPT ![w] = BuildJob(w, git_alias_addr)]
    /\ builder' = [builder EXCEPT ![w] = Attempt(w)]
    /\ control' = [control EXCEPT ![w] = "idle"]
    /\ UNCHANGED <<cacheVars, conf, image, made, grants, key, condition,
                   registry, status, copy, pod>>

\* The pass stops between the key and the Job (restart, refused call).
ControllerFails(w) ==
    /\ control[w] # "idle"
    /\ Fault
    /\ control' = [control EXCEPT ![w] = "idle"]
    /\ UNCHANGED <<cacheVars, conf, grants, image, made, key, job, condition,
                   builder, registry, status, copy, pod>>

job_failed(w) == job[w].state = "failed"
job_succeeded(w) == job[w].state = "complete"

\* The key of a Job that is over is revoked, as often as the pass comes by;
\* LiteLLM may refuse, which the next pass makes up for.
RevokeBuildKey(w) ==
    IF job_failed(w) \/ job_succeeded(w)
    THEN \/ NoFault /\ delete_virtual_key(w)
         \/ Fault /\ UNCHANGED key
    ELSE NoFault /\ UNCHANGED key

\* The message of the last container that ended in error with one.
build_failure_message(w) == job[w].message

ReadJob(w) ==
    /\ Building(w)
    /\ control[w] = "idle"
    /\ job[w].state # "none"
    /\ RevokeBuildKey(w)
    /\ grants' = [grants EXCEPT ![w] = Granted(w)]
    /\ condition' = IF job_failed(w)
                    THEN [condition EXCEPT ![w] = build_failure_message(w)]
                    ELSE condition
    /\ UNCHANGED <<cacheVars, conf, image, made, control, job, builder,
                   registry, status, copy, pod>>

\* The watch brings the status back to the controller.
Watch(w) ==
    /\ status[w] # <<>>
    /\ copy' = [copy EXCEPT ![w] = status[w].digest]
    /\ UNCHANGED <<cacheVars, faults, conf, image, made, control, grants, key,
                   job, condition, builder, registry, status, pod>>

(***************************************************************************)
(* The Job: what the end of an attempt makes of it.                         *)
(***************************************************************************)
\* A refusal fails the Job at once (podFailurePolicy), another error after
\* BackoffLimit retries.  A message that is empty does not replace one.
AttemptFails(w, message) ==
    LET spent == job[w].failed + 1
        over == message = "refused" \/ spent > BackoffLimit
    IN  /\ job' = [job EXCEPT ![w].failed = spent,
                              ![w].state = IF over THEN "failed" ELSE "active",
                              ![w].message = IF message = "none" THEN @
                                             ELSE message]
        /\ builder' = [builder EXCEPT ![w] = IF over THEN Idle ELSE Attempt(w)]

At(w, pc) == builder[w].pc = pc

Goto(w, pc) == builder' = [builder EXCEPT ![w].pc = pc]

\* The pod of the attempt is killed: no message, and a copy cut short stays
\* as it is.
BuilderKilled(w) ==
    /\ ~At(w, "none")
    /\ Fault
    /\ AttemptFails(w, "none")
    /\ UNCHANGED <<cacheVars, conf, image, made, control, grants, key,
                   condition, registry, status, copy, pod>>

(***************************************************************************)
(* The builder VM (crates/builder-vm-init): it powers off whether           *)
(* envbuilder pushed an image or failed; a hung one does not.               *)
(***************************************************************************)
CanBuild(w) ==
    /\ conf.builds[w]
    /\ conf.source[w].needs \subseteq job[w].egress
    /\ conf.source[w].repo = "forge" => job[w].git
    /\ conf.source[w].private => builder[w].auth

run_envbuilder(w) ==
    \/ /\ CanBuild(w)
       /\ NoFault
       /\ registry' = [registry EXCEPT ![w] = conf.source[w].base]
    \/ /\ IF CanBuild(w) THEN Fault ELSE NoFault
       /\ UNCHANGED registry

BuilderVm(w) ==
    /\ builder[w].guest = "running"
    /\ run_envbuilder(w)
    /\ builder' = [builder EXCEPT ![w].guest = "off"]
    /\ UNCHANGED <<cacheVars, conf, image, made, control, grants, key, job,
                   condition, status, copy, pod>>

BuilderVmHangs(w) ==
    /\ builder[w].guest = "running"
    /\ Fault
    /\ builder' = [builder EXCEPT ![w].guest = "stuck"]
    /\ UNCHANGED <<cacheVars, conf, image, made, control, grants, key, job,
                   condition, registry, status, copy, pod>>

(***************************************************************************)
(* image-builder.                                                           *)
(***************************************************************************)
run_builder_vm_NoDeadline(w) ==
    /\ At(w, "vm")
    /\ builder[w].guest = "off"
    /\ Goto(w, "assemble")
    /\ UNCHANGED job

\* The VM that is off, whatever it did, ends the wait; the deadline fails
\* the attempt.  Network and disk of the VM are released either way.
run_builder_vm(w) ==
    /\ At(w, "vm")
    /\ \/ /\ builder[w].guest = "off"
          /\ Goto(w, "assemble")
          /\ UNCHANGED job
       \/ /\ builder[w].guest = "stuck"
          /\ AttemptFails(w, "error")

build_via_microvm(w) ==
    /\ run_builder_vm(w)
    /\ UNCHANGED <<cacheVars, faults, conf, image, made, control, grants, key,
                   condition, registry, status, copy, pod>>

\* run() from the export to the check of the boot: nothing to export fails
\* the attempt, a tree that could not boot refuses the build.
AssembleTree(w) ==
    /\ At(w, "assemble")
    /\ \/ /\ registry[w] = <<>>
          /\ NoFault
          /\ AttemptFails(w, "error")
       \/ /\ registry[w] # <<>>
          /\ \E cloned \in BOOLEAN :
                LET tree == Assemble(job[w].env, registry[w], cloned)
                IN  /\ IF cloned
                       THEN /\ NoFault
                            /\ conf.source[w].private => builder[w].auth
                       ELSE IF conf.source[w].private /\ ~builder[w].auth
                            THEN NoFault ELSE Fault
                    /\ IF check_boot_prerequisites(tree)
                       THEN /\ builder' = [builder EXCEPT
                                  ![w].pc = "package",
                                  ![w].tree = tree,
                                  ![w].session = read_session_config(
                                        cloned, conf.source[w].declared)]
                            /\ UNCHANGED job
                       ELSE AttemptFails(w, "refused")
    /\ UNCHANGED <<cacheVars, conf, image, made, control, grants, key,
                   condition, registry, status, copy, pod>>

\* The digests a tree may get: a new one (of MaxImages), or, if mke2fs were
\* reproducible (it draws a UUID), the one of an equal tree.
sha256_file(tree) ==
    LET same == {d \in Digest : image[d] = tree}
        unused == {d \in Digest : made[d] = 0}
    IN  IF conf.reproducible /\ same # {} THEN same
        ELSE {d \in unused : \A e \in unused : d <= e}

PackageTree(w) ==
    /\ At(w, "package")
    /\ \E d \in sha256_file(builder[w].tree) :
        /\ image' = [image EXCEPT ![d] = builder[w].tree]
        /\ made' = [made EXCEPT ![d] = @ + 1]
        /\ builder' = [builder EXCEPT ![w].pc = "publish", ![w].digest = d,
                                      ![w].tree = <<>>]
    /\ UNCHANGED <<cacheVars, faults, conf, grants, control, key, job,
                   condition, registry, status, copy, pod>>

\* A file that is there is taken for the image, else the copy begins.
publish_to_cache(w) ==
    /\ At(w, "publish")
    /\ \/ /\ Published(builder[w].digest)
          /\ Goto(w, "upload")
          /\ UNCHANGED cacheVars
       \/ /\ OpenEntry(builder[w].digest)
          /\ Goto(w, "copy")
    /\ UNCHANGED <<faults, conf, image, made, control, grants, key, job,
                   condition, registry, status, copy, pod>>

CopyDone(w) ==
    /\ At(w, "copy")
    /\ CloseEntry(builder[w].digest)
    /\ Goto(w, "upload")
    /\ UNCHANGED <<faults, conf, image, made, control, grants, key, job,
                   condition, registry, status, copy, pod>>

\* Best effort: without a bucket, or when it fails, the image is on the
\* volume alone.
UploadImage(w) ==
    /\ At(w, "upload")
    /\ \/ /\ job[w].env.s3
          /\ upload_image_cache_file(builder[w].digest)
          /\ NoFault
       \/ /\ IF job[w].env.s3 /\ Published(builder[w].digest)
             THEN Fault ELSE NoFault
          /\ UNCHANGED cacheVars
    /\ Goto(w, "report")
    /\ UNCHANGED <<conf, image, made, control, grants, key, job, condition,
                   registry, status, copy, pod>>

\* A refused patch fails the attempt, image published or not.
ReportImage(w) ==
    /\ At(w, "report")
    /\ \/ /\ NoFault
          /\ "status" \in grants[w]
          /\ status' = [status EXCEPT ![w] =
                status_after_build(builder[w].digest, job[w].env,
                                   builder[w].session)]
          /\ Goto(w, "exit")
          /\ UNCHANGED job
       \/ /\ Fault
          /\ AttemptFails(w, "error")
          /\ UNCHANGED status
    /\ UNCHANGED <<cacheVars, conf, image, made, control, grants, key,
                   condition, registry, copy, pod>>

JobCompletes(w) ==
    /\ At(w, "exit")
    /\ job' = [job EXCEPT ![w].state = "complete"]
    /\ builder' = [builder EXCEPT ![w] = Idle]
    /\ UNCHANGED <<cacheVars, faults, conf, image, made, control, grants, key,
                   condition, registry, status, copy, pod>>

BuildStep(w) ==
    \/ build_via_microvm(w) \/ AssembleTree(w) \/ PackageTree(w)
    \/ publish_to_cache(w) \/ CopyDone(w) \/ UploadImage(w) \/ ReportImage(w)
    \/ JobCompletes(w)

(***************************************************************************)
(* The pods of a Workshop, suspended and resumed at will.                   *)
(***************************************************************************)
StartPod(w) ==
    /\ copy[w] # 0
    /\ w \in conf.running
    /\ pod[w] = "none"
    /\ pod' = [pod EXCEPT ![w] = "starting"]
    /\ UNCHANGED <<cacheVars, faults, conf, image, made, control, grants, key,
                   job, condition, builder, registry, status, copy>>

\* vm-supervisor opens the file of the digest on the volume, for a boot as
\* for a resumption; without it, it exits and its container starts over.
Boot(w) ==
    /\ pod[w] = "starting"
    /\ Published(copy[w])
    /\ pod' = [pod EXCEPT ![w] = "up"]
    /\ UNCHANGED <<cacheVars, faults, conf, image, made, control, grants, key,
                   job, condition, builder, registry, status, copy>>

StopPod(w) ==
    /\ pod[w] # "none"
    /\ pod' = [pod EXCEPT ![w] = "none"]
    /\ UNCHANGED <<cacheVars, faults, conf, image, made, control, grants, key,
                   job, condition, builder, registry, status, copy>>

(***************************************************************************)
(* The specification.  Fairness: the controller polls, the pods and the     *)
(* builder VM run, the watch delivers, the eviction Job proceeds; faults    *)
(* and the user's StopPod need not happen.                                  *)
(***************************************************************************)
Controller(w) == MintKey(w) \/ CreateJob(w) \/ ReadJob(w)

Next ==
    \/ \E w \in Workshops :
        \/ MintKey(w) \/ CreateJob(w) \/ ReadJob(w) \/ Watch(w)
        \/ ControllerFails(w) \/ BuilderVm(w) \/ BuilderVmHangs(w)
        \/ BuildStep(w) \/ BuilderKilled(w)
        \/ StartPod(w) \/ Boot(w) \/ StopPod(w)
    \/ /\ conf.s3 /\ (Evict \/ EvictionStopped)
       /\ UNCHANGED buildVars

Fairness ==
    \A w \in Workshops :
        /\ WF_vars(Controller(w))
        /\ WF_vars(Watch(w))
        /\ WF_vars(BuilderVm(w) \/ BuildStep(w))
        /\ WF_vars(StartPod(w) \/ Boot(w))

Spec == Init /\ [][Next]_vars /\ Fairness

(***************************************************************************)
(* Properties.                                                              *)
(***************************************************************************)
\* An image the status names is whole on the volume, or has left it and is
\* whole in the bucket: neither the eviction (mc stat before rm -rf), nor a
\* killed attempt, nor an upload that fails loses it or leaves a stump in its
\* place.  For a digest packaged by a single build: publish_to_cache takes
\* any file under the digest for the image.
ReportedIsKept ==
    \A w \in Workshops :
        (status[w] # <<>> /\ made[status[w].digest] = 1) =>
            LET d == status[w].digest
            IN  \/ file[d] = "whole"
                \/ file[d] = "absent" /\ object[d] = "whole"

\* What the status announces, the image serves: it has an init that runs the
\* units, what the start scripts need, the units of the announced ports, and
\* an account that sshd accepts with the environment of the pod, whichever
\* tools, init and accounts the devcontainer brought and whichever attempt
\* built it.  A base image without systemd whose /sbin is an absolute link is
\* left out: ensure_init_system writes its init outside the tree, and
\* check_boot_prerequisites asks for /sbin/init only next to systemd.
AnnouncedIsServed ==
    \A w \in Workshops :
        status[w] # <<>> => Served(image[status[w].digest], status[w].ports)

\* A build comes to an end for the user: the status names an image, or the
\* Job has failed, its condition gives the last reason known, and the key of
\* the build is revoked; hung VMs, killed attempts and refused calls only
\* delay it.
Settled(w) ==
    \/ status[w] # <<>>
    \/ /\ job_failed(w)
       /\ condition[w] = job[w].message
       /\ key[w] = 0

BuildSettles == \A w \in Workshops : Asked(w) => <>[]Settled(w)

\* docs/specs/13-image-cache-offload.md calls the bucket "la source durable"
\* that an evicted image is pulled back from: a pod whose image is whole in
\* the bucket comes up, unless it is stopped first.
EvictedImageBoots ==
    \A w \in Workshops :
        (pod[w] = "starting" /\ object[copy[w]] = "whole")
            ~> pod[w] # "starting"
=============================================================================
