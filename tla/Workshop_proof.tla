-------------------------- MODULE Workshop_proof --------------------------
(***************************************************************************)
(* Five safety properties of the reconciliation of a Workshop, for any     *)
(* number of changes of its spec and of incidents: the image is never      *)
(* lost, the OpenBao role does not outlive the Workshop, the controller    *)
(* only stops a pod for a suspension; and while nothing interfered,        *)
(* Running is said after the guest answered, and Suspended with the digest *)
(* of the snapshot.                                                        *)
(***************************************************************************)
EXTENDS Workshop, TLAPS

Status == [phase : {"Pending", "BuildingImage", "Provisioning", "Running", "Suspending",
                    "Suspended", "Resuming", "Failed"},
           podName : {"none", "parent"}, image : {"none", "built"}, snapshot : Nat,
           upgrade : {"none", "NeedsRestartForUpgrade"},
           conds : SUBSET {"ImageBuildFailed", "SecurityLockdown"}]

Object == [desired : {"Running", "Suspended"}, generation : Nat, finalizer : BOOLEAN,
           life : {"live", "deleting", "gone"}, status : Status]

Pod == [uid : Nat, for : Nat, hash : Nat, phase : {"none", "Pending", "Running", "Failed"},
        guest : {"booting", "up", "restarting"}, locked : BOOLEAN, stopping : BOOLEAN]

\* The reconciliation of a Workshop that has its finalizer.
Adopted == {"suspend", "snapshot", "release", "build", "prepare", "ensure", "probe", "patch"}

ObjectsInv == object \in Object /\ cache \in Object /\ seen \in Object
PodsInv == pod \in Pod /\ current \in Pod /\ pods \in Nat /\ template \in Nat
ReplyInv == reply \in Status /\ outcome \in Nat /\ taken \in Nat /\ disk \in Nat
StepInv == pc \in Adopted \cup {"idle", "adopt", "cleanup", "unfinalize"}

TypeInv == ObjectsInv /\ PodsInv /\ ReplyInv /\ StepInv

\* The initial values have their types.
LEMMA NewTypes == NewStatus \in Status /\ NewObject \in Object /\ NoPod \in Pod
  BY DEF NewStatus, NewObject, NoPod, Status, Object, Pod

\* update_status: the patch of a well formed status is one, and keeps the image.
LEMMA MergedStatus ==
    ASSUME NEW old \in Status, NEW new \in Status
    PROVE  Merged(old, new) \in Status
           /\ (old.image = "built" => Merged(old, new).image = "built")
<1> DEFINE image == IF new.image = "none" THEN old.image ELSE new.image
           snapshot == IF new.snapshot = 0 THEN old.snapshot ELSE new.snapshot
           upgrade == IF new.upgrade = "none" THEN old.upgrade ELSE new.upgrade
           conds == old.conds \cup new.conds
<1>1. Merged(old, new) = [new EXCEPT !.image = image, !.snapshot = snapshot,
                                     !.upgrade = upgrade, !.conds = conds]
  BY DEF Merged
<1>2. /\ image \in {"none", "built"} /\ (old.image = "built" => image = "built")
      /\ snapshot \in Nat /\ upgrade \in {"none", "NeedsRestartForUpgrade"}
  BY DEF Status
<1>3. conds \in SUBSET {"ImageBuildFailed", "SecurityLockdown"}
  BY DEF Status
<1> HIDE DEF image, snapshot, upgrade, conds
<1>4. QED
  BY <1>1, <1>2, <1>3 DEF Status

\* A status carried forward is a status.
LEMMA CarriedStatus ==
    ASSUME NEW view \in Object,
           NEW phase \in {"BuildingImage", "Provisioning", "Running", "Suspending",
                          "Suspended", "Resuming", "Failed"}
    PROVE  carry_forward_status(view, phase) \in Status
<1>1. view.status \in Status
  BY DEF Object
<1>2. QED
  BY <1>1 DEF carry_forward_status, Status

-----------------------------------------------------------------------------
(* Types, one group of variables at a time.                                 *)

\* Every step keeps the types of the three copies of the Workshop.
LEMMA ObjectsStep ==
    ASSUME TypeInv, [Next]_vars
    PROVE  ObjectsInv'
<1> USE DEF TypeInv, ObjectsInv
<1>1. CASE SetDesired
  <2> DEFINE d == IF object.desired = "Running" THEN "Suspended" ELSE "Running"
             g == object.generation + 1
  <2>1. /\ object' = [object EXCEPT !.desired = d, !.generation = g]
        /\ UNCHANGED <<cache, seen>>
    BY <1>1 DEF SetDesired, work
  <2>2. d \in {"Running", "Suspended"} /\ g \in Nat
    BY DEF Object
  <2> HIDE DEF d, g
  <2>3. QED
    BY <2>1, <2>2 DEF Object
<1>2. CASE Delete
  BY <1>2 DEF Delete, Object, work
<1>3. CASE JobEnds
  <2>1. UNCHANGED <<cache, seen>>
    BY <1>3 DEF JobEnds, work
  <2>2. object' = object \/ object' = [object EXCEPT !.status = [object.status EXCEPT !.image = "built"]]
    BY <1>3 DEF JobEnds
  <2>3. [object.status EXCEPT !.image = "built"] \in Status
    BY DEF Object, Status
  <2>4. QED
    BY <2>1, <2>2, <2>3 DEF Object
<1>4. CASE Observe \/ Upgrade
  BY <1>4 DEF Observe, Upgrade, cluster, work
<1>5. CASE Begin
  BY <1>5 DEF Begin, cluster
<1>6. CASE Adopt
  <2>1. cache' = cache /\ seen' = NewObject
    BY <1>6 DEF Adopt, Done
  <2>2. object' = object \/ object' = [object EXCEPT !.finalizer = TRUE]
    BY <1>6 DEF Adopt
  <2>3. QED
    BY <2>1, <2>2, NewTypes DEF Object
<1>7. CASE PatchStatus
  <2>1. cache' = cache /\ seen' = NewObject
    BY <1>7 DEF PatchStatus, Done
  <2>2. object' = object \/ object' = [object EXCEPT !.status = Merged(object.status, reply)]
    BY <1>7 DEF PatchStatus
  <2>3. Merged(object.status, reply) \in Status
    BY MergedStatus DEF ReplyInv, Object
  <2>4. QED
    BY <2>1, <2>2, <2>3, NewTypes DEF Object
<1>8. CASE Unfinalize
  <2>1. /\ cache' = cache /\ seen' = NewObject
        /\ object' = [object EXCEPT !.finalizer = FALSE, !.life = "gone"]
    BY <1>8 DEF Unfinalize, Done
  <2>2. QED
    BY <2>1, NewTypes DEF Object
<1>9. CASE Fail \/ Release
  BY <1>9, NewTypes DEF Fail, Release, Done
<1>10. CASE \/ Suspend \/ RequestSnapshot \/ Build \/ Prepare \/ EnsurePod \/ Probe \/ Cleanup
  BY <1>10 DEF Suspend, RequestSnapshot, Build, Prepare, EnsurePod, Probe, Cleanup, cluster
<1>11. CASE \/ PodStarts \/ GuestAnswers \/ PodStops \/ Disturb \/ GarbageCollect
            \/ Lockdown \/ PurgeRuns \/ UNCHANGED vars
  BY <1>11 DEF PodStarts, GuestAnswers, PodStops, Disturb, GarbageCollect, Lockdown,
               PurgeRuns, vars, cluster, work
<1>12. QED
  BY <1>1, <1>2, <1>3, <1>4, <1>5, <1>6, <1>7, <1>8, <1>9, <1>10, <1>11 DEF Next, Reconcile

\* Every step keeps the types of the two copies of the pod.
LEMMA PodsStep ==
    ASSUME TypeInv, [Next]_vars
    PROVE  PodsInv'
<1> USE DEF TypeInv, PodsInv
<1>1. CASE PodStarts \/ GuestAnswers
  BY <1>1 DEF PodStarts, GuestAnswers, Pod, work, history
<1>2. CASE PodStops
  BY <1>2, NewTypes DEF PodStops, work, history
<1>3. CASE Disturb \/ GarbageCollect
  <2>1. UNCHANGED <<current, pods, template>>
    BY <1>3 DEF Disturb, GarbageCollect, work, history
  <2>2. \/ pod' = NoPod \/ pod' = [pod EXCEPT !.stopping = TRUE]
        \/ pod' = [pod EXCEPT !.phase = "Failed"]
    BY <1>3 DEF Disturb, GarbageCollect
  <2>3. QED
    BY <2>1, <2>2, NewTypes DEF Pod
<1>4. CASE Lockdown
  BY <1>4 DEF Lockdown, Pod, work
<1>5. CASE Upgrade
  BY <1>5 DEF Upgrade, cluster, work
<1>6. CASE Suspend
  BY <1>6 DEF Suspend, cluster, history
<1>7. CASE RequestSnapshot
  <2> DEFINE guest == IF pod.guest = "up" THEN "restarting" ELSE pod.guest
  <2>1. UNCHANGED <<current, pods, template>>
    BY <1>7 DEF RequestSnapshot
  <2>2. pod' = pod \/ pod' = [pod EXCEPT !.locked = FALSE, !.guest = guest]
    BY <1>7 DEF RequestSnapshot
  <2>3. guest \in {"booting", "up", "restarting"}
    BY DEF Pod
  <2> HIDE DEF guest
  <2>4. QED
    BY <2>1, <2>2, <2>3 DEF Pod
<1>8. CASE Release
  <2>1. UNCHANGED <<pods, template>> /\ current' \in {current, NoPod}
    BY <1>8 DEF Release, Done, history
  <2>2. pod' = pod \/ pod' = [pod EXCEPT !.stopping = TRUE]
    BY <1>8 DEF Release
  <2>3. QED
    BY <2>1, <2>2, NewTypes DEF Pod
<1>9. CASE EnsurePod
  <2>1. FreshPod \in Pod
    BY DEF FreshPod, Pod, ObjectsInv, Object
  <2>2. QED
    BY <1>9, <2>1 DEF EnsurePod
<1>10. CASE Fail \/ Adopt \/ PatchStatus \/ Unfinalize
  BY <1>10, NewTypes DEF Fail, Adopt, PatchStatus, Unfinalize, Done, history
<1>11. CASE Begin \/ Build \/ Prepare \/ Probe \/ Cleanup
  BY <1>11 DEF Begin, Build, Prepare, Probe, Cleanup, cluster, history
<1>12. CASE SetDesired \/ Delete \/ JobEnds \/ Observe \/ PurgeRuns \/ UNCHANGED vars
  BY <1>12 DEF SetDesired, Delete, JobEnds, Observe, PurgeRuns, vars, cluster, work, history
<1>13. QED
  BY <1>1, <1>2, <1>3, <1>4, <1>5, <1>6, <1>7, <1>8, <1>9, <1>10, <1>11, <1>12
     DEF Next, Reconcile

\* Every step keeps the type of the reply.
LEMMA ReplyStep ==
    ASSUME TypeInv, [Next]_vars
    PROVE  ReplyInv'
<1> USE DEF TypeInv, ReplyInv
<1>0. Published => disk' \in Nat /\ taken' \in Nat
  BY DEF Published
<1>1. CASE Lockdown \/ PurgeRuns
  BY <1>0, <1>1 DEF Lockdown, PurgeRuns, work, history
<1>2. CASE Fail \/ Adopt \/ PatchStatus \/ Unfinalize
  BY <1>2, NewTypes DEF Fail, Adopt, PatchStatus, Unfinalize, Done, history
<1>3. CASE RequestSnapshot
  BY <1>0, <1>3 DEF RequestSnapshot
<1>4. CASE Suspend
  <2> DEFINE phase == IF pod = NoPod THEN "Suspended" ELSE "Suspending"
             carried == carry_forward_status(seen, phase)
  <2>1. carried \in Status
    BY CarriedStatus DEF ObjectsInv
  <2>2. reply' = reply \/ reply' = [carried EXCEPT !.podName = "none"]
    BY <1>4 DEF Suspend
  <2> HIDE DEF carried
  <2>3. UNCHANGED <<outcome, taken, disk>>
    BY <1>4 DEF Suspend, cluster, history
  <2>4. QED
    BY <2>1, <2>2, <2>3 DEF Status
<1>5. CASE Release
  <2> DEFINE carried == carry_forward_status(seen, "Suspending")
  <2>1. carried \in Status
    BY CarriedStatus DEF ObjectsInv
  <2>2. reply' = NewStatus \/ reply' = [carried EXCEPT !.podName = "none", !.snapshot = outcome]
    BY <1>5 DEF Release, Done
  <2> HIDE DEF carried
  <2>3. UNCHANGED <<outcome, taken, disk>>
    BY <1>5 DEF Release, history
  <2>4. QED
    BY <2>1, <2>2, <2>3, NewTypes DEF Status
<1>6. CASE Build
  <2> DEFINE failed == carry_forward_status(seen, "Failed")
             building == carry_forward_status(seen, "BuildingImage")
  <2>1. failed \in Status /\ building \in Status
    BY CarriedStatus DEF ObjectsInv
  <2>2. reply' = building \/ reply' = [failed EXCEPT !.conds = {"ImageBuildFailed"}]
    BY <1>6 DEF Build
  <2> HIDE DEF failed, building
  <2>3. UNCHANGED <<outcome, taken, disk>>
    BY <1>6 DEF Build, history
  <2>4. QED
    BY <2>1, <2>2, <2>3 DEF Status
<1>7. CASE Probe
  <2> DEFINE phase == IF Ready THEN "Running"
                      ELSE IF seen.status.phase \in {"Suspended", "Suspending"}
                      THEN "Resuming" ELSE "Provisioning"
             carried == carry_forward_status(seen, phase)
             upgrade == IF current.hash = template THEN "none" ELSE "NeedsRestartForUpgrade"
  <2>1. phase \in {"Running", "Resuming", "Provisioning"}
    OBVIOUS
  <2>2. UNCHANGED <<outcome, taken, disk>>
    BY <1>7 DEF Probe, cluster, history
  <2>3. PICK conds \in {{}, {"SecurityLockdown"}} :
            reply' = [carried EXCEPT !.podName = "parent", !.upgrade = upgrade, !.conds = conds]
    BY <1>7 DEF Probe
  <2> HIDE DEF phase
  <2>4. carried \in Status
    BY <2>1, CarriedStatus DEF ObjectsInv
  <2>5. upgrade \in {"none", "NeedsRestartForUpgrade"}
    OBVIOUS
  <2> HIDE DEF carried, upgrade
  <2>6. QED
    BY <2>2, <2>3, <2>4, <2>5 DEF Status
<1>8. CASE Begin \/ Prepare \/ EnsurePod \/ Cleanup \/ Upgrade \/ Observe
  BY <1>8 DEF Begin, Prepare, EnsurePod, Cleanup, Upgrade, Observe, cluster, work, history
<1>9. CASE \/ PodStarts \/ GuestAnswers \/ PodStops \/ Disturb \/ GarbageCollect
           \/ SetDesired \/ Delete \/ JobEnds \/ UNCHANGED vars
  BY <1>9 DEF PodStarts, GuestAnswers, PodStops, Disturb, GarbageCollect, SetDesired, Delete,
              JobEnds, vars, cluster, work, history
<1>10. QED
  BY <1>1, <1>2, <1>3, <1>4, <1>5, <1>6, <1>7, <1>8, <1>9 DEF Next, Reconcile

\* What the environment does leaves the reconciliation where it is.
Outside ==
    \/ Observe \/ Upgrade \/ SetDesired \/ Delete \/ PodStarts \/ GuestAnswers \/ PodStops
    \/ Disturb \/ GarbageCollect \/ Lockdown \/ JobEnds \/ PurgeRuns

\* The cluster and the users do not touch what the reconciliation holds.
LEMMA OutsideMoves ==
    ASSUME Outside \/ UNCHANGED vars
    PROVE  UNCHANGED <<pc, seen, current, reply, asked, role>>
<1>1. CASE Observe \/ Upgrade \/ SetDesired \/ Delete \/ JobEnds
  BY <1>1 DEF Observe, Upgrade, SetDesired, Delete, JobEnds, cluster, work, history
<1>2. CASE PodStarts \/ GuestAnswers \/ PodStops \/ Disturb
  BY <1>2 DEF PodStarts, GuestAnswers, PodStops, Disturb, work, history
<1>3. CASE GarbageCollect \/ Lockdown \/ PurgeRuns \/ UNCHANGED vars
  BY <1>3 DEF GarbageCollect, Lockdown, PurgeRuns, vars, cluster, work, history
<1>4. QED
  BY <1>1, <1>2, <1>3 DEF Outside

\* A reconciliation that ends, by its last call or by a failure.
Ends == Adopt \/ PatchStatus \/ Unfinalize \/ Fail \/ (Release /\ pod = NoPod)

\* One that goes on, in the order of the calls of the code.
Advances ==
    /\ UNCHANGED <<seen, object, cache>>
    /\ \/ pc = "suspend" /\ pc' \in {"snapshot", "patch"} /\ Suspend
       \/ pc = "snapshot" /\ pc' = "release" /\ RequestSnapshot
       \/ pc = "release" /\ pc' = "patch" /\ Release /\ pod # NoPod
       \/ pc = "build" /\ pc' = "patch" /\ Build
       \/ pc = "prepare" /\ pc' = "ensure" /\ Prepare
       \/ pc = "ensure" /\ pc' = "probe" /\ EnsurePod
       \/ pc = "probe" /\ pc' = "patch" /\ Probe
       \/ pc = "cleanup" /\ pc' = "unfinalize" /\ Cleanup

\* A step is the cluster's or the users', or begins, ends or advances a
\* reconciliation.
LEMMA Moves ==
    ASSUME [Next]_vars
    PROVE  Outside \/ UNCHANGED vars \/ Begin \/ Ends \/ Advances
<1>1. CASE Suspend \/ Probe
  BY <1>1 DEF Suspend, Probe, Advances, cluster
<1>2. CASE RequestSnapshot \/ Build \/ Prepare
  BY <1>2 DEF RequestSnapshot, Build, Prepare, Advances
<1>3. CASE EnsurePod \/ Cleanup
  BY <1>3 DEF EnsurePod, Cleanup, Advances
<1>4. CASE Release /\ pod # NoPod
  BY <1>4 DEF Release, Advances
<1> HIDE DEF Advances
<1>5. QED
  BY <1>1, <1>2, <1>3, <1>4 DEF Next, Reconcile, Outside, Ends

\* A reconciliation that ends forgets its copy.
LEMMA EndMoves ==
    ASSUME Ends
    PROVE  pc' = "idle" /\ seen' = NewObject /\ UNCHANGED <<cache, pod>>
  BY DEF Ends, Adopt, PatchStatus, Unfinalize, Fail, Release, Done

\* A reconciliation begins with the cached copy, and the copy tells the
\* branch.
LEMMA BeginMoves ==
    ASSUME Begin, ObjectsInv
    PROVE  /\ pc = "idle" /\ seen' = cache /\ UNCHANGED <<object, cache, pod, role, asked>>
           /\ pc' \in {"cleanup", "adopt", "suspend", "build", "prepare"}
           /\ pc' = "cleanup" <=> cache.life = "deleting"
           /\ pc' \in {"suspend", "build", "prepare"} => cache.finalizer /\ cache.life = "live"
           /\ pc' = "suspend" => cache.desired = "Suspended"
           /\ pc' \in {"build", "prepare"} => cache.desired # "Suspended"
<1>1. /\ pc = "idle" /\ seen' = cache /\ pc' = Branch(cache)
      /\ cache.life # "gone" /\ UNCHANGED <<object, cache, pod, role, asked>>
  BY DEF Begin, cluster
<1>2. cache.life \in {"live", "deleting"}
  BY <1>1 DEF ObjectsInv, Object
<1>3. cache.life = "deleting" => Branch(cache) = "cleanup"
  BY DEF Branch
<1>4. cache.life = "live" /\ ~cache.finalizer => Branch(cache) = "adopt"
  BY DEF Branch
<1>5. cache.life = "live" /\ cache.finalizer /\ cache.desired = "Suspended"
        => Branch(cache) = "suspend"
  BY DEF Branch
<1>6. cache.life = "live" /\ cache.finalizer /\ cache.desired # "Suspended"
        => Branch(cache) \in {"build", "prepare"}
  BY DEF Branch
<1> HIDE DEF Branch
<1>7. QED
  BY <1>1, <1>2, <1>3, <1>4, <1>5, <1>6

\* Every step keeps what the control point says of the copy in use.
LEMMA StepStep ==
    ASSUME TypeInv, [Next]_vars
    PROVE  StepInv'
<1>1. CASE Outside \/ UNCHANGED vars
  BY <1>1, OutsideMoves DEF TypeInv, StepInv
<1>2. CASE Begin
  BY <1>2, BeginMoves DEF TypeInv, StepInv, Adopted
<1>3. CASE Ends
  BY <1>3, EndMoves DEF StepInv
<1>4. CASE Advances
  BY <1>4 DEF Advances, StepInv, Adopted
<1>5. QED
  BY <1>1, <1>2, <1>3, <1>4, Moves

\* Every step keeps the types.
LEMMA TypeStep == TypeInv /\ [Next]_vars => TypeInv'
  BY ObjectsStep, PodsStep, ReplyStep, StepStep DEF TypeInv

\* The types hold initially.
LEMMA InitTypes == Init => TypeInv
  BY NewTypes DEF Init, TypeInv, ObjectsInv, PodsInv, ReplyInv, StepInv

-----------------------------------------------------------------------------
(* The image.                                                               *)

\* merge_patch: a controller that reconciles an older copy of the Workshop sends
\* no image, and an absent field is left alone.
THEOREM ImageIsKept == Spec => ImageKept
<1>1. ASSUME TypeInv, [Next]_vars, object.status.image = "built"
      PROVE  object'.status.image = "built"
  <2>1. CASE UNCHANGED object
    BY <1>1, <2>1
  <2>2. CASE SetDesired \/ Delete \/ Adopt \/ Unfinalize
    <3>1. object'.status = object.status
      BY <1>1, <2>2 DEF SetDesired, Delete, Adopt, Unfinalize, TypeInv, ObjectsInv, Object
    <3>2. QED
      BY <1>1, <3>1
  <2>3. CASE JobEnds
    BY <1>1, <2>3 DEF JobEnds, TypeInv, ObjectsInv, Object, Status
  <2>4. CASE PatchStatus
    <3>1. object' = object \/ object' = [object EXCEPT !.status = Merged(object.status, reply)]
      BY <2>4 DEF PatchStatus
    <3>2. Merged(object.status, reply).image = "built"
      BY <1>1, MergedStatus DEF TypeInv, ObjectsInv, ReplyInv, Object
    <3>3. QED
      BY <1>1, <3>1, <3>2 DEF TypeInv, ObjectsInv, Object
  <2>5. CASE Begin \/ Advances \/ Fail \/ Release
    BY <2>1, <2>5 DEF Begin, Advances, Fail, Release, cluster
  <2>6. CASE Observe \/ Upgrade \/ PodStarts \/ GuestAnswers \/ PodStops \/ Disturb
    BY <2>1, <2>6 DEF Observe, Upgrade, PodStarts, GuestAnswers, PodStops, Disturb, cluster
  <2>7. CASE GarbageCollect \/ Lockdown \/ PurgeRuns \/ UNCHANGED vars
    BY <2>1, <2>7 DEF GarbageCollect, Lockdown, PurgeRuns, vars, cluster
  <2>8. QED
    BY <1>1, <2>2, <2>3, <2>4, <2>5, <2>6, <2>7, Moves DEF Outside, Ends
<1>2. QED
  BY <1>1, InitTypes, TypeStep, PTL DEF Spec, ImageKept

-----------------------------------------------------------------------------
(* The OpenBao role.                                                        *)

\* The role exists only under the finalizer, and a copy of the Workshop that
\* would have it written is no longer in use once the cleanup has begun.
RoleInv ==
    /\ role \in BOOLEAN
    /\ role => object.finalizer
    /\ object.finalizer => object.life # "gone"
    /\ cache.finalizer /\ cache.life = "live" => object.finalizer
    /\ cache.life # "live" => object.life # "live"
    /\ pc \in Adopted => object.finalizer
    /\ pc \in {"cleanup", "unfinalize"} => object.life # "live" /\ cache.life # "live"
    /\ pc = "unfinalize" => ~role

\* Every step keeps the role under the finalizer.
LEMMA RoleStep ==
    ASSUME TypeInv, RoleInv, [Next]_vars
    PROVE  RoleInv'
<1>1. CASE Delete
  <2>1. /\ object.life = "live" /\ object'.life # "live" /\ object'.finalizer = object.finalizer
        /\ object.finalizer => object'.life # "gone"
    BY <1>1 DEF Delete, TypeInv, ObjectsInv, Object
  <2>2. UNCHANGED <<role, cache, pc>>
    BY <1>1 DEF Delete, work
  <2>3. QED
    BY <2>1, <2>2 DEF RoleInv
<1>2. CASE Adopt
  <2>1. pc' = "idle" /\ UNCHANGED <<role, cache>>
    BY <1>2 DEF Adopt, Done
  <2>2. object' = object \/ (object.life = "live" /\ object'.life = "live" /\ object'.finalizer)
    BY <1>2 DEF Adopt, TypeInv, ObjectsInv, Object
  <2>3. QED
    BY <2>1, <2>2 DEF RoleInv, Adopted
<1>3. CASE Unfinalize
  <2>1. /\ pc = "unfinalize" /\ pc' = "idle" /\ UNCHANGED <<role, cache>>
        /\ object'.life = "gone" /\ object'.finalizer = FALSE
    BY <1>3 DEF Unfinalize, Done, TypeInv, ObjectsInv, Object
  <2>2. QED
    BY <2>1 DEF RoleInv, Adopted
<1>4. CASE Observe \/ Upgrade
  <2>1. cache' = object /\ UNCHANGED <<object, role, pc>>
    BY <1>4 DEF Observe, Upgrade, cluster, work
  <2>2. QED
    BY <2>1 DEF RoleInv
<1> DEFINE Still == UNCHANGED <<cache, object.finalizer, object.life>>
<1>5. ASSUME Still, UNCHANGED <<pc, role>> PROVE RoleInv'
  BY <1>5 DEF RoleInv
<1>6. ASSUME Still, pc' = "idle", role' = role \/ (role' = TRUE /\ pc \in Adopted) PROVE RoleInv'
  <2>1. role' \in BOOLEAN /\ (role' => object.finalizer)
    <3>1. CASE role' = role
      BY <3>1 DEF RoleInv
    <3>2. CASE role' = TRUE /\ pc \in Adopted
      BY <3>2 DEF RoleInv
    <3>3. QED
      BY <1>6, <3>1, <3>2
  <2>2. pc' \notin Adopted \cup {"cleanup", "unfinalize"}
    BY <1>6 DEF Adopted
  <2>3. QED
    BY <1>6, <2>1, <2>2 DEF RoleInv
<1>7. ASSUME Still, pc \in Adopted, pc' \in Adopted, role' \in {role, TRUE} PROVE RoleInv'
  BY <1>7 DEF RoleInv, Adopted
<1>8. CASE SetDesired \/ JobEnds
  BY <1>5, <1>8 DEF SetDesired, JobEnds, TypeInv, ObjectsInv, Object, work
<1>9. CASE PatchStatus
  BY <1>6, <1>9 DEF PatchStatus, Done, TypeInv, ObjectsInv, Object
<1>10. CASE Fail
  <2>1. Still /\ pc' = "idle" /\ role' = (role \/ pc \in {"build", "prepare"})
    BY <1>10 DEF Fail, Done
  <2>2. role' = role \/ (role' = TRUE /\ pc \in Adopted)
    BY <2>1 DEF RoleInv, Adopted
  <2>3. QED
    BY <1>6, <2>1, <2>2
<1>11. CASE Release /\ pod = NoPod
  BY <1>6, <1>11 DEF Release, Done
<1>12. CASE Advances /\ pc # "cleanup"
  <2>1. Still /\ pc \in Adopted /\ pc' \in Adopted
    BY <1>12 DEF Advances, Adopted
  <2>2. role' \in {role, TRUE}
    BY <1>12 DEF Advances, Suspend, RequestSnapshot, Release, Build, Prepare, EnsurePod, Probe,
                 cluster
  <2>3. QED
    BY <1>7, <2>1, <2>2
<1>13. CASE Advances /\ pc = "cleanup"
  <2>1. Still /\ pc' = "unfinalize" /\ role' = FALSE
    BY <1>13 DEF Advances, Cleanup
  <2>2. QED
    BY <1>13, <2>1 DEF RoleInv, Adopted
<1>14. CASE Begin
  BY <1>14, BeginMoves DEF RoleInv, TypeInv, Adopted
<1>15. CASE \/ PodStarts \/ GuestAnswers \/ PodStops \/ Disturb
  BY <1>5, <1>15 DEF PodStarts, GuestAnswers, PodStops, Disturb, work
<1>16. CASE GarbageCollect \/ Lockdown \/ PurgeRuns \/ UNCHANGED vars
  BY <1>5, <1>16 DEF GarbageCollect, Lockdown, PurgeRuns, vars, cluster, work
<1>17. QED
  BY <1>1, <1>2, <1>3, <1>4, <1>8, <1>9, <1>10, <1>11, <1>12, <1>13, <1>14, <1>15, <1>16, Moves
     DEF Outside, Ends

\* Initially there is no role.
LEMMA InitRole == Init => RoleInv
<1> SUFFICES ASSUME Init PROVE RoleInv
  OBVIOUS
<1>1. role = FALSE /\ cache = object /\ pc = "idle"
  BY DEF Init
<1>2. object.finalizer = FALSE /\ object.life = "live"
  BY DEF Init, NewObject
<1>3. QED
  BY <1>1, <1>2, Zenon DEF RoleInv, Adopted

\* cleanup: nothing writes the role of a Workshop that is gone, whatever copy of
\* it the controller still has in its cache.
THEOREM RoleDoesNotSurvive == Spec => []RoleGoneWithWorkshop
<1>1. Init => RoleInv
  BY InitRole
<1>2. TypeInv /\ RoleInv /\ [Next]_vars => RoleInv'
  BY RoleStep
<1>3. RoleInv => RoleGoneWithWorkshop
  BY DEF RoleInv, RoleGoneWithWorkshop
<1>4. QED
  BY <1>1, <1>2, <1>3, InitTypes, TypeStep, PTL DEF Spec

-----------------------------------------------------------------------------
(* The pod is stopped for a suspension only.                                *)

\* A copy of the Workshop is never ahead of what it was copied from, and is of
\* the same generation only if the same state is asked for.
Older(a, b) ==
    a.generation <= b.generation /\ (a.generation = b.generation => a.desired = b.desired)

\* The pod was made for a generation of that copy or before it, one that asked
\* for a pod.
MadeFor(p, view) ==
    p # NoPod => /\ p.for <= view.generation
                 /\ p.for = view.generation => view.desired = "Running"

StopInv ==
    /\ Older(cache, object) /\ MadeFor(pod, object) /\ MadeFor(pod, cache)
    /\ pc # "idle" => Older(seen, cache) /\ MadeFor(pod, seen)
    /\ pc \in {"suspend", "snapshot", "release"} => seen.desired = "Suspended"
    /\ pc \in {"prepare", "ensure"} => seen.desired = "Running"
    /\ pc \in {"snapshot", "release"} /\ pod # NoPod => pod.uid = current.uid
    /\ pc = "release" => asked = current.uid

\* Only EnsurePod makes a pod: any other step changes no identity.
LEMMA PodMoves ==
    ASSUME TypeInv, [Next]_vars
    PROVE  \/ pod' = NoPod
           \/ pod # NoPod /\ pod'.for = pod.for /\ pod'.uid = pod.uid
           \/ pc = "ensure" /\ pc' = "probe" /\ pod'.for = seen.generation /\ pod'.uid = pods + 1
<1> USE DEF TypeInv, PodsInv
<1>1. CASE UNCHANGED pod
  BY <1>1
<1>2. CASE PodStarts \/ GuestAnswers \/ Lockdown
  BY <1>2 DEF PodStarts, GuestAnswers, Lockdown, Pod, NoPod
<1>3. CASE PodStops
  BY <1>3 DEF PodStops
<1>4. CASE Disturb \/ GarbageCollect
  BY <1>4 DEF Disturb, GarbageCollect, Pod
<1>5. CASE RequestSnapshot
  <2> DEFINE guest == IF pod.guest = "up" THEN "restarting" ELSE pod.guest
  <2>1. \/ UNCHANGED pod
        \/ pod.phase = "Running" /\ pod' = [pod EXCEPT !.locked = FALSE, !.guest = guest]
    BY <1>5 DEF RequestSnapshot
  <2>2. pod = NoPod => pod.phase # "Running"
    BY DEF NoPod
  <2> HIDE DEF guest
  <2>3. QED
    BY <1>1, <2>1, <2>2, Zenon DEF Pod
<1>6. CASE Release
  BY <1>1, <1>6 DEF Release, Pod
<1>7. CASE EnsurePod
  BY <1>1, <1>7 DEF EnsurePod, FreshPod
<1>8. CASE Begin \/ Adopt \/ PatchStatus \/ Unfinalize \/ Fail \/ Suspend \/ Probe
  BY <1>1, <1>8 DEF Begin, Adopt, PatchStatus, Unfinalize, Fail, Suspend, Probe, cluster
<1>9. CASE Build \/ Prepare \/ Cleanup \/ Observe \/ Upgrade \/ SetDesired
  BY <1>1, <1>9, Zenon DEF Build, Prepare, Cleanup, Observe, Upgrade, SetDesired, cluster
<1>10. CASE Delete \/ JobEnds \/ PurgeRuns \/ UNCHANGED vars
  BY <1>1, <1>10 DEF Delete, JobEnds, PurgeRuns, vars, cluster
<1>11. QED
  BY <1>2, <1>3, <1>4, <1>5, <1>6, <1>7, <1>8, <1>9, <1>10 DEF Next, Reconcile

\* Only the user changes what is asked for, and each time a new generation.
LEMMA ObjectMoves ==
    ASSUME TypeInv, [Next]_vars
    PROVE  \/ UNCHANGED <<object.generation, object.desired>>
           \/ object'.generation = object.generation + 1
<1> USE DEF TypeInv, ObjectsInv
<1>1. CASE UNCHANGED object
  BY <1>1
<1>2. CASE SetDesired
  BY <1>2 DEF SetDesired, Object
<1>3. CASE JobEnds
  BY <1>3 DEF JobEnds, Object
<1>4. CASE PatchStatus
  BY <1>4 DEF PatchStatus, Object
<1>5. CASE Delete \/ Adopt \/ Unfinalize
  BY <1>5, Zenon DEF Delete, Adopt, Unfinalize, Object
<1>6. CASE Begin \/ Advances \/ Fail \/ Release
  BY <1>1, <1>6 DEF Begin, Advances, Fail, Release, cluster
<1>7. CASE Observe \/ Upgrade \/ PodStarts \/ GuestAnswers \/ PodStops \/ Disturb
  BY <1>1, <1>7 DEF Observe, Upgrade, PodStarts, GuestAnswers, PodStops, Disturb, cluster
<1>8. CASE GarbageCollect \/ Lockdown \/ PurgeRuns \/ UNCHANGED vars
  BY <1>1, <1>8 DEF GarbageCollect, Lockdown, PurgeRuns, vars, cluster
<1>9. QED
  BY <1>2, <1>3, <1>4, <1>5, <1>6, <1>7, <1>8, Moves DEF Outside, Ends

\* The watch only ever delivers the Workshop as it is.
LEMMA CacheMoves ==
    ASSUME [Next]_vars
    PROVE  cache' = cache \/ (cache' = object /\ object' = object)
<1>1. CASE Observe \/ Upgrade
  BY <1>1 DEF Observe, Upgrade, cluster
<1>2. CASE Begin
  BY <1>2 DEF Begin
<1>3. CASE Ends
  BY <1>3, EndMoves
<1>4. CASE Advances
  BY <1>4 DEF Advances
<1>5. CASE SetDesired \/ Delete \/ PodStarts \/ GuestAnswers \/ PodStops
  BY <1>5 DEF SetDesired, Delete, PodStarts, GuestAnswers, PodStops
<1>6. CASE Disturb \/ GarbageCollect \/ Lockdown \/ JobEnds \/ PurgeRuns \/ UNCHANGED vars
  BY <1>6 DEF Disturb, GarbageCollect, Lockdown, JobEnds, PurgeRuns, vars
<1>7. QED
  BY <1>1, <1>2, <1>3, <1>4, <1>5, <1>6, Moves DEF Outside

\* Every step keeps the copies ordered and the pod for one that asked for
\* it.
LEMMA StopStep ==
    ASSUME TypeInv, StopInv, [Next]_vars
    PROVE  StopInv'
<1>0. ObjectsInv' /\ PodsInv' /\ StepInv'
  BY TypeStep DEF TypeInv
<1>1. \A v \in Object : v.generation \in Nat
  BY DEF Object
<1>2. Older(cache, object)'
  BY <1>0, <1>1, CacheMoves, ObjectMoves DEF StopInv, Older, TypeInv, ObjectsInv
<1>3. pc # "idle" => Older(seen, cache) /\ Older(seen, object)
  BY <1>1 DEF StopInv, Older, TypeInv, ObjectsInv
<1>4. ASSUME NEW v \in Object, MadeFor(pod, v), pc = "ensure" => Older(seen, v)
      PROVE  MadeFor(pod', v)
  <2>1. CASE pod' = NoPod
    BY <2>1 DEF MadeFor
  <2>2. CASE pod # NoPod /\ pod'.for = pod.for
    BY <1>4, <2>2 DEF MadeFor
  <2>3. CASE pc = "ensure" /\ pod'.for = seen.generation
    BY <1>4, <2>3 DEF MadeFor, Older, StopInv
  <2>4. QED
    BY <2>1, <2>2, <2>3, PodMoves
<1>5. MadeFor(pod', object) /\ MadeFor(pod', cache) /\ (pc # "idle" => MadeFor(pod', seen))
  <2>1. /\ object \in Object /\ cache \in Object /\ seen \in Object
        /\ MadeFor(pod, object) /\ MadeFor(pod, cache) /\ (pc # "idle" => MadeFor(pod, seen))
    BY DEF TypeInv, ObjectsInv, StopInv
  <2>2. Older(seen, seen)
    BY <1>1, <2>1 DEF Older
  <2>3. QED
    BY <1>3, <1>4, <2>1, <2>2
<1>6. MadeFor(pod, object)'
  <2>1. CASE UNCHANGED <<object.generation, object.desired>>
    BY <1>5, <2>1 DEF MadeFor
  <2>2. CASE object'.generation = object.generation + 1
    <3>1. object.generation \in Nat /\ pod'.for \in Nat
      BY <1>0 DEF TypeInv, ObjectsInv, PodsInv, Object, Pod
    <3>2. QED
      BY <1>5, <2>2, <3>1 DEF MadeFor
  <2>3. QED
    BY <2>1, <2>2, ObjectMoves
<1>7. MadeFor(pod, cache)'
  BY <1>5, CacheMoves
<1>8. pc' # "idle" => Older(seen, cache)' /\ MadeFor(pod, seen)'
  <2>1. CASE Begin
    <3>1. seen' = cache' /\ pod' = pod
      BY <2>1, BeginMoves DEF TypeInv
    <3>2. QED
      BY <1>0, <1>1, <1>7, <3>1 DEF Older, ObjectsInv
  <2>2. CASE UNCHANGED <<pc, seen>>
    BY <1>3, <1>5, <2>2, CacheMoves
  <2>3. CASE Advances
    <3>1. pc # "idle" /\ UNCHANGED <<seen, cache>>
      BY <2>3 DEF Advances
    <3>2. QED
      BY <1>3, <1>5, <3>1
  <2>4. QED
    BY <2>1, <2>2, <2>3, Moves, OutsideMoves, EndMoves
<1>9. /\ pc' \in {"suspend", "snapshot", "release"} => seen'.desired = "Suspended"
      /\ pc' \in {"prepare", "ensure"} => seen'.desired = "Running"
  <2>1. CASE Begin
    <3>1. cache.desired \in {"Running", "Suspended"}
      BY DEF TypeInv, ObjectsInv, Object
    <3>2. QED
      BY <2>1, <3>1, BeginMoves DEF TypeInv
  <2>2. CASE UNCHANGED <<pc, seen>>
    BY <2>2 DEF StopInv
  <2>3. CASE Advances
    BY <2>3 DEF Advances, StopInv
  <2>4. QED
    BY <2>1, <2>2, <2>3, Moves, OutsideMoves, EndMoves
<1>10. /\ pc' \in {"snapshot", "release"} /\ pod' # NoPod => pod'.uid = current'.uid
       /\ pc' = "release" => asked' = current'.uid
  <2>1. CASE Begin
    BY <2>1, BeginMoves DEF TypeInv
  <2>2. CASE UNCHANGED <<pc, current, asked>>
    BY <2>2, PodMoves DEF StopInv
  <2>3. CASE Advances
    <3>1. CASE pc' \notin {"snapshot", "release"}
      BY <3>1
    <3>2. CASE pc' = "snapshot"
      BY <2>3, <3>2 DEF Advances, Suspend, cluster
    <3>3. CASE pc' = "release"
      <4>1. pc = "snapshot" /\ asked' = current.uid /\ UNCHANGED current
        BY <2>3, <3>3 DEF Advances, RequestSnapshot
      <4>2. QED
        BY <3>3, <4>1, PodMoves DEF StopInv
    <3>4. QED
      BY <3>1, <3>2, <3>3
  <2>4. QED
    BY <2>1, <2>2, <2>3, Moves, OutsideMoves, EndMoves
<1>11. QED
  BY <1>2, <1>6, <1>7, <1>8, <1>9, <1>10 DEF StopInv

\* ensure_suspended, ensure_parent_pod: a pod the controller stops was asked for
\* its snapshot, for a suspension more recent than the pod itself, however late
\* the copy of the Workshop it reconciles.
THEOREM StopsForSuspension == Spec => StopsOnlySuspended
<1>1. Init => StopInv
  BY DEF Init, StopInv, Older, MadeFor, NewObject
<1>2. TypeInv /\ StopInv /\ [Next]_vars => StopInv'
  BY StopStep
<1>3. ASSUME TypeInv, StopInv, [Next]_vars, ~pod.stopping, pod'.stopping, pc' # pc
      PROVE  /\ seen.desired = "Suspended" /\ seen.generation > pod.for
             /\ asked = pod.uid
  <2>1. pod' # pod
    BY <1>3
  <2>2. ~Outside /\ ~UNCHANGED vars
    BY <1>3, OutsideMoves
  <2>3. ~Begin /\ ~Ends
    BY <1>3, <2>1, BeginMoves, EndMoves DEF TypeInv
  <2>4. Advances
    BY <1>3, <2>2, <2>3, Moves
  <2>5. pc = "release" /\ pod # NoPod
    <3>1. CASE Suspend \/ Probe \/ Build \/ Prepare \/ Cleanup
      BY <2>1, <3>1, Zenon DEF Suspend, Probe, Build, Prepare, Cleanup, cluster
    <3>2. CASE RequestSnapshot
      BY <1>3, <3>2, Zenon DEF RequestSnapshot, TypeInv, PodsInv, Pod
    <3>3. CASE EnsurePod
      BY <1>3, <3>3 DEF EnsurePod, FreshPod
    <3>4. QED
      BY <2>4, <3>1, <3>2, <3>3 DEF Advances
  <2>6. seen.generation \in Nat /\ pod.for \in Nat
    BY <1>3 DEF TypeInv, ObjectsInv, PodsInv, Object, Pod
  <2>7. QED
    BY <1>3, <2>5, <2>6 DEF StopInv, MadeFor
<1>4. QED
  BY <1>1, <1>2, <1>3, InitTypes, TypeStep, PTL DEF Spec, StopsOnlySuspended

-----------------------------------------------------------------------------
(* Without incidents and stale copies: the guest that is announced, and the  *)
(* digest a suspension leaves.                                               *)

\* A pod has a uid, and a probe is about a pod; the purge is for a Workshop
\* that is being deleted.
IdentityInv ==
    /\ incidents \in Nat /\ stale \in BOOLEAN
    /\ pod = NoPod \/ pod.uid # 0
    /\ pc = "probe" => current.uid # 0
    /\ purge => object.life # "live"

\* A deletion is not undone; only the patch that ends a reconciliation
\* changes what the status says of the phase and of the snapshot.
LEMMA StatusMoves ==
    ASSUME TypeInv, [Next]_vars
    PROVE  /\ object.life # "live" => object'.life # "live"
           /\ object.life = "gone" => object'.life = "gone"
           /\ \/ pc = "patch" /\ pc' = "idle" /\ UNCHANGED object.life
              \/ UNCHANGED <<object.status.phase, object.status.snapshot>>
<1> USE DEF TypeInv, ObjectsInv
<1>1. CASE UNCHANGED object
  BY <1>1
<1>2. CASE SetDesired
  BY <1>2 DEF SetDesired, Object
<1>3. CASE JobEnds
  <2>1. \/ object' = object
        \/ object' = [object EXCEPT !.status = [object.status EXCEPT !.image = "built"]]
    BY <1>3 DEF JobEnds
  <2>2. object.status \in Status
    BY DEF Object
  <2>3. /\ [object.status EXCEPT !.image = "built"].phase = object.status.phase
        /\ [object.status EXCEPT !.image = "built"].snapshot = object.status.snapshot
    BY <2>2 DEF Status
  <2>4. QED
    BY <2>1, <2>3, Zenon DEF Object
<1>4. CASE PatchStatus
  BY <1>4 DEF PatchStatus, Done, Object
<1>5. CASE Delete \/ Adopt
  BY <1>5 DEF Delete, Adopt, Object
<1>6. CASE Unfinalize
  BY <1>6 DEF Unfinalize, Object
<1>7. CASE Begin \/ Advances \/ Fail \/ Release
  BY <1>1, <1>7 DEF Begin, Advances, Fail, Release, cluster
<1>8. CASE Observe \/ Upgrade \/ PodStarts \/ GuestAnswers \/ PodStops \/ Disturb
  BY <1>1, <1>8 DEF Observe, Upgrade, PodStarts, GuestAnswers, PodStops, Disturb, cluster
<1>9. CASE GarbageCollect \/ Lockdown \/ PurgeRuns \/ UNCHANGED vars
  BY <1>1, <1>9 DEF GarbageCollect, Lockdown, PurgeRuns, vars, cluster
<1>10. QED
  BY <1>2, <1>3, <1>4, <1>5, <1>6, <1>7, <1>8, <1>9, Moves DEF Outside, Ends

\* What goes on around a reconciliation without incident.
Quiet ==
    \/ Observe \/ SetDesired \/ Delete \/ PodStarts \/ GuestAnswers \/ PodStops
    \/ GarbageCollect \/ JobEnds \/ PurgeRuns

\* A step counts as an incident, takes a copy, or is one of the quiet ones.
LEMMA CountMoves ==
    ASSUME [Next]_vars
    PROVE  \/ incidents' = incidents + 1 /\ UNCHANGED stale
           \/ Begin /\ UNCHANGED incidents /\ stale' = (stale \/ cache # object)
           \/ /\ UNCHANGED <<incidents, stale>>
              /\ \/ Quiet \/ UNCHANGED vars \/ Advances \/ Adopt \/ PatchStatus \/ Unfinalize
                 \/ Release /\ pod = NoPod
<1>1. CASE Fail \/ Upgrade \/ Lockdown \/ Disturb
  BY <1>1 DEF Fail, Upgrade, Lockdown, Disturb
<1>2. CASE Begin
  BY <1>2 DEF Begin
<1>3. CASE Quiet \/ UNCHANGED vars
  <2>1. UNCHANGED <<incidents, stale>>
    BY <1>3 DEF Quiet, Observe, SetDesired, Delete, PodStarts, GuestAnswers, PodStops,
                GarbageCollect, JobEnds, PurgeRuns, vars, history
  <2>2. QED
    BY <1>3, <2>1
<1>4. CASE Advances
  <2>1. UNCHANGED <<incidents, stale>>
    BY <1>4, Zenon DEF Advances, Suspend, RequestSnapshot, Release, Build, Prepare, EnsurePod, Probe,
                Cleanup, history
  <2>2. QED
    BY <1>4, <2>1
<1>5. CASE Adopt \/ PatchStatus \/ Unfinalize \/ (Release /\ pod = NoPod)
  <2>1. UNCHANGED <<incidents, stale>>
    BY <1>5 DEF Adopt, PatchStatus, Unfinalize, Release, history
  <2>2. QED
    BY <1>5, <2>1
<1>6. QED
  BY <1>1, <1>2, <1>3, <1>4, <1>5, Moves DEF Outside, Ends, Quiet

\* While nothing interfered, a reconciliation begins with the Workshop as
\* it is.
LEMMA CleanMoves ==
    ASSUME IdentityInv, [Next]_vars, Clean'
    PROVE  /\ Clean
           /\ \/ Begin /\ cache = object
              \/ Quiet \/ UNCHANGED vars \/ Advances \/ Adopt \/ PatchStatus \/ Unfinalize
              \/ Release /\ pod = NoPod
<1>1. incidents' = 0 /\ stale' = FALSE /\ incidents \in Nat /\ stale \in BOOLEAN
  <2>1. incidents \in Nat /\ stale \in BOOLEAN
    BY DEF IdentityInv
  <2>2. incidents' = 0 /\ ~stale'
    BY DEF Clean
  <2>3. stale' \in BOOLEAN
    BY <2>1, CountMoves, Zenon
  <2>4. QED
    BY <2>1, <2>2, <2>3, Zenon
<1>2. incidents' # incidents + 1
  BY <1>1
<1>3. CASE Begin /\ UNCHANGED incidents /\ stale' = (stale \/ cache # object)
  BY <1>1, <1>3, Zenon DEF Clean
<1>4. UNCHANGED <<incidents, stale>> => Clean
  BY <1>1, Zenon DEF Clean
<1>5. QED
  BY <1>2, <1>3, <1>4, CountMoves, Zenon

\* Every step keeps it: a new pod has a new uid.
LEMMA IdentityStep ==
    ASSUME TypeInv, RoleInv, IdentityInv, [Next]_vars
    PROVE  IdentityInv'
<1>1. incidents' \in Nat /\ stale' \in BOOLEAN
  <2>1. incidents \in Nat /\ stale \in BOOLEAN
    BY DEF IdentityInv
  <2>2. incidents' \in {incidents, incidents + 1}
    BY CountMoves, Zenon
  <2>3. stale' \in BOOLEAN
    BY <2>1, CountMoves, Zenon
  <2>4. QED
    BY <2>1, <2>2, <2>3
<1>2. pod' = NoPod \/ pod'.uid # 0
  <2>1. pods \in Nat
    BY DEF TypeInv, PodsInv
  <2>2. QED
    BY <2>1, PodMoves DEF IdentityInv
<1>3. pc' = "probe" => current'.uid # 0
  <2>1. CASE UNCHANGED <<pc, current>>
    BY <2>1 DEF IdentityInv
  <2>2. CASE Advances
    <3>1. SUFFICES ASSUME pc' = "probe" PROVE current'.uid # 0
      OBVIOUS
    <3>2. EnsurePod
      BY <2>2, <3>1 DEF Advances
    <3>3. CASE pod = NoPod
      <4>1. current' = FreshPod /\ pods \in Nat
        BY <3>2, <3>3 DEF EnsurePod, TypeInv, PodsInv
      <4>2. QED
        BY <4>1 DEF FreshPod
    <3>4. CASE pod # NoPod
      BY <3>2, <3>4 DEF EnsurePod, IdentityInv
    <3>5. QED
      BY <3>3, <3>4
  <2>3. CASE Begin
    BY <2>3, BeginMoves DEF TypeInv
  <2>4. QED
    BY <2>1, <2>2, <2>3, Moves, OutsideMoves, EndMoves
<1>4. purge' => object'.life # "live"
  <2>1. purge' => purge \/ pc = "cleanup"
    <3>1. CASE UNCHANGED purge
      BY <3>1
    <3>2. CASE PurgeRuns
      BY <3>2 DEF PurgeRuns
    <3>3. CASE Advances
      BY <3>3, Zenon DEF Advances, Suspend, RequestSnapshot, Release, Build, Prepare, EnsurePod,
                  Probe, cluster
    <3>4. CASE Begin \/ Ends
      BY <3>1, <3>4, Zenon DEF Begin, Ends, Adopt, PatchStatus, Unfinalize, Fail, Release, cluster
    <3>5. CASE Observe \/ Upgrade \/ SetDesired \/ Delete \/ JobEnds
      BY <3>1, <3>5, Zenon DEF Observe, Upgrade, SetDesired, Delete, JobEnds, cluster
    <3>6. CASE \/ PodStarts \/ GuestAnswers \/ PodStops \/ Disturb \/ GarbageCollect \/ Lockdown
               \/ UNCHANGED vars
      BY <3>1, <3>6, Zenon DEF PodStarts, GuestAnswers, PodStops, Disturb, GarbageCollect, Lockdown,
                        vars, cluster
    <3>7. QED
      BY <3>2, <3>3, <3>4, <3>5, <3>6, Moves DEF Outside
  <2>2. purge \/ pc = "cleanup" => object.life # "live"
    BY DEF IdentityInv, RoleInv
  <2>3. QED
    BY <2>1, <2>2, StatusMoves
<1>5. QED
  BY <1>1, <1>2, <1>3, <1>4 DEF IdentityInv

\* What happens to the pod around a reconciliation.
PodDrifts ==
    \/ pod' = pod
    \/ pod' = NoPod /\ pod.stopping
    \/ /\ pod # NoPod /\ pod' # NoPod /\ (pod.guest # "booting" => pod'.guest # "booting")
       /\ pod'.stopping => pod.stopping \/ object.life = "gone"

\* A quiet step leaves the reconciliation alone, and the disk unless it
\* purges.
LEMMA QuietMoves ==
    ASSUME TypeInv, Quiet \/ UNCHANGED vars
    PROVE  /\ UNCHANGED <<pc, seen, current, reply, outcome>> /\ PodDrifts
           /\ UNCHANGED disk \/ purge
<1>1. UNCHANGED <<pc, seen, current, reply>>
  BY OutsideMoves, Zenon DEF Quiet, Outside
<1>2. UNCHANGED outcome
  BY DEF Quiet, Observe, SetDesired, Delete, PodStarts, GuestAnswers, PodStops,
         GarbageCollect, JobEnds, PurgeRuns, vars, history
<1>3. UNCHANGED disk \/ purge
  <2>1. CASE Observe \/ SetDesired \/ Delete \/ PodStarts \/ GuestAnswers
    BY <2>1 DEF Observe, SetDesired, Delete, PodStarts, GuestAnswers, cluster
  <2>2. CASE PodStops \/ GarbageCollect \/ JobEnds \/ PurgeRuns \/ UNCHANGED vars
    BY <2>2 DEF PodStops, GarbageCollect, JobEnds, PurgeRuns, vars, cluster
  <2>3. QED
    BY <2>1, <2>2 DEF Quiet
<1>4. PodDrifts
  <2>1. CASE Observe \/ SetDesired \/ Delete \/ JobEnds \/ PurgeRuns \/ UNCHANGED vars
    BY <2>1, Zenon DEF Observe, SetDesired, Delete, JobEnds, PurgeRuns, vars, cluster, PodDrifts
  <2>2. CASE PodStops
    BY <2>2 DEF PodStops, PodDrifts
  <2>3. CASE PodStarts
    <3>1. pod.phase = "Pending" /\ pod' = [pod EXCEPT !.phase = "Running"]
      BY <2>3 DEF PodStarts
    <3>2. /\ pod'.phase = "Running" /\ pod'.guest = pod.guest /\ pod'.stopping = pod.stopping
      BY <3>1 DEF TypeInv, PodsInv, Pod
    <3>3. pod # NoPod /\ pod' # NoPod
      BY <3>1, <3>2 DEF NoPod
    <3>4. QED
      BY <3>2, <3>3 DEF PodDrifts
  <2>4. CASE GuestAnswers
    <3>1. pod.phase = "Running" /\ pod' = [pod EXCEPT !.guest = "up"]
      BY <2>4 DEF GuestAnswers
    <3>2. pod'.phase = pod.phase /\ pod'.guest = "up" /\ pod'.stopping = pod.stopping
      BY <3>1 DEF TypeInv, PodsInv, Pod
    <3>3. pod # NoPod /\ pod' # NoPod
      BY <3>1, <3>2 DEF NoPod
    <3>4. QED
      BY <3>2, <3>3 DEF PodDrifts
  <2>5. CASE GarbageCollect
    <3>1. object.life = "gone" /\ (pod' = pod \/ (pod # NoPod /\ pod' = [pod EXCEPT !.stopping = TRUE]))
      BY <2>5 DEF GarbageCollect
    <3>2. CASE pod # NoPod /\ pod' = [pod EXCEPT !.stopping = TRUE]
      <4>1. pod'.stopping = TRUE /\ pod'.guest = pod.guest
        BY <3>2 DEF TypeInv, PodsInv, Pod
      <4>2. pod' # NoPod
        BY <4>1 DEF NoPod
      <4>3. QED
        BY <3>1, <3>2, <4>1, <4>2 DEF PodDrifts
    <3>3. QED
      BY <3>1, <3>2 DEF PodDrifts
  <2>6. QED
    BY <2>1, <2>2, <2>3, <2>4, <2>5 DEF Quiet
<1>5. QED
  BY <1>1, <1>2, <1>3, <1>4

\* The status that a branch of the reconciliation is about to patch.
Replies(phases, snapshot) == reply'.phase \in phases /\ reply'.snapshot = snapshot

\* A status carried forward has the phase given and the snapshot of the
\* copy.
LEMMA CarriedReply ==
    ASSUME ObjectsInv, NEW phase
    PROVE  /\ carry_forward_status(seen, phase).phase = phase
           /\ carry_forward_status(seen, phase).snapshot = seen.status.snapshot
<1>1. seen.status \in Status
  BY DEF ObjectsInv, Object
<1>2. QED
  BY <1>1, Zenon DEF carry_forward_status, Status

\* What the calls of a reconciliation do to the pod, to the reply and to the
\* snapshot.
AdvanceEffect ==
    \/ /\ pc = "suspend" /\ pc' = "snapshot" /\ pod # NoPod /\ ~pod.stopping
       /\ UNCHANGED <<pod, outcome, disk>>
    \/ /\ pc = "suspend" /\ pc' = "patch" /\ UNCHANGED <<pod, outcome, disk>>
       /\ \/ Replies({"Suspended"}, seen.status.snapshot) /\ pod = NoPod
          \/ Replies({"Suspending"}, seen.status.snapshot)
    \/ /\ pc = "snapshot" /\ pc' = "release"
       /\ \/ outcome' = 0 \/ (pod # NoPod /\ disk' = outcome')
       /\ \/ pod' = pod
          \/ /\ pod # NoPod /\ pod' # NoPod /\ pod'.stopping = pod.stopping
             /\ pod.guest # "booting" => pod'.guest # "booting"
    \/ /\ pc = "release" /\ pc' = "patch" /\ UNCHANGED <<outcome, disk>>
       /\ pod # NoPod /\ pod'.guest = pod.guest /\ Replies({"Suspending"}, outcome)
    \/ /\ pc = "build" /\ pc' = "patch" /\ UNCHANGED <<pod, outcome, disk>>
       /\ Replies({"Failed", "BuildingImage"}, seen.status.snapshot)
    \/ pc = "prepare" /\ pc' = "ensure" /\ UNCHANGED <<pod, outcome, disk>>
    \/ /\ pc = "ensure" /\ pc' = "probe" /\ UNCHANGED <<outcome, disk>>
       /\ pod' = pod \/ (pod = NoPod /\ current'.phase = "Pending")
    \/ /\ pc = "probe" /\ pc' = "patch" /\ UNCHANGED <<pod, outcome, disk>>
       /\ \/ Ready /\ Replies({"Running"}, seen.status.snapshot)
          \/ Replies({"Resuming", "Provisioning"}, seen.status.snapshot)
    \/ pc = "cleanup" /\ pc' = "unfinalize" /\ UNCHANGED <<pod, outcome, disk>>

\* What each step of a reconciliation does to the pod, the disk and the
\* reply.
LEMMA Effects ==
    ASSUME TypeInv, Advances
    PROVE  AdvanceEffect
<1>1. CASE pc = "suspend" /\ pc' = "snapshot" /\ Suspend
  <2>1. pod # NoPod /\ ~pod.stopping /\ UNCHANGED <<pod, outcome, disk>>
    BY <1>1 DEF Suspend, cluster, history
  <2>2. QED
    BY <1>1, <2>1, Zenon DEF AdvanceEffect
<1>2. CASE pc = "suspend" /\ pc' = "patch" /\ Suspend
  <2> DEFINE phase == IF pod = NoPod THEN "Suspended" ELSE "Suspending"
             carried == carry_forward_status(seen, phase)
  <2>1. UNCHANGED <<pod, outcome, disk>> /\ reply' = [carried EXCEPT !.podName = "none"]
    BY <1>2 DEF Suspend, cluster, history
  <2>2. carried \in Status
    BY CarriedStatus DEF TypeInv, ObjectsInv
  <2>3. carried.phase = phase /\ carried.snapshot = seen.status.snapshot
    BY CarriedReply DEF TypeInv
  <2> HIDE DEF carried
  <2>4. reply'.phase = phase /\ reply'.snapshot = seen.status.snapshot
    BY <2>1, <2>2, <2>3 DEF Status
  <2>5. \/ Replies({"Suspended"}, seen.status.snapshot) /\ pod = NoPod
        \/ Replies({"Suspending"}, seen.status.snapshot)
    BY <2>4 DEF Replies
  <2>6. QED
    BY <1>2, <2>1, <2>5, Zenon DEF AdvanceEffect
<1>3. CASE pc = "snapshot" /\ pc' = "release" /\ RequestSnapshot
  <2> DEFINE guest == IF pod.guest = "up" THEN "restarting" ELSE pod.guest
  <2>1. \/ outcome' = 0 /\ pod' = pod
        \/ /\ pod.phase = "Running" /\ Published
           /\ outcome' \in IF taken' = taken THEN {0} ELSE {0, taken'}
           /\ pod' = pod \/ pod' = [pod EXCEPT !.locked = FALSE, !.guest = guest]
    BY <1>3 DEF RequestSnapshot
  <2>2. CASE outcome' = 0 /\ pod' = pod
    BY <1>3, <2>2, Zenon DEF AdvanceEffect
  <2>3. CASE /\ pod.phase = "Running" /\ Published
             /\ outcome' \in IF taken' = taken THEN {0} ELSE {0, taken'}
             /\ pod' = pod \/ pod' = [pod EXCEPT !.locked = FALSE, !.guest = guest]
    <3>1. pod # NoPod
      BY <2>3 DEF NoPod
    <3>2. outcome' = 0 \/ disk' = outcome'
      BY <2>3 DEF Published
    <3>3. CASE pod' = [pod EXCEPT !.locked = FALSE, !.guest = guest]
      <4>1. /\ pod'.phase = "Running" /\ pod'.stopping = pod.stopping /\ pod'.guest = guest
        BY <2>3, <3>3, Zenon DEF TypeInv, PodsInv, Pod
      <4>2. pod' # NoPod
        BY <4>1 DEF NoPod
      <4>3. pod.guest # "booting" => guest # "booting"
        OBVIOUS
      <4> HIDE DEF guest
      <4>4. QED
        BY <1>3, <3>1, <3>2, <4>1, <4>2, <4>3, Zenon DEF AdvanceEffect
    <3>4. CASE pod' = pod
      BY <1>3, <3>1, <3>2, <3>4, Zenon DEF AdvanceEffect
    <3>5. QED
      BY <2>3, <3>3, <3>4
  <2>4. QED
    BY <2>1, <2>2, <2>3
<1>4. CASE pc = "release" /\ pc' = "patch" /\ Release /\ pod # NoPod
  <2> DEFINE carried == carry_forward_status(seen, "Suspending")
  <2>1. /\ UNCHANGED <<outcome, disk>> /\ pod' = [pod EXCEPT !.stopping = TRUE]
        /\ reply' = [carried EXCEPT !.podName = "none", !.snapshot = outcome]
    BY <1>4 DEF Release, history
  <2>2. carried \in Status
    BY CarriedStatus DEF TypeInv, ObjectsInv
  <2>3. carried.phase = "Suspending"
    BY CarriedReply DEF TypeInv
  <2> HIDE DEF carried
  <2>4. Replies({"Suspending"}, outcome)
    BY <2>1, <2>2, <2>3 DEF Status, Replies
  <2>5. pod'.guest = pod.guest
    BY <2>1 DEF TypeInv, PodsInv, Pod
  <2>6. QED
    BY <1>4, <2>1, <2>4, <2>5, Zenon DEF AdvanceEffect
<1>5. CASE pc = "build" /\ pc' = "patch" /\ Build
  <2> DEFINE failed == carry_forward_status(seen, "Failed")
             building == carry_forward_status(seen, "BuildingImage")
  <2>1. /\ UNCHANGED <<pod, outcome, disk>>
        /\ reply' = building \/ reply' = [failed EXCEPT !.conds = {"ImageBuildFailed"}]
    BY <1>5 DEF Build, history
  <2>2. failed \in Status /\ building \in Status
    BY CarriedStatus DEF TypeInv, ObjectsInv
  <2>3. /\ failed.phase = "Failed" /\ failed.snapshot = seen.status.snapshot
        /\ building.phase = "BuildingImage" /\ building.snapshot = seen.status.snapshot
    BY CarriedReply DEF TypeInv
  <2> HIDE DEF failed, building
  <2>4. Replies({"Failed", "BuildingImage"}, seen.status.snapshot)
    BY <2>1, <2>2, <2>3 DEF Status, Replies
  <2>5. QED
    BY <1>5, <2>1, <2>4, Zenon DEF AdvanceEffect
<1>6. CASE pc = "prepare" /\ pc' = "ensure" /\ Prepare
  <2>1. UNCHANGED <<pod, outcome, disk>>
    BY <1>6 DEF Prepare, history
  <2>2. QED
    BY <1>6, <2>1, Zenon DEF AdvanceEffect
<1>7. CASE pc = "ensure" /\ pc' = "probe" /\ EnsurePod
  <2>1. /\ UNCHANGED <<outcome, disk>>
        /\ pod' = pod \/ (pod = NoPod /\ current' = FreshPod)
    BY <1>7 DEF EnsurePod
  <2>2. FreshPod.phase = "Pending"
    BY DEF FreshPod
  <2>3. QED
    BY <1>7, <2>1, <2>2, Zenon DEF AdvanceEffect
<1>8. CASE pc = "probe" /\ pc' = "patch" /\ Probe
  <2> DEFINE phase == IF Ready THEN "Running"
                      ELSE IF seen.status.phase \in {"Suspended", "Suspending"}
                      THEN "Resuming" ELSE "Provisioning"
             carried == carry_forward_status(seen, phase)
             upgrade == IF current.hash = template THEN "none" ELSE "NeedsRestartForUpgrade"
  <2>1. UNCHANGED <<pod, outcome, disk>>
    BY <1>8 DEF Probe, cluster, history
  <2>2. PICK conds :
            reply' = [carried EXCEPT !.podName = "parent", !.upgrade = upgrade, !.conds = conds]
    BY <1>8, Zenon DEF Probe
  <2>3. \/ phase = "Running" /\ Ready
        \/ phase \in {"Resuming", "Provisioning"}
    OBVIOUS
  <2> HIDE DEF phase
  <2>4. carried \in Status
    BY <2>3, CarriedStatus DEF TypeInv, ObjectsInv
  <2>5. carried.phase = phase /\ carried.snapshot = seen.status.snapshot
    BY CarriedReply DEF TypeInv
  <2> HIDE DEF carried, upgrade
  <2>6. reply'.phase = phase /\ reply'.snapshot = seen.status.snapshot
    BY <2>2, <2>4, <2>5 DEF Status
  <2>7. \/ Ready /\ Replies({"Running"}, seen.status.snapshot)
        \/ Replies({"Resuming", "Provisioning"}, seen.status.snapshot)
    BY <2>3, <2>6, Zenon DEF Replies
  <2>8. QED
    BY <1>8, <2>1, <2>7, Zenon DEF AdvanceEffect
<1>9. CASE pc = "cleanup" /\ pc' = "unfinalize" /\ Cleanup
  <2>1. UNCHANGED <<pod, outcome, disk>>
    BY <1>9 DEF Cleanup, history
  <2>2. QED
    BY <1>9, <2>1, Zenon DEF AdvanceEffect
<1>10. QED
  BY <1>1, <1>2, <1>3, <1>4, <1>5, <1>6, <1>7, <1>8, <1>9, Zenon DEF Advances

\* The copy a reconciliation works on has the phase and the snapshot of the
\* Workshop: nobody else writes them.
SyncInv ==
    Clean /\ pc # "idle" => /\ seen.status.phase = object.status.phase
                            /\ seen.status.snapshot = object.status.snapshot

\* How the end of a reconciliation leaves the Workshop.
LEMMA EndEffect ==
    ASSUME TypeInv, [Next]_vars, Adopt \/ PatchStatus \/ Unfinalize \/ (Release /\ pod = NoPod)
    PROVE  /\ pc' = "idle" /\ UNCHANGED <<pod, outcome, disk>>
           /\ \/ /\ pc \in {"adopt", "unfinalize"} \/ (pc = "release" /\ pod = NoPod)
                 /\ UNCHANGED <<object.status.phase, object.status.snapshot>>
              \/ pc = "patch" /\ object.life = "gone" /\ UNCHANGED object
              \/ /\ pc = "patch" /\ object.life # "gone"
                 /\ object'.status.phase = reply.phase
                 /\ reply.snapshot # 0 => object'.status.snapshot = reply.snapshot
<1>1. pc' = "idle" /\ UNCHANGED <<pod, outcome, disk>>
  BY DEF Adopt, PatchStatus, Unfinalize, Release, Done, history
<1>2. CASE Adopt \/ Unfinalize \/ (Release /\ pod = NoPod)
  <2>1. pc \in {"adopt", "unfinalize"} \/ (pc = "release" /\ pod = NoPod)
    BY <1>2 DEF Adopt, Unfinalize, Release
  <2>2. UNCHANGED <<object.status.phase, object.status.snapshot>>
    BY <2>1, StatusMoves
  <2>3. QED
    BY <1>1, <2>1, <2>2, Zenon
<1>3. CASE PatchStatus
  <2>1. /\ pc = "patch"
        /\ object' = IF object.life = "gone" THEN object
                     ELSE [object EXCEPT !.status = Merged(object.status, reply)]
    BY <1>3 DEF PatchStatus
  <2>2. CASE object.life = "gone"
    BY <1>1, <2>1, <2>2
  <2>3. CASE object.life # "gone"
    <3> DEFINE merged == Merged(object.status, reply)
    <3>1. object'.status = merged
      BY <2>1, <2>3 DEF TypeInv, ObjectsInv, Object
    <3>2. /\ merged.phase = reply.phase
          /\ reply.snapshot # 0 => merged.snapshot = reply.snapshot
      BY DEF Merged, TypeInv, ReplyInv, Status
    <3> HIDE DEF merged
    <3>3. QED
      BY <1>1, <2>1, <2>3, <3>1, <3>2
  <2>4. QED
    BY <2>2, <2>3
<1>4. QED
  BY <1>2, <1>3

\* Every step keeps the copy in use equal to the Workshop in phase and
\* snapshot.
LEMMA SyncStep ==
    ASSUME TypeInv, IdentityInv, SyncInv, [Next]_vars
    PROVE  SyncInv'
<1> SUFFICES ASSUME Clean', pc' # "idle"
             PROVE  /\ seen'.status.phase = object'.status.phase
                    /\ seen'.status.snapshot = object'.status.snapshot
  BY DEF SyncInv
<1>1. Clean
  BY CleanMoves
<1>2. CASE Begin /\ cache = object
  BY <1>2, BeginMoves DEF TypeInv
<1>3. CASE Quiet \/ UNCHANGED vars
  <2>1. UNCHANGED <<pc, seen>>
    BY <1>3, QuietMoves
  <2>2. UNCHANGED <<object.status.phase, object.status.snapshot>>
    BY <2>1, StatusMoves
  <2>3. QED
    BY <1>1, <2>1, <2>2 DEF SyncInv
<1>4. CASE Advances
  <2>1. pc # "idle" /\ UNCHANGED <<seen, object>>
    BY <1>4 DEF Advances
  <2>2. QED
    BY <1>1, <2>1 DEF SyncInv
<1>5. QED
  BY <1>2, <1>3, <1>4, CleanMoves, EndEffect

\* What a Workshop announced Running is: its guest has answered, or the phase
\* is about to be replaced.
Answered(p) == p = NoPod \/ p.guest # "booting"

AnswerInv ==
    Clean =>
    /\ object.status.phase = "Running" =>
        \/ Answered(pod)
        \/ pc = "probe" /\ current.phase # "Running"
        \/ pc = "patch" /\ reply.phase # "Running"
        \/ pc = "idle" /\ object.life = "gone"
    /\ pc = "patch" /\ reply.phase = "Running" => Answered(pod)

\* Every step keeps a Workshop said to be Running on a guest that answered.
LEMMA AnswerStep ==
    ASSUME TypeInv, IdentityInv, SyncInv, AnswerInv, [Next]_vars
    PROVE  AnswerInv'
<1> DEFINE Announced(phase, p, c, r, at, life) ==
               phase = "Running" => \/ Answered(p)
                                    \/ at = "probe" /\ c.phase # "Running"
                                    \/ at = "patch" /\ r.phase # "Running"
                                    \/ at = "idle" /\ life = "gone"
           Replied(p, r, at) == at = "patch" /\ r.phase = "Running" => Answered(p)
<1> SUFFICES ASSUME Clean'
             PROVE  /\ Announced(object'.status.phase, pod', current', reply', pc', object'.life)
                    /\ Replied(pod', reply', pc')
  BY Zenon DEF AnswerInv, Answered
<1>1. Clean
  BY CleanMoves
<1>2. Announced(object.status.phase, pod, current, reply, pc, object.life) /\ Replied(pod, reply, pc)
  BY <1>1, Zenon DEF AnswerInv
<1>3. CASE Begin /\ cache = object
  <2>1. /\ pc = "idle" /\ pc' \in {"cleanup", "adopt", "suspend", "build", "prepare"}
        /\ UNCHANGED <<object, pod>>
    BY <1>3, BeginMoves DEF TypeInv
  <2>2. object.life # "gone"
    BY <1>3 DEF Begin
  <2>3. QED
    BY <1>2, <2>1, <2>2
<1>4. CASE Quiet \/ UNCHANGED vars
  <2>1. UNCHANGED <<pc, current, reply>> /\ PodDrifts
    BY <1>4, QuietMoves
  <2>2. UNCHANGED object.status.phase /\ (object.life = "gone" => object'.life = "gone")
    BY <2>1, StatusMoves
  <2>3. Answered(pod) => Answered(pod')
    BY <2>1 DEF PodDrifts, Answered
  <2>4. QED
    BY <1>2, <2>1, <2>2, <2>3
<1>5. CASE Adopt \/ PatchStatus \/ Unfinalize \/ (Release /\ pod = NoPod)
  <2>1. CASE pc # "patch"
    BY <1>2, <1>5, <2>1, EndEffect
  <2>2. CASE pc = "patch" /\ object.life = "gone"
    <3>1. pc' = "idle" /\ object'.life = "gone"
      BY <1>5, <2>2, EndEffect, StatusMoves
    <3>2. QED
      BY <3>1
  <2>3. CASE pc = "patch" /\ object'.status.phase = reply.phase
    <3>1. pc' = "idle" /\ UNCHANGED pod
      BY <1>5, EndEffect
    <3>2. QED
      BY <1>2, <2>3, <3>1
  <2>4. QED
    BY <1>5, <2>1, <2>2, <2>3, EndEffect
<1>6. CASE Advances
  <2>1. AdvanceEffect /\ UNCHANGED <<object, seen>>
    BY <1>6, Effects DEF Advances
  <2>2. CASE pc \in {"suspend", "build", "prepare", "cleanup"}
    <3>1. UNCHANGED pod /\ (pc' = "patch" => reply'.phase # "Running")
      BY <2>1, <2>2, Zenon DEF AdvanceEffect, Replies
    <3>2. QED
      BY <1>2, <2>1, <2>2, <3>1
  <2>3. CASE pc = "snapshot"
    <3>1. pc' = "release" /\ (Answered(pod) => Answered(pod'))
      BY <2>1, <2>3, Zenon DEF AdvanceEffect, Answered
    <3>2. QED
      BY <1>2, <2>1, <2>3, <3>1
  <2>4. CASE pc = "release"
    <3>1. pc' = "patch" /\ reply'.phase # "Running"
      BY <2>1, <2>4, Zenon DEF AdvanceEffect, Replies
    <3>2. QED
      BY <3>1
  <2>5. CASE pc = "ensure"
    <3>1. pc' = "probe" /\ (pod' = pod \/ current'.phase = "Pending")
      BY <2>1, <2>5, Zenon DEF AdvanceEffect
    <3>2. QED
      BY <1>2, <2>1, <2>5, <3>1
  <2>6. CASE pc = "probe"
    <3>1. /\ pc' = "patch" /\ UNCHANGED pod
          /\ reply'.phase = "Running" => Ready
      BY <2>1, <2>6, Zenon DEF AdvanceEffect, Replies
    <3>2. seen.status.phase = object.status.phase
      BY <1>1, <2>6 DEF SyncInv
    <3>3. Ready => current.phase = "Running" /\ (object.status.phase = "Running" \/ pod.guest = "up")
      BY <3>2 DEF Ready
    <3>4. Ready => Answered(pod)
      BY <1>2, <2>6, <3>3 DEF Answered
    <3>5. QED
      BY <1>2, <2>1, <2>6, <3>1, <3>3, <3>4
  <2>7. QED
    BY <2>1, <2>2, <2>3, <2>4, <2>5, <2>6, Zenon DEF AdvanceEffect
<1>7. QED
  BY <1>3, <1>4, <1>5, <1>6, CleanMoves

\* Initially no reconciliation has begun and no pod is announced.
LEMMA InitClean == Init => IdentityInv /\ SyncInv /\ AnswerInv
<1> SUFFICES ASSUME Init PROVE IdentityInv /\ SyncInv /\ AnswerInv
  OBVIOUS
<1>1. /\ incidents = 0 /\ stale = FALSE /\ pod = NoPod /\ pc = "idle" /\ purge = FALSE
  BY DEF Init
<1>2. IdentityInv
  BY <1>1, Zenon DEF IdentityInv
<1>3. SyncInv /\ AnswerInv
  BY <1>1 DEF SyncInv, AnswerInv, Answered
<1>4. QED
  BY <1>2, <1>3

\* guest_ready: for any number of changes of the spec, while no incident and
\* no stale copy interfered, a probe announces Running only of a pod whose
\* guest has answered, whether it asked the guest or relied on the status.
THEOREM RunningAfterAnswer == Spec => AnnouncedAfterAnswer
<1> DEFINE Inv == TypeInv /\ RoleInv /\ IdentityInv /\ SyncInv /\ AnswerInv
<1>1. Init => Inv
  BY InitTypes, InitRole, InitClean
<1>2. Inv /\ [Next]_vars => Inv'
  BY TypeStep, RoleStep, IdentityStep, SyncStep, AnswerStep
<1>3. ASSUME Inv, [Next]_vars, Clean, Probe, reply'.phase = "Running", pod.uid = current.uid
      PROVE  pod.guest # "booting"
  <2>1. pc = "probe" /\ Advances
    BY <1>3, Zenon DEF Probe, Advances, cluster
  <2>2. Ready
    BY <1>3, <2>1, Effects, Zenon DEF AdvanceEffect, Replies
  <2>3. current.uid # 0 /\ seen.status.phase = object.status.phase
    BY <1>3, <2>1 DEF IdentityInv, SyncInv
  <2>4. pod # NoPod
    BY <1>3, <2>3 DEF NoPod
  <2>5. CASE Reachable /\ pod.guest = "up"
    BY <2>5
  <2>6. CASE seen.status.phase = "Running" /\ current.phase = "Running"
    BY <1>3, <2>1, <2>3, <2>4, <2>6 DEF AnswerInv, Answered
  <2>7. QED
    BY <2>2, <2>5, <2>6 DEF Ready
<1>4. QED
  BY <1>1, <1>2, <1>3, PTL DEF Spec, AnnouncedAfterAnswer

\* A Workshop said to be Suspended has no pod, or the phase is about to be
\* replaced; the pod asked for a snapshot is still there.
ParkInv ==
    Clean =>
    /\ object.status.phase = "Suspended" =>
        \/ pod = NoPod \/ pc = "probe"
        \/ pc = "patch" /\ reply.phase # "Suspended"
        \/ pc = "idle" /\ object.life = "gone"
    /\ pc = "patch" /\ reply.phase = "Suspended" => pod = NoPod
    /\ pc \in {"snapshot", "release"} => object.life = "gone" \/ (pod # NoPod /\ ~pod.stopping)

\* Every step keeps a Workshop said to be Suspended without a pod.
LEMMA ParkStep ==
    ASSUME TypeInv, IdentityInv, ParkInv, [Next]_vars
    PROVE  ParkInv'
<1> DEFINE Parked(phase, p, r, at, life) ==
               phase = "Suspended" => \/ p = NoPod \/ at = "probe"
                                      \/ at = "patch" /\ r.phase # "Suspended"
                                      \/ at = "idle" /\ life = "gone"
           Replied(p, r, at) == at = "patch" /\ r.phase = "Suspended" => p = NoPod
           Asked(p, at, life) == at \in {"snapshot", "release"} =>
                                    life = "gone" \/ (p # NoPod /\ ~p.stopping)
<1> SUFFICES ASSUME Clean'
             PROVE  /\ Parked(object'.status.phase, pod', reply', pc', object'.life)
                    /\ Replied(pod', reply', pc') /\ Asked(pod', pc', object'.life)
  BY Zenon DEF ParkInv
<1>1. Clean
  BY CleanMoves
<1>2. /\ Parked(object.status.phase, pod, reply, pc, object.life)
      /\ Replied(pod, reply, pc) /\ Asked(pod, pc, object.life)
  BY <1>1, Zenon DEF ParkInv
<1>3. CASE Begin /\ cache = object
  <2>1. /\ pc = "idle" /\ pc' \in {"cleanup", "adopt", "suspend", "build", "prepare"}
        /\ UNCHANGED <<object, pod>>
    BY <1>3, BeginMoves DEF TypeInv
  <2>2. object.life # "gone"
    BY <1>3 DEF Begin
  <2>3. QED
    BY <1>2, <2>1, <2>2
<1>4. CASE Quiet \/ UNCHANGED vars
  <2>1. UNCHANGED <<pc, reply>> /\ PodDrifts
    BY <1>4, QuietMoves
  <2>2. UNCHANGED object.status.phase /\ (object.life = "gone" => object'.life = "gone")
    BY <2>1, StatusMoves
  <2>3. ~NoPod.stopping
    BY DEF NoPod
  <2>4. pod = NoPod => pod' = NoPod
    BY <2>1, <2>3 DEF PodDrifts
  <2>5. pod # NoPod /\ ~pod.stopping =>
            object.life = "gone" \/ (pod' # NoPod /\ ~pod'.stopping)
    BY <2>1 DEF PodDrifts
  <2>6. QED
    BY <1>2, <2>1, <2>2, <2>4, <2>5
<1>5. CASE Adopt \/ PatchStatus \/ Unfinalize \/ (Release /\ pod = NoPod)
  <2>1. pc' = "idle" /\ UNCHANGED pod
    BY <1>5, EndEffect
  <2>2. CASE pc # "patch" /\ UNCHANGED object.status.phase
    BY <1>2, <1>5, <2>1, <2>2, EndEffect
  <2>3. CASE pc = "patch" /\ object.life = "gone" /\ UNCHANGED object
    BY <2>1, <2>3
  <2>4. CASE pc = "patch" /\ object'.status.phase = reply.phase
    BY <1>2, <2>1, <2>4
  <2>5. QED
    BY <1>5, <2>2, <2>3, <2>4, EndEffect
<1>6. CASE Advances
  <2>1. AdvanceEffect /\ UNCHANGED object
    BY <1>6, Effects DEF Advances
  <2>2. CASE pc = "suspend"
    <3>1. /\ UNCHANGED pod /\ pc' \in {"snapshot", "patch"}
          /\ pc' = "snapshot" => pod # NoPod /\ ~pod.stopping
          /\ pc' = "patch" => reply'.phase = "Suspending" \/ pod = NoPod
      BY <2>1, <2>2, Zenon DEF AdvanceEffect, Replies
    <3>2. QED
      BY <1>2, <2>1, <2>2, <3>1
  <2>3. CASE pc \in {"build", "prepare", "cleanup"}
    <3>1. /\ UNCHANGED pod /\ pc' \in {"patch", "ensure", "unfinalize"}
          /\ pc' = "patch" => reply'.phase # "Suspended"
      BY <2>1, <2>3, Zenon DEF AdvanceEffect, Replies
    <3>2. QED
      BY <1>2, <2>1, <2>3, <3>1
  <2>4. CASE pc = "snapshot"
    <3>1. /\ pc' = "release"
          /\ pod' = pod \/ (pod # NoPod /\ pod' # NoPod /\ pod'.stopping = pod.stopping)
      BY <2>1, <2>4, Zenon DEF AdvanceEffect
    <3>2. QED
      BY <1>2, <2>1, <2>4, <3>1
  <2>5. CASE pc \in {"release", "probe"}
    <3>1. pc' = "patch" /\ reply'.phase # "Suspended"
      BY <2>1, <2>5, Zenon DEF AdvanceEffect, Replies
    <3>2. QED
      BY <3>1
  <2>6. CASE pc = "ensure"
    <3>1. pc' = "probe"
      BY <2>1, <2>6, Zenon DEF AdvanceEffect
    <3>2. QED
      BY <3>1
  <2>7. QED
    BY <2>1, <2>2, <2>3, <2>4, <2>5, <2>6, Zenon DEF AdvanceEffect
<1>7. QED
  BY <1>3, <1>4, <1>5, <1>6, CleanMoves

\* The digest of the last acknowledged snapshot: it is in the status, or about
\* to be patched; and it is the one on the cache.
DigestInv ==
    Clean /\ outcome # 0 =>
    /\ pc = "release" => object.status.phase # "Suspended"
    /\ pc = "patch" => /\ reply.snapshot = outcome \/ object.life = "gone"
                       /\ object.status.snapshot = outcome \/ object.status.phase # "Suspended"
    /\ pc \notin {"release", "patch"} =>
        \/ object.status.snapshot = outcome
        \/ object.life = "gone" /\ object.status.phase # "Suspended"
    /\ object.life = "live" => disk = outcome

\* Every step keeps the digest on its way from the snapshot to the status.
LEMMA DigestStep ==
    ASSUME TypeInv, IdentityInv, SyncInv, ParkInv, DigestInv, [Next]_vars
    PROVE  DigestInv'
<1> DEFINE Releasing(phase, at) == at = "release" => phase # "Suspended"
           Patching(phase, snapshot, life, r, o, at) ==
               at = "patch" => /\ r.snapshot = o \/ life = "gone"
                               /\ snapshot = o \/ phase # "Suspended"
           Settled(phase, snapshot, life, o, at) ==
               at \notin {"release", "patch"} => \/ snapshot = o
                                                 \/ life = "gone" /\ phase # "Suspended"
           Stored(life, d, o) == life = "live" => d = o
<1> SUFFICES ASSUME Clean', outcome' # 0
             PROVE  /\ Releasing(object'.status.phase, pc')
                    /\ Patching(object'.status.phase, object'.status.snapshot, object'.life,
                                reply', outcome', pc')
                    /\ Settled(object'.status.phase, object'.status.snapshot, object'.life,
                               outcome', pc')
                    /\ Stored(object'.life, disk', outcome')
  BY Zenon DEF DigestInv
<1>1. Clean
  BY CleanMoves
<1>2. outcome # 0 => /\ Releasing(object.status.phase, pc)
                     /\ Patching(object.status.phase, object.status.snapshot, object.life,
                                 reply, outcome, pc)
                     /\ Settled(object.status.phase, object.status.snapshot, object.life,
                                outcome, pc)
                     /\ Stored(object.life, disk, outcome)
  BY <1>1, Zenon DEF DigestInv
<1>3. object'.life = "live" => object.life = "live"
  BY StatusMoves
<1>4. CASE Begin /\ cache = object
  <2>1. /\ pc = "idle" /\ pc' \in {"cleanup", "adopt", "suspend", "build", "prepare"}
        /\ UNCHANGED object
    BY <1>4, BeginMoves DEF TypeInv
  <2>2. UNCHANGED <<outcome, disk>>
    BY <1>4 DEF Begin, cluster
  <2>3. QED
    BY <1>2, <2>1, <2>2
<1>5. CASE Quiet \/ UNCHANGED vars
  <2>1. UNCHANGED <<pc, reply, outcome>> /\ (UNCHANGED disk \/ purge)
    BY <1>5, QuietMoves
  <2>2. /\ UNCHANGED <<object.status.phase, object.status.snapshot>>
        /\ object.life = "gone" => object'.life = "gone"
    BY <2>1, StatusMoves
  <2>3. Stored(object'.life, disk', outcome')
    BY <1>2, <1>3, <2>1 DEF IdentityInv
  <2>4. QED
    BY <1>2, <2>1, <2>2, <2>3
<1>6. CASE Adopt \/ PatchStatus \/ Unfinalize \/ (Release /\ pod = NoPod)
  <2>1. pc' = "idle" /\ UNCHANGED <<pod, outcome, disk>>
    BY <1>6, EndEffect
  <2>2. Stored(object'.life, disk', outcome')
    BY <1>2, <1>3, <2>1
  <2>3. object.life = "gone" => object'.life = "gone"
    BY StatusMoves
  <2>4. CASE /\ pc \in {"adopt", "unfinalize"}
             /\ UNCHANGED <<object.status.phase, object.status.snapshot>>
    BY <1>2, <2>1, <2>2, <2>3, <2>4
  <2>5. CASE /\ pc = "release" /\ pod = NoPod
             /\ UNCHANGED <<object.status.phase, object.status.snapshot>>
    <3>1. object.life = "gone"
      BY <1>1, <2>5 DEF ParkInv
    <3>2. QED
      BY <1>2, <2>1, <2>2, <2>3, <2>5, <3>1
  <2>6. CASE pc = "patch" /\ object.life = "gone" /\ UNCHANGED object
    BY <1>2, <2>1, <2>2, <2>6
  <2>7. CASE /\ pc = "patch" /\ object.life # "gone"
             /\ reply.snapshot # 0 => object'.status.snapshot = reply.snapshot
    BY <1>2, <2>1, <2>2, <2>7
  <2>8. QED
    BY <1>6, <2>4, <2>5, <2>6, <2>7, EndEffect, Zenon
<1>7. CASE Advances
  <2>1. AdvanceEffect /\ UNCHANGED <<object, seen>> /\ pc # "idle"
    BY <1>7, Effects DEF Advances
  <2>2. seen.status.snapshot = object.status.snapshot
    BY <1>1, <2>1 DEF SyncInv
  <2>3. CASE pc \in {"suspend", "build", "probe"}
    <3>1. /\ UNCHANGED <<outcome, disk>> /\ pc' \in {"snapshot", "patch"}
          /\ pc' = "patch" => reply'.snapshot = seen.status.snapshot
      BY <2>1, <2>3, Zenon DEF AdvanceEffect, Replies
    <3>2. QED
      BY <1>2, <2>1, <2>2, <2>3, <3>1
  <2>4. CASE pc = "snapshot"
    <3>1. pc' = "release" /\ pod # NoPod /\ disk' = outcome'
      BY <2>1, <2>4, Zenon DEF AdvanceEffect
    <3>2. object.status.phase # "Suspended"
      BY <1>1, <2>4, <3>1 DEF ParkInv
    <3>3. QED
      BY <2>1, <3>1, <3>2
  <2>5. CASE pc = "release"
    <3>1. pc' = "patch" /\ UNCHANGED <<outcome, disk>> /\ reply'.snapshot = outcome
      BY <2>1, <2>5, Zenon DEF AdvanceEffect, Replies
    <3>2. QED
      BY <1>2, <2>1, <2>5, <3>1
  <2>6. CASE pc \in {"prepare", "ensure", "cleanup"}
    <3>1. UNCHANGED <<outcome, disk>> /\ pc' \in {"ensure", "probe", "unfinalize"}
      BY <2>1, <2>6, Zenon DEF AdvanceEffect
    <3>2. QED
      BY <1>2, <2>1, <2>6, <3>1
  <2>7. QED
    BY <2>1, <2>3, <2>4, <2>5, <2>6, Zenon DEF AdvanceEffect
<1>8. QED
  BY <1>4, <1>5, <1>6, <1>7, CleanMoves

\* ensure_suspended: for any number of changes of the spec, while no incident
\* and no stale copy interfered, the status of a suspended Workshop has the
\* digest of the snapshot that was acknowledged, the one on the cache.
THEOREM DigestIsAcknowledged == Spec => []AcknowledgedDigest
<1> DEFINE Inv == TypeInv /\ RoleInv /\ IdentityInv /\ SyncInv /\ ParkInv /\ DigestInv
<1>1. Init => Inv
  <2>1. Init => ParkInv /\ DigestInv
    <3> SUFFICES ASSUME Init PROVE ParkInv /\ DigestInv
      OBVIOUS
    <3>1. pod = NoPod /\ pc = "idle" /\ outcome = 0
      BY DEF Init
    <3>2. QED
      BY <3>1 DEF ParkInv, DigestInv
  <2>2. QED
    BY <2>1, InitTypes, InitRole, InitClean
<1>2. Inv /\ [Next]_vars => Inv'
  BY TypeStep, RoleStep, IdentityStep, SyncStep, ParkStep, DigestStep
<1>3. Inv => AcknowledgedDigest
  BY DEF DigestInv, AcknowledgedDigest
<1>4. QED
  BY <1>1, <1>2, <1>3, PTL DEF Spec
=============================================================================
