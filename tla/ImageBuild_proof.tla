-------------------------- MODULE ImageBuild_proof --------------------------
(***************************************************************************)
(* What the status of a Workshop says of its image, for any Workshops,     *)
(* repositories, faults, evictions and number of images: the image is kept *)
(* whole, and it serves what the status announces (see Served).            *)
(***************************************************************************)
EXTENDS ImageBuild, TLAPS

-----------------------------------------------------------------------------
(* The tree that image-builder assembles.                                    *)

IsTree(r) ==
    r \in [files : {r.files}, init : {r.init}, sbin : {r.sbin}, vscode : {r.vscode}, sshd : {r.sshd}, env : {r.env},
           sshEnv : {r.sshEnv}, resolver : {r.resolver}, opencode : {r.opencode},
           workspace : {r.workspace}, units : {r.units}]

\* The environment of the pod is in place, for sshd too.
Configured(r) == IsTree(r) /\ r.sshEnv = r.env /\ r.resolver = TRUE

\* The first function writes the environment and the resolver.
LEMMA NetProxyConfigures ==
    ASSUME NEW base, NEW token
    PROVE  Configured(inject_net_proxy_config(export_image_filesystem(base), token))
<1> DEFINE r == export_image_filesystem(base)
           s == [r EXCEPT !.env = @ \cup {"proxy"}
                                    \cup (IF token = "none" THEN {} ELSE {"token"})]
           t == write_ssh_environment_file(s)
<1>1. IsTree(r)
  BY DEF IsTree, export_image_filesystem
<1> HIDE DEF r
<1>2. IsTree(s)
  BY <1>1 DEF IsTree
<1> HIDE DEF s
<1>3. IsTree(t) /\ t.sshEnv = t.env
  BY <1>2 DEF IsTree, write_ssh_environment_file
<1> HIDE DEF t
<1>4. Configured([t EXCEPT !.resolver = TRUE])
  BY <1>3, Zenon DEF IsTree, Configured
<1>5. QED
  BY <1>4 DEF inject_net_proxy_config, r, s, t

\* The certificates leave them in place.
LEMMA BundleConfigures ==
    ASSUME NEW r, Configured(r), NEW ca
    PROVE  Configured(inject_enterprise_ca_bundle(r, ca))
<1> DEFINE s == [r EXCEPT !.env = @ \cup {"nodeCa"}
                                    \cup (IF "trust" \in r.files THEN {"systemCa"} ELSE {})]
<1>1. IsTree(s) /\ s.resolver = TRUE
  BY DEF Configured, IsTree
<1> HIDE DEF s
<1>2. Configured(write_ssh_environment_file(s))
  BY <1>1 DEF Configured, IsTree, write_ssh_environment_file
<1>3. QED
  BY <1>2 DEF inject_enterprise_ca_bundle, s

\* So do the agent and the two kinds of workspace.
LEMMA WorkspaceConfigures ==
    ASSUME NEW r, Configured(r), NEW cloned
    PROVE  /\ Configured(inject_opencode_binary(r))
           /\ Configured(inject_workspace_refresh(ensure_workspace_clone(r, cloned)))
           /\ Configured(ensure_empty_workspace(r))
<1>1. Configured(inject_opencode_binary(r))
  BY DEF Configured, IsTree, inject_opencode_binary
<1>2. Configured(ensure_empty_workspace(r))
  BY DEF Configured, IsTree, ensure_empty_workspace
<1> DEFINE s == ensure_workspace_clone(r, cloned)
<1>3. Configured(s)
  BY DEF Configured, IsTree, ensure_workspace_clone
<1> HIDE DEF s
<1>4. Configured(inject_workspace_refresh(s))
  BY <1>3 DEF Configured, IsTree, inject_workspace_refresh
<1>5. QED
  BY <1>1, <1>2, <1>4 DEF s

\* Every service asked for gets its unit, and the environment stays.
LEMMA ServicesInstalled ==
    ASSUME NEW r, Configured(r), NEW services
    PROVE  /\ Configured(inject_terminal_and_ide(r, services))
           /\ services \subseteq inject_terminal_and_ide(r, services).units
<1> DEFINE s == ensure_vscode_user(r)
<1>1. Configured(s)
  BY DEF Configured, IsTree, ensure_vscode_user
<1> HIDE DEF s
<1>2. CASE services = {}
  BY <1>2 DEF inject_terminal_and_ide
<1>3. CASE services # {}
  <2>1. inject_terminal_and_ide(r, services) = [s EXCEPT !.units = @ \cup services]
    BY <1>3 DEF inject_terminal_and_ide, Baked, s
  <2>2. Configured([s EXCEPT !.units = @ \cup services])
    BY <1>1 DEF Configured, IsTree
  <2>3. services \subseteq [s EXCEPT !.units = @ \cup services].units
    BY <1>1 DEF Configured, IsTree
  <2>4. QED
    BY <2>1, <2>2, <2>3
<1>4. QED
  BY <1>2, <1>3

\* An account for everyone who comes in through sshd.
Reachable(r) == Configured(r) /\ "sshd" \in r.units /\ r.vscode = "open" /\ r.sshd = "open"

\* sshd gets its account, key and unit, and no unit is lost.
LEMMA SshdInstalled ==
    ASSUME NEW r, Configured(r)
    PROVE  Reachable(inject_sshd(r)) /\ r.units \subseteq inject_sshd(r).units
<1> DEFINE s == ensure_vscode_user(r)
           t == ensure_sshd_user(s)
<1>1. Configured(s) /\ s.vscode = "open" /\ s.units = r.units
  BY DEF Configured, IsTree, ensure_vscode_user, ensure_system_user, unlock_shadow_password
<1> HIDE DEF s
<1>2. Configured(t) /\ t.vscode = "open" /\ t.sshd = "open" /\ t.units = r.units
  BY <1>1 DEF Configured, IsTree, ensure_sshd_user, ensure_system_user, unlock_shadow_password
<1> HIDE DEF t
<1> DEFINE u == install_and_enable_unit(t, "sshd")
<1>3. Reachable(u) /\ r.units \subseteq u.units
  BY <1>2 DEF Reachable, Configured, IsTree, install_and_enable_unit
<1> HIDE DEF u
<1>4. inject_sshd(r) = u
  BY DEF inject_sshd, install_sshd, Baked, s, t, u
<1>5. QED
  BY <1>3, <1>4

\* The last functions leave an init where they can reach, and lose nothing of
\* what came before.
LEMMA BootPrepared ==
    ASSUME NEW r, Reachable(r)
    PROVE  LET s == ensure_init_system(inject_clock_sync(r))
           IN  /\ Reachable(s) /\ r.units \subseteq s.units
               /\ InitInReach(s) => "systemd" \in s.files \/ s.init = "guest"
<1> DEFINE t == inject_clock_sync(r)
           s == ensure_init_system(t)
<1>1. Reachable(t) /\ r.units \subseteq t.units
  BY DEF Reachable, Configured, IsTree, inject_clock_sync, install_and_enable_unit
<1> HIDE DEF t
<1>2. CASE "systemd" \in t.files \/ t.sbin = "outside"
  BY <1>1, <1>2 DEF ensure_init_system, InitInReach, t
<1>3. CASE "systemd" \notin t.files /\ t.sbin # "outside"
  <2>1. s = [t EXCEPT !.init = "guest"]
    BY <1>3 DEF ensure_init_system, Baked
  <2>2. Reachable(s) /\ s.units = t.units /\ s.init = "guest"
    BY <1>1, <2>1 DEF Reachable, Configured, IsTree
  <2>3. QED
    BY <1>1, <2>2 DEF t
<1>4. QED
  BY <1>2, <1>3

\* run() of image-builder, for a devcontainer whose init it can reach: a tree
\* that passes check_boot_prerequisites serves the ports the status will
\* announce.
LEMMA AssembledServes ==
    ASSUME NEW env, NEW base, NEW cloned,
           check_boot_prerequisites(Assemble(env, base, cloned))
    PROVE  Served(Assemble(env, base, cloned), GuestPorts_reserved(env.services))
<1> DEFINE proxied == inject_net_proxy_config(export_image_filesystem(base), env.token)
           bundled == inject_enterprise_ca_bundle(proxied, env.ca)
           configured == inject_opencode_binary(bundled)
           populated == IF env.clone
                        THEN inject_workspace_refresh(ensure_workspace_clone(configured, cloned))
                        ELSE ensure_empty_workspace(configured)
           serviced == inject_terminal_and_ide(populated, env.services)
           reached == inject_sshd(serviced)
           tree == ensure_init_system(inject_clock_sync(reached))
<1>1. Assemble(env, base, cloned) = tree
  BY DEF Assemble
<1>2. Configured(proxied)
  BY NetProxyConfigures
<1> HIDE DEF proxied
<1>3. Configured(bundled)
  BY <1>2, BundleConfigures
<1> HIDE DEF bundled
<1>4. Configured(configured)
  BY <1>3, WorkspaceConfigures
<1> HIDE DEF configured
<1>5. Configured(populated)
  BY <1>4, WorkspaceConfigures
<1> HIDE DEF populated
<1>6. Configured(serviced) /\ env.services \subseteq serviced.units
  BY <1>5, ServicesInstalled
<1> HIDE DEF serviced
<1>7. Reachable(reached) /\ env.services \subseteq reached.units
  BY <1>6, SshdInstalled
<1> HIDE DEF reached
<1>8. /\ Reachable(tree) /\ env.services \subseteq tree.units
      /\ InitInReach(tree) => "systemd" \in tree.files \/ tree.init = "guest"
  BY <1>7, BootPrepared
<1> HIDE DEF tree
<1>9. /\ "systemd" \in tree.files => tree.init # "none"
      /\ Tools \subseteq tree.files
  BY <1>1 DEF check_boot_prerequisites, exists_in_rootfs, Tools
<1>10. GuestPorts_reserved(env.services) \subseteq tree.units
  BY <1>8 DEF GuestPorts_reserved, Reachable
<1>11. QED
  BY <1>1, <1>8, <1>9, <1>10 DEF Served, Serves, Reachable, Configured

-----------------------------------------------------------------------------
(* What a step does to the builds.                                           *)

IsMap(f, S) == f = [x \in S |-> f[x]]

IsAttempt(b) ==
    b \in [pc : {b.pc}, guest : {b.guest}, auth : {b.auth}, tree : {b.tree},
           session : {b.session}, digest : {b.digest}]

TypeInv ==
    /\ IsMap(file, Digest) /\ IsMap(object, Digest) /\ IsMap(image, Digest)
    /\ IsMap(made, Digest) /\ \A d \in Digest : made[d] \in Nat
    /\ IsMap(status, Workshops) /\ IsMap(job, Workshops)
    /\ IsMap(builder, Workshops) /\ \A w \in Workshops : IsAttempt(builder[w])

Move(w, b) == builder' = [builder EXCEPT ![w] = b]

\* The attempts that have packaged a tree.
Packaged == {"publish", "copy", "upload", "report", "exit"}

results == <<image, made, status>>

Apart == UNCHANGED <<file, object, results, builder, job>>

\* An attempt ends, begins, or comes to the assembly.
Turned(w) ==
    /\ UNCHANGED <<file, object, results>>
    /\ \E b, j : /\ Move(w, b) /\ IsAttempt(b) /\ b.pc \notin Packaged \cup {"package"}
                 /\ job' = [job EXCEPT ![w] = j]

GuestMoved(w) ==
    /\ UNCHANGED <<file, object, results, job>>
    /\ \E guest : Move(w, [builder[w] EXCEPT !.guest = guest])

Assembled(w) ==
    /\ UNCHANGED <<file, object, results, job>>
    /\ \E tree, session :
        /\ Move(w, [builder[w] EXCEPT !.pc = "package", !.tree = tree, !.session = session])
        /\ Served(tree, GuestPorts_reserved(job[w].env.services))

\* What a call of an attempt with a packaged image does to the two caches.
Wrote(from, to, d) ==
    \/ /\ from = "publish" /\ to = "upload" /\ file[d] # "absent"
       /\ UNCHANGED <<file, object>>
    \/ /\ from = "publish" /\ to = "copy" /\ file[d] = "absent"
       /\ file' = [file EXCEPT ![d] = "partial"] /\ UNCHANGED object
    \/ /\ from = "copy" /\ to = "upload"
       /\ file' = [file EXCEPT ![d] = IF @ = "absent" THEN @ ELSE "whole"] /\ UNCHANGED object
    \/ /\ from = "upload" /\ to = "report" /\ UNCHANGED file
       /\ object' = object \/ object' = [object EXCEPT ![d] = file[d]]

Advanced(w) ==
    /\ UNCHANGED <<results, job>>
    /\ \E to : /\ Move(w, [builder[w] EXCEPT !.pc = to])
               /\ Wrote(builder[w].pc, to, builder[w].digest)

Reported(w) ==
    /\ UNCHANGED <<file, object, image, made, job>>
    /\ builder[w].pc = "report" /\ Move(w, [builder[w] EXCEPT !.pc = "exit"])
    /\ status' = [status EXCEPT ![w] =
            status_after_build(builder[w].digest, job[w].env, builder[w].session)]

Evicted ==
    /\ UNCHANGED <<object, results, builder, job>>
    /\ \E d : /\ object[d] # "absent"
              /\ file' = [file EXCEPT ![d] = "absent"]

\* No attempt, and a new one, are attempts.
LEMMA IdleAttempt ==
    ASSUME NEW w
    PROVE  /\ IsAttempt(Idle) /\ Idle.pc = "none"
           /\ IsAttempt(Attempt(w)) /\ Attempt(w).pc = "vm"
<1>1. IsAttempt(Idle) /\ Idle.pc = "none"
  BY DEF Idle, IsAttempt
<1>2. IsAttempt(Attempt(w)) /\ Attempt(w).pc = "vm"
  BY <1>1, Zenon DEF Attempt, IsAttempt
<1>3. QED
  BY <1>1, <1>2

\* A failed attempt touches no image.
LEMMA FailedTurns ==
    ASSUME TypeInv, NEW w \in Workshops, NEW message, AttemptFails(w, message),
           UNCHANGED <<file, object, results>>
    PROVE  Turned(w)
<1>1. PICK b \in {Idle, Attempt(w)} : Move(w, b)
  BY Zenon DEF AttemptFails, Move
<1>2. IsAttempt(b) /\ b.pc \notin Packaged \cup {"package"}
  BY <1>1, IdleAttempt DEF Packaged
<1>3. PICK j : job' = [job EXCEPT ![w] = j]
  BY Zenon DEF AttemptFails
<1>4. QED
  BY <1>1, <1>2, <1>3, Zenon DEF Turned

\* Goto changes the call the attempt is at, and nothing else of it.
LEMMA Went ==
    ASSUME NEW w, NEW pc, Goto(w, pc)
    PROVE  Move(w, [builder[w] EXCEPT !.pc = pc])
  BY DEF Goto, Move

\* The assembly fails, or ends with a tree that serves the ports of the Job.
LEMMA AssemblyEffect ==
    ASSUME TypeInv, NEW w \in Workshops, AssembleTree(w)
    PROVE  Turned(w) \/ Assembled(w)
<1>1. UNCHANGED <<file, object, results>>
  BY Zenon DEF AssembleTree, cacheVars, results
<1>2. CASE \E message : AttemptFails(w, message)
  BY <1>1, <1>2, FailedTurns
<1>3. ASSUME NEW cloned \in BOOLEAN,
             check_boot_prerequisites(Assemble(job[w].env, registry[w], cloned)), NEW session,
             builder' = [builder EXCEPT ![w].pc = "package",
                            ![w].tree = Assemble(job[w].env, registry[w], cloned),
                            ![w].session = session],
             UNCHANGED job
      PROVE  Assembled(w)
  <2> DEFINE tree == Assemble(job[w].env, registry[w], cloned)
  <2>1. Served(tree, GuestPorts_reserved(job[w].env.services))
    BY <1>3, AssembledServes
  <2> HIDE DEF tree
  <2>2. Move(w, [builder[w] EXCEPT !.pc = "package", !.tree = tree, !.session = session])
    BY <1>3, Zenon DEF TypeInv, IsMap, Move, tree
  <2>3. QED
    BY <1>1, <1>3, <2>1, <2>2, Zenon DEF Assembled
<1>4. QED
  BY <1>2, <1>3, Zenon DEF AssembleTree

\* The calls that write the cache advance one digest.
LEMMA CacheEffect ==
    ASSUME TypeInv, NEW w \in Workshops, publish_to_cache(w) \/ CopyDone(w) \/ UploadImage(w)
    PROVE  Advanced(w)
<1>1. UNCHANGED <<results, job>>
  BY DEF publish_to_cache, CopyDone, UploadImage, results
<1>2. ASSUME NEW to, Goto(w, to), Wrote(builder[w].pc, to, builder[w].digest)
      PROVE  Advanced(w)
  BY <1>1, <1>2, Went, Zenon DEF Advanced
<1>3. CASE publish_to_cache(w)
  <2>1. CASE /\ file[builder[w].digest] # "absent" /\ UNCHANGED cacheVars
             /\ Goto(w, "upload")
    <3>1. Wrote("publish", "upload", builder[w].digest)
      BY <2>1 DEF cacheVars, Wrote
    <3>2. QED
      BY <1>2, <1>3, <2>1, <3>1 DEF publish_to_cache, At
  <2>2. CASE OpenEntry(builder[w].digest) /\ Goto(w, "copy")
    <3>1. Wrote("publish", "copy", builder[w].digest)
      BY <2>2 DEF OpenEntry, Published, Wrote
    <3>2. QED
      BY <1>2, <1>3, <2>2, <3>1 DEF publish_to_cache, At
  <2>3. QED
    BY <1>3, <2>1, <2>2 DEF publish_to_cache, Published
<1>4. CASE CopyDone(w)
  <2>1. Wrote("copy", "upload", builder[w].digest)
    BY <1>4 DEF CopyDone, CloseEntry, Wrote
  <2>2. QED
    BY <1>2, <1>4, <2>1 DEF CopyDone, At
<1>5. CASE UploadImage(w)
  <2>1. Wrote("upload", "report", builder[w].digest)
    BY <1>5 DEF UploadImage, upload_image_cache_file, cacheVars, Wrote
  <2>2. QED
    BY <1>2, <1>5, <2>1 DEF UploadImage, At
<1>6. QED
  BY <1>3, <1>4, <1>5

\* The report fails, or writes the digest and the ports of the attempt.
LEMMA ReportEffect ==
    ASSUME TypeInv, NEW w \in Workshops, ReportImage(w)
    PROVE  Turned(w) \/ Reported(w)
<1>1. UNCHANGED <<file, object, image, made>> /\ builder[w].pc = "report"
  BY DEF ReportImage, cacheVars, At
<1>2. CASE AttemptFails(w, "error") /\ UNCHANGED status
  BY <1>1, <1>2, FailedTurns DEF results
<1>3. CASE /\ status' = [status EXCEPT ![w] = status_after_build(builder[w].digest, job[w].env,
                                                                   builder[w].session)]
           /\ Goto(w, "exit") /\ UNCHANGED job
  BY <1>1, <1>3, Went DEF Reported
<1>4. QED
  BY <1>2, <1>3 DEF ReportImage

\* The builder microVM changes its own state, or the attempt ends or goes on
\* to the assembly.
LEMMA BuilderEffect ==
    ASSUME TypeInv, NEW w \in Workshops, BuilderVm(w) \/ BuilderVmHangs(w) \/ build_via_microvm(w)
    PROVE  Turned(w) \/ GuestMoved(w)
<1>1. UNCHANGED <<file, object, results>>
  BY DEF BuilderVm, BuilderVmHangs, build_via_microvm, cacheVars, results
<1>2. CASE BuilderVm(w) \/ BuilderVmHangs(w)
  BY <1>1, <1>2 DEF BuilderVm, BuilderVmHangs, GuestMoved, Move
<1>3. CASE AttemptFails(w, "error")
  BY <1>1, <1>3, FailedTurns
<1>4. CASE Goto(w, "assemble") /\ UNCHANGED job
  <2>1. Move(w, [builder[w] EXCEPT !.pc = "assemble"])
    BY <1>4, Went
  <2>2. /\ IsAttempt([builder[w] EXCEPT !.pc = "assemble"])
        /\ [builder[w] EXCEPT !.pc = "assemble"].pc = "assemble"
    BY DEF TypeInv, IsAttempt
  <2>3. job' = [job EXCEPT ![w] = job[w]]
    BY <1>4 DEF TypeInv, IsMap
  <2>4. QED
    BY <1>1, <2>1, <2>2, <2>3, Zenon DEF Turned, Packaged
<1>5. QED
  BY <1>2, <1>3, <1>4 DEF build_via_microvm, run_builder_vm

\* Every step has one of these effects.
LEMMA Effects ==
    ASSUME TypeInv, [Next]_vars
    PROVE  \/ Apart \/ Evicted
           \/ \E w \in Workshops : \/ Turned(w) \/ GuestMoved(w) \/ Assembled(w)
                                   \/ PackageTree(w) \/ Advanced(w) \/ Reported(w)
<1>1. CASE UNCHANGED vars
  BY <1>1 DEF vars, cacheVars, buildVars, Apart, results
<1>2. CASE (Evict \/ EvictionStopped) /\ UNCHANGED buildVars
  <2>1. UNCHANGED <<results, builder, job>>
    BY <1>2 DEF buildVars, results
  <2>2. CASE EvictEntry
    BY <2>1, <2>2, Zenon DEF EvictEntry, Evicted
  <2>3. CASE EvictionTick \/ KeepEntry \/ EvictionEnds \/ EvictionStopped
    BY <2>1, <2>3 DEF EvictionTick, KeepEntry, EvictionEnds, EvictionStopped, Apart
  <2>4. QED
    BY <1>2, <2>2, <2>3 DEF Evict
<1>3. ASSUME NEW w \in Workshops,
             \/ MintKey(w) \/ ReadJob(w) \/ Watch(w) \/ ControllerFails(w)
             \/ StartPod(w) \/ Boot(w) \/ StopPod(w)
      PROVE  Apart
  BY <1>3 DEF MintKey, ReadJob, Watch, ControllerFails, StartPod, Boot, StopPod, cacheVars,
              results, Apart
<1>4. ASSUME NEW w \in Workshops, CreateJob(w) \/ JobCompletes(w) \/ BuilderKilled(w)
      PROVE  Turned(w)
  <2>1. UNCHANGED <<file, object, results>>
    BY <1>4 DEF CreateJob, JobCompletes, BuilderKilled, cacheVars, results
  <2>2. CASE BuilderKilled(w)
    BY <2>1, <2>2, FailedTurns DEF BuilderKilled
  <2>3. CASE CreateJob(w) \/ JobCompletes(w)
    <3>1. PICK b \in {Idle, Attempt(w)} : Move(w, b)
      BY <2>3, Zenon DEF CreateJob, JobCompletes, Move
    <3>2. IsAttempt(b) /\ b.pc \notin Packaged \cup {"package"}
      BY <3>1, IdleAttempt DEF Packaged
    <3>3. \E j : job' = [job EXCEPT ![w] = j]
      BY <2>3, Zenon DEF CreateJob, JobCompletes
    <3>4. QED
      BY <2>1, <3>1, <3>2, <3>3, Zenon DEF Turned
  <2>4. QED
    BY <1>4, <2>2, <2>3
<1>5. ASSUME NEW w \in Workshops, BuildStep(w) \/ BuilderVm(w) \/ BuilderVmHangs(w)
      PROVE  \/ Turned(w) \/ GuestMoved(w) \/ Assembled(w)
             \/ PackageTree(w) \/ Advanced(w) \/ Reported(w)
  BY <1>4, <1>5, AssemblyEffect, CacheEffect, ReportEffect, BuilderEffect DEF BuildStep
<1>6. QED
  BY <1>1, <1>2, <1>3, <1>4, <1>5 DEF Next

\* What Move leaves of the builds.
LEMMA Moved ==
    ASSUME TypeInv, NEW w \in Workshops, NEW b, IsAttempt(b), Move(w, b)
    PROVE  /\ IsMap(builder', Workshops) /\ \A v \in Workshops : IsAttempt(builder'[v])
           /\ builder'[w] = b /\ \A v \in Workshops \ {w} : builder'[v] = builder[v]
<1>1. /\ IsMap(builder', Workshops) /\ builder'[w] = b
      /\ \A v \in Workshops \ {w} : builder'[v] = builder[v]
  BY DEF TypeInv, IsMap, Move
<1>2. QED
  BY <1>1 DEF TypeInv

\* Moving an attempt to another call keeps its digest.
LEMMA PcAttempt ==
    ASSUME NEW b, IsAttempt(b), NEW pc
    PROVE  /\ IsAttempt([b EXCEPT !.pc = pc]) /\ [b EXCEPT !.pc = pc].pc = pc
           /\ [b EXCEPT !.pc = pc].digest = b.digest
  BY DEF IsAttempt

\* Packaging gives the tree of the attempt to one digest and counts it.
LEMMA PackagedAttempt ==
    ASSUME TypeInv, NEW w \in Workshops, PackageTree(w)
    PROVE  \E d, b :
            /\ d \in sha256_file(builder[w].tree)
            /\ image' = [image EXCEPT ![d] = builder[w].tree]
            /\ made' = [made EXCEPT ![d] = @ + 1]
            /\ IsAttempt(b) /\ b.pc = "publish" /\ b.digest = d /\ Move(w, b)
<1>1. PICK d \in sha256_file(builder[w].tree) :
        /\ image' = [image EXCEPT ![d] = builder[w].tree]
        /\ made' = [made EXCEPT ![d] = @ + 1]
        /\ builder' = [builder EXCEPT ![w].pc = "publish", ![w].digest = d, ![w].tree = <<>>]
  BY Zenon DEF PackageTree
<1> DEFINE b == [builder[w] EXCEPT !.pc = "publish", !.digest = d, !.tree = <<>>]
<1>2. Move(w, b)
  BY <1>1, Zenon DEF TypeInv, IsMap, Move
<1>3. IsAttempt(b) /\ b.pc = "publish" /\ b.digest = d
  BY Zenon DEF TypeInv, IsAttempt
<1>4. QED
  BY <1>1, <1>2, <1>3, Zenon

\* A digest is never given to another tree than the one it had.
LEMMA Digests ==
    ASSUME NEW tree, NEW d \in sha256_file(tree)
    PROVE  d \in Digest /\ (image[d] = tree \/ made[d] = 0)
  BY DEF sha256_file

\* Every step keeps the shape of the maps and of the attempts.
LEMMA TypeStep ==
    ASSUME TypeInv, [Next]_vars
    PROVE  TypeInv'
<1> DEFINE Caches == /\ IsMap(file, Digest) /\ IsMap(object, Digest)
           Results == /\ IsMap(image, Digest) /\ IsMap(made, Digest)
                      /\ \A d \in Digest : made[d] \in Nat
           Builds == IsMap(builder, Workshops) /\ \A w \in Workshops : IsAttempt(builder[w])
           Jobs == IsMap(job, Workshops)
           Statuses == IsMap(status, Workshops)
<1>0. Caches /\ Results /\ Builds /\ Jobs /\ Statuses
  BY DEF TypeInv
<1>1. SUFFICES Caches' /\ Results' /\ Builds' /\ Jobs' /\ Statuses'
  BY DEF TypeInv
<1>2. /\ UNCHANGED <<file, object>> => Caches'
      /\ UNCHANGED <<image, made>> => Results'
      /\ UNCHANGED builder => Builds'
      /\ UNCHANGED job => Jobs'
      /\ UNCHANGED status => Statuses'
  BY <1>0
<1>3. CASE Apart
  BY <1>2, <1>3 DEF Apart, results
<1>4. CASE Evicted
  <2>1. Caches'
    BY <1>0, <1>4 DEF Evicted, IsMap
  <2>2. QED
    BY <1>2, <1>4, <2>1 DEF Evicted, results
<1>5. ASSUME NEW w \in Workshops, NEW b, IsAttempt(b), Move(w, b)
      PROVE  Builds'
  BY <1>5, Moved
<1>6. ASSUME NEW w \in Workshops
      PROVE  IsAttempt(builder[w])
  BY DEF TypeInv
<1>7. ASSUME NEW w \in Workshops, Turned(w)
      PROVE  Builds' /\ Jobs'
  <2>1. PICK b, j : Move(w, b) /\ IsAttempt(b) /\ job' = [job EXCEPT ![w] = j]
    BY <1>7, Zenon DEF Turned
  <2>2. Jobs'
    BY <1>0, <2>1 DEF IsMap
  <2>3. QED
    BY <1>5, <2>1, <2>2
<1>8. ASSUME NEW w \in Workshops, GuestMoved(w) \/ Assembled(w)
      PROVE  Builds'
  <2>1. PICK b, guest, tree, session :
            /\ Move(w, b)
            /\ \/ b = [builder[w] EXCEPT !.guest = guest]
               \/ b = [builder[w] EXCEPT !.pc = "package", !.tree = tree, !.session = session]
    BY <1>8, Zenon DEF GuestMoved, Assembled
  <2>2. IsAttempt(b)
    BY <1>6, <2>1, Zenon DEF IsAttempt
  <2>3. QED
    BY <1>5, <2>1, <2>2
<1>9. ASSUME NEW w \in Workshops, PackageTree(w)
      PROVE  Builds' /\ Results'
  <2>1. PICK d, b :
            /\ d \in sha256_file(builder[w].tree)
            /\ image' = [image EXCEPT ![d] = builder[w].tree]
            /\ made' = [made EXCEPT ![d] = @ + 1]
            /\ IsAttempt(b) /\ Move(w, b)
    BY <1>9, PackagedAttempt, Zenon
  <2>2. IsMap(image', Digest) /\ IsMap(made', Digest)
    BY <1>0, <2>1, Zenon DEF IsMap
  <2>3. \A e \in Digest : made'[e] \in Nat
    BY <1>0, <2>1, Digests DEF IsMap
  <2>4. QED
    BY <1>5, <2>1, <2>2, <2>3
<1>10. ASSUME NEW w \in Workshops, Advanced(w)
       PROVE  Builds' /\ Caches'
  <2>1. PICK to : /\ Move(w, [builder[w] EXCEPT !.pc = to])
                  /\ Wrote(builder[w].pc, to, builder[w].digest)
    BY <1>10 DEF Advanced
  <2>2. Caches'
    BY <1>0, <2>1 DEF Wrote, IsMap
  <2>3. QED
    BY <1>5, <1>6, <2>1, <2>2, PcAttempt
<1>11. ASSUME NEW w \in Workshops, Reported(w)
       PROVE  Builds' /\ Statuses'
  <2>1. Statuses'
    BY <1>0, <1>11 DEF Reported, IsMap
  <2>2. QED
    BY <1>5, <1>6, <1>11, <2>1, PcAttempt DEF Reported
<1> HIDE DEF Caches, Results, Builds, Jobs, Statuses
<1>12. CASE \E w \in Workshops : Turned(w) \/ GuestMoved(w) \/ Assembled(w)
  BY <1>2, <1>7, <1>8, <1>12, Zenon DEF Turned, GuestMoved, Assembled, results
<1>13. CASE \E w \in Workshops : PackageTree(w) \/ Advanced(w) \/ Reported(w)
  BY <1>2, <1>9, <1>10, <1>11, <1>13, Zenon DEF PackageTree, Advanced, Reported, results, cacheVars
<1>14. QED
  BY <1>3, <1>4, <1>12, <1>13, Effects

-----------------------------------------------------------------------------
(* The image of a digest that one build has packaged.                        *)

Held(b, w, d) == b[w].pc \in Packaged /\ b[w].digest = d
Named(s, w, d) == s[w] # <<>> /\ s[w].digest = d

Kept(f, o) == (f = "whole" /\ o \in {"absent", "whole"}) \/ (f = "absent" /\ o = "whole")

\* How far the image has come on the volume and in the bucket.
Stage(pc, f, o) ==
    /\ pc = "publish" => f = "absent" /\ o = "absent"
    /\ pc = "copy" => f = "partial" /\ o = "absent"
    /\ pc = "upload" => f = "whole" /\ o = "absent"
    /\ pc \in {"report", "exit"} => Kept(f, o)

Unused(d, f, o, b, s) ==
    /\ f = "absent" /\ o = "absent"
    /\ \A w \in Workshops : ~Held(b, w, d) /\ ~Named(s, w, d)

\* One attempt works on it, until a status names it.
Owned(d, f, o, b, s) ==
    /\ \A w, v \in Workshops : Held(b, w, d) /\ Held(b, v, d) => w = v
    /\ \A w, v \in Workshops : Named(s, w, d) /\ Held(b, v, d) => b[v].pc = "exit"
    /\ \A w \in Workshops : Held(b, w, d) => Stage(b[w].pc, f, o)
    /\ \A w \in Workshops : Named(s, w, d) => Kept(f, o)

Sound(d, n, f, o, b, s) ==
    /\ n = 0 => Unused(d, f, o, b, s)
    /\ n = 1 => Owned(d, f, o, b, s)

ImageInv ==
    /\ \A w \in Workshops : builder[w].pc \in Packaged => builder[w].digest \in Digest
    /\ \A w \in Workshops : status[w] # <<>> => status[w].digest \in Digest
    /\ \A d \in Digest : Sound(d, made[d], file[d], object[d], builder, status)

\* No build packages, publishes or reports.
LEMMA Fewer ==
    ASSUME ImageInv, UNCHANGED <<file, object, made, status>>,
           \A w \in Workshops : builder'[w].pc \in Packaged =>
                builder'[w].pc = builder[w].pc /\ builder'[w].digest = builder[w].digest
    PROVE  ImageInv'
<1>1. \A w \in Workshops : \A d : Held(builder', w, d) =>
            Held(builder, w, d) /\ builder'[w].pc = builder[w].pc
  BY DEF Held
<1>2. ASSUME NEW d \in Digest
      PROVE  Sound(d, made[d], file[d], object[d], builder', status)
  <2>1. Sound(d, made[d], file[d], object[d], builder, status)
    BY DEF ImageInv
  <2>2. Unused(d, file[d], object[d], builder, status)
            => Unused(d, file[d], object[d], builder', status)
    BY <1>1 DEF Unused
  <2>3. Owned(d, file[d], object[d], builder, status)
            => Owned(d, file[d], object[d], builder', status)
    BY <1>1 DEF Owned
  <2>4. QED
    BY <2>1, <2>2, <2>3 DEF Sound
<1>3. QED
  BY <1>2 DEF ImageInv

\* Steps before the packaging hold no digest.
LEMMA TurnedKeeps ==
    ASSUME TypeInv, ImageInv, NEW w \in Workshops, Turned(w) \/ GuestMoved(w) \/ Assembled(w)
    PROVE  ImageInv'
<1>1. PICK b, guest, tree, session :
        /\ Move(w, b)
        /\ \/ IsAttempt(b) /\ b.pc \notin Packaged
           \/ b = [builder[w] EXCEPT !.guest = guest]
           \/ b = [builder[w] EXCEPT !.pc = "package", !.tree = tree, !.session = session]
  BY Zenon DEF Turned, GuestMoved, Assembled
<1>2. IsAttempt(builder[w])
  BY DEF TypeInv
<1>3. /\ IsAttempt(b)
      /\ \/ b.pc \notin Packaged \/ b.pc = "package"
         \/ b.pc = builder[w].pc /\ b.digest = builder[w].digest
  BY <1>1, <1>2, Zenon DEF IsAttempt
<1>4. b.pc \in Packaged => b.pc = builder[w].pc /\ b.digest = builder[w].digest
  BY <1>3 DEF Packaged
<1>5. builder'[w] = b /\ \A v \in Workshops \ {w} : builder'[v] = builder[v]
  BY <1>1, <1>3, Moved
<1>6. \A v \in Workshops : builder'[v].pc \in Packaged =>
            builder'[v].pc = builder[v].pc /\ builder'[v].digest = builder[v].digest
  BY <1>4, <1>5
<1>7. UNCHANGED <<file, object, made, status>>
  BY Zenon DEF Turned, GuestMoved, Assembled, results
<1>8. QED
  BY <1>6, <1>7, Fewer

\* A digest packaged for the first time is the attempt's own.
LEMMA PackageKeeps ==
    ASSUME TypeInv, ImageInv, NEW w \in Workshops, PackageTree(w)
    PROVE  ImageInv'
<1>1. PICK e, b :
        /\ e \in sha256_file(builder[w].tree)
        /\ made' = [made EXCEPT ![e] = @ + 1]
        /\ IsAttempt(b) /\ b.pc = "publish" /\ b.digest = e /\ Move(w, b)
  BY PackagedAttempt, Zenon
<1>2. builder'[w] = b /\ \A v \in Workshops \ {w} : builder'[v] = builder[v]
  BY <1>1, Moved
<1>3. e \in Digest
  BY <1>1, Digests
<1>4. UNCHANGED <<file, object, status>>
  BY DEF PackageTree, cacheVars
<1>5. ASSUME NEW d \in Digest
      PROVE  Sound(d, made'[d], file[d], object[d], builder', status)
  <2>1. Sound(d, made[d], file[d], object[d], builder, status)
    BY DEF ImageInv
  <2>2. CASE d # e
    <3>1. made'[d] = made[d]
      BY <1>1, <2>2 DEF TypeInv, IsMap
    <3>2. \A v \in Workshops : Held(builder', v, d) => v # w /\ builder'[v] = builder[v]
      BY <1>1, <1>2, <2>2 DEF Held
    <3>3. \A v \in Workshops : Held(builder', v, d) =>
                Held(builder, v, d) /\ builder'[v].pc = builder[v].pc
      BY <3>2 DEF Held
    <3>4. Unused(d, file[d], object[d], builder, status)
            => Unused(d, file[d], object[d], builder', status)
      BY <3>3 DEF Unused
    <3>5. Owned(d, file[d], object[d], builder, status)
            => Owned(d, file[d], object[d], builder', status)
      BY <3>3 DEF Owned
    <3>6. QED
      BY <2>1, <3>1, <3>4, <3>5 DEF Sound
  <2>3. CASE d = e
    <3>1. made'[d] = made[d] + 1 /\ made[d] \in Nat
      BY <1>1, <2>3 DEF TypeInv, IsMap
    <3>2. SUFFICES ASSUME made[d] = 0
                   PROVE  Owned(d, file[d], object[d], builder', status)
      BY <3>1 DEF Sound
    <3>3. Unused(d, file[d], object[d], builder, status)
      BY <2>1, <3>2 DEF Sound
    <3>4. \A v \in Workshops : Held(builder', v, d) => v = w
      BY <1>2, <3>3 DEF Unused, Held
    <3>5. Stage(builder'[w].pc, file[d], object[d])
      BY <1>1, <1>2, <3>3 DEF Unused, Stage
    <3>6. QED
      BY <3>3, <3>4, <3>5 DEF Owned, Unused
  <2>4. QED
    BY <2>2, <2>3
<1>6. \A v \in Workshops : builder'[v].pc \in Packaged => builder'[v].digest \in Digest
  BY <1>1, <1>2, <1>3 DEF ImageInv
<1>7. QED
  BY <1>4, <1>5, <1>6 DEF ImageInv

\* Publishing and uploading leave a digest whole before moving on.
LEMMA AdvanceKeeps ==
    ASSUME TypeInv, ImageInv, NEW w \in Workshops, Advanced(w)
    PROVE  ImageInv'
<1> DEFINE e == builder[w].digest
           from == builder[w].pc
<1>1. PICK to : Move(w, [builder[w] EXCEPT !.pc = to]) /\ Wrote(from, to, e)
  BY DEF Advanced
<1>2. UNCHANGED <<made, status>>
  BY DEF Advanced, results
<1>3. /\ from \in {"publish", "copy", "upload"} /\ from \in Packaged /\ to \in Packaged
      /\ e \in Digest
  BY <1>1 DEF Wrote, Packaged, ImageInv
<1>4. /\ builder'[w].pc = to /\ builder'[w].digest = e
      /\ \A v \in Workshops \ {w} : builder'[v] = builder[v]
  <2> DEFINE b == [builder[w] EXCEPT !.pc = to]
  <2>1. IsAttempt(builder[w]) /\ Move(w, b)
    BY <1>1 DEF TypeInv
  <2>2. IsAttempt(b) /\ b.pc = to /\ b.digest = e
    BY <2>1, PcAttempt
  <2> HIDE DEF b
  <2>3. QED
    BY <2>1, <2>2, Moved
<1>5. \A v \in Workshops : \A d : Held(builder', v, d) => Held(builder, v, d)
  BY <1>3, <1>4 DEF Held
<1>6. ASSUME NEW d \in Digest
      PROVE  Sound(d, made[d], file'[d], object'[d], builder', status)
  <2>1. Sound(d, made[d], file[d], object[d], builder, status)
    BY DEF ImageInv
  <2>2. CASE d # e
    <3>1. file'[d] = file[d] /\ object'[d] = object[d]
      BY <1>1, <2>2 DEF Wrote, TypeInv, IsMap
    <3>2. \A v \in Workshops : Held(builder', v, d) => builder'[v].pc = builder[v].pc
      BY <1>4, <2>2 DEF Held
    <3>3. Unused(d, file[d], object[d], builder, status)
            => Unused(d, file[d], object[d], builder', status)
      BY <1>5 DEF Unused
    <3>4. Owned(d, file[d], object[d], builder, status)
            => Owned(d, file[d], object[d], builder', status)
      BY <1>5, <3>2 DEF Owned
    <3>5. QED
      BY <2>1, <3>1, <3>3, <3>4 DEF Sound
  <2>3. CASE d = e
    <3>1. Held(builder, w, d)
      BY <1>3, <2>3 DEF Held
    <3>2. made[d] # 0
      BY <2>1, <3>1 DEF Sound, Unused
    <3>3. SUFFICES ASSUME Owned(d, file[d], object[d], builder, status)
                   PROVE  Owned(d, file'[d], object'[d], builder', status)
      BY <2>1, <3>2 DEF Sound
    <3>4. \A v \in Workshops : ~Named(status, v, d)
      BY <1>3, <3>1, <3>3 DEF Owned
    <3>5. \A v \in Workshops : Held(builder', v, d) => v = w
      BY <1>5, <3>1, <3>3 DEF Owned
    <3>6. Stage(from, file[d], object[d])
      BY <3>1, <3>3 DEF Owned
    <3>7. Stage(to, file'[d], object'[d])
      <4>1. CASE from = "publish"
        BY <1>1, <1>3, <2>3, <3>6, <4>1 DEF Wrote, Stage, TypeInv, IsMap
      <4>2. CASE from = "copy"
        BY <1>1, <1>3, <2>3, <3>6, <4>2 DEF Wrote, Stage, TypeInv, IsMap
      <4>3. CASE from = "upload"
        BY <1>1, <1>3, <2>3, <3>6, <4>3 DEF Wrote, Stage, Kept, TypeInv, IsMap
      <4>4. QED
        BY <1>3, <4>1, <4>2, <4>3
    <3>8. QED
      BY <1>4, <3>4, <3>5, <3>7 DEF Owned
  <2>4. QED
    BY <2>2, <2>3
<1>7. \A v \in Workshops : builder'[v].pc \in Packaged => builder'[v].digest \in Digest
  BY <1>3, <1>4 DEF ImageInv
<1>8. QED
  BY <1>2, <1>6, <1>7 DEF ImageInv

\* An attempt reports a digest it has published.
LEMMA ReportKeeps ==
    ASSUME TypeInv, ImageInv, NEW w \in Workshops, Reported(w)
    PROVE  ImageInv'
<1> DEFINE e == builder[w].digest
<1>1. UNCHANGED <<made, file, object>> /\ builder[w].pc = "report"
  BY DEF Reported
<1>2. e \in Digest
  BY <1>1 DEF ImageInv, Packaged
<1>3. /\ builder'[w].pc = "exit" /\ builder'[w].digest = e
      /\ \A v \in Workshops \ {w} : builder'[v] = builder[v]
  <2> DEFINE b == [builder[w] EXCEPT !.pc = "exit"]
  <2>1. IsAttempt(builder[w]) /\ Move(w, b)
    BY DEF TypeInv, Reported
  <2>2. IsAttempt(b) /\ b.pc = "exit" /\ b.digest = e
    BY <2>1, PcAttempt
  <2> HIDE DEF b
  <2>3. QED
    BY <2>1, <2>2, Moved
<1>4. /\ status'[w].digest = e
      /\ \A v \in Workshops \ {w} : status'[v] = status[v]
  BY DEF Reported, status_after_build, TypeInv, IsMap
<1>5. \A v \in Workshops : \A d : Held(builder', v, d) => Held(builder, v, d)
  BY <1>1, <1>3 DEF Held, Packaged
<1>6. ASSUME NEW d \in Digest
      PROVE  Sound(d, made[d], file[d], object[d], builder', status')
  <2>1. Sound(d, made[d], file[d], object[d], builder, status)
    BY DEF ImageInv
  <2>2. CASE d # e
    <3>1. \A v \in Workshops : Named(status', v, d) => Named(status, v, d)
      BY <1>4, <2>2 DEF Named
    <3>2. \A v \in Workshops : Held(builder', v, d) => builder'[v].pc = builder[v].pc
      BY <1>3, <2>2 DEF Held
    <3>3. Unused(d, file[d], object[d], builder, status)
            => Unused(d, file[d], object[d], builder', status')
      BY <1>5, <3>1 DEF Unused
    <3>4. Owned(d, file[d], object[d], builder, status)
            => Owned(d, file[d], object[d], builder', status')
      BY <1>5, <3>1, <3>2 DEF Owned
    <3>5. QED
      BY <2>1, <3>3, <3>4 DEF Sound
  <2>3. CASE d = e
    <3>1. Held(builder, w, d)
      BY <1>1, <2>3 DEF Held, Packaged
    <3>2. made[d] # 0
      BY <2>1, <3>1 DEF Sound, Unused
    <3>3. SUFFICES ASSUME Owned(d, file[d], object[d], builder, status)
                   PROVE  Owned(d, file[d], object[d], builder', status')
      BY <2>1, <3>2 DEF Sound
    <3>4. \A v \in Workshops : Held(builder', v, d) => v = w
      BY <1>5, <3>1, <3>3 DEF Owned
    <3>5. Kept(file[d], object[d])
      BY <1>1, <3>1, <3>3 DEF Owned, Stage
    <3>6. Stage(builder'[w].pc, file[d], object[d])
      BY <1>3, <3>5 DEF Stage
    <3>7. QED
      BY <1>3, <3>4, <3>5, <3>6 DEF Owned
  <2>4. QED
    BY <2>2, <2>3
<1>7. \A v \in Workshops : builder'[v].pc \in Packaged => builder'[v].digest \in Digest
  BY <1>2, <1>3 DEF ImageInv
<1>8. \A v \in Workshops : status'[v] # <<>> => status'[v].digest \in Digest
  BY <1>2, <1>4 DEF ImageInv
<1>9. QED
  BY <1>1, <1>6, <1>7, <1>8 DEF ImageInv

\* The eviction takes what it has found in the bucket.
LEMMA EvictKeeps ==
    ASSUME TypeInv, ImageInv, Evicted
    PROVE  ImageInv'
<1>1. UNCHANGED <<object, made, status, builder>>
  BY DEF Evicted, results
<1>2. PICK e : object[e] # "absent" /\ file' = [file EXCEPT ![e] = "absent"]
  BY Zenon DEF Evicted
<1>3. ASSUME NEW d \in Digest
      PROVE  Sound(d, made[d], file'[d], object[d], builder, status)
  <2>1. Sound(d, made[d], file[d], object[d], builder, status)
    BY DEF ImageInv
  <2>2. file'[d] = file[d] \/ (object[d] # "absent" /\ file'[d] = "absent")
    BY <1>2 DEF TypeInv, IsMap
  <2>3. ASSUME object[d] # "absent", file'[d] = "absent"
        PROVE  /\ ~Unused(d, file[d], object[d], builder, status)
               /\ Kept(file[d], object[d]) => Kept(file'[d], object[d])
               /\ \A pc \in Packaged : Stage(pc, file[d], object[d])
                                         => Stage(pc, file'[d], object[d])
    BY <2>3 DEF Unused, Kept, Stage, Packaged
  <2>4. ASSUME object[d] # "absent", file'[d] = "absent",
               Owned(d, file[d], object[d], builder, status)
        PROVE  Owned(d, file'[d], object[d], builder, status)
    BY <2>3, <2>4 DEF Owned, Held
  <2>5. QED
    BY <2>1, <2>2, <2>3, <2>4 DEF Sound
<1>4. QED
  BY <1>1, <1>3 DEF ImageInv

\* Every step keeps the images sound: the eviction removes only a file that
\* has an object.
LEMMA ImageStep ==
    ASSUME TypeInv, ImageInv, [Next]_vars
    PROVE  ImageInv'
<1>1. CASE Apart
  <2>1. UNCHANGED <<file, object, made, status, builder>>
    BY <1>1 DEF Apart, results
  <2>2. QED
    BY <2>1, Fewer
<1>2. QED
  BY <1>1, Effects, TurnedKeeps, PackageKeeps, AdvanceKeeps, ReportKeeps, EvictKeeps

\* Initially there is no image and no attempt.
LEMMA InitImage == Init => TypeInv /\ ImageInv
<1> SUFFICES ASSUME Init PROVE TypeInv /\ ImageInv
  OBVIOUS
<1>1. /\ file = [d \in Digest |-> "absent"] /\ object = [d \in Digest |-> "absent"]
      /\ image = [d \in Digest |-> <<>>] /\ made = [d \in Digest |-> 0]
      /\ status = [w \in Workshops |-> <<>>] /\ builder = [w \in Workshops |-> Idle]
      /\ IsMap(job, Workshops)
  BY DEF Init, CacheInit, IsMap
<1>2. TypeInv
  BY <1>1, IdleAttempt DEF TypeInv, IsMap
<1>3. \A w \in Workshops : \A d : ~Held(builder, w, d) /\ ~Named(status, w, d)
  BY <1>1, IdleAttempt DEF Held, Named, Packaged
<1>4. \A d \in Digest : Sound(d, made[d], file[d], object[d], builder, status)
  BY <1>1, <1>3 DEF Sound, Unused
<1>5. QED
  BY <1>1, <1>2, <1>4, IdleAttempt DEF ImageInv, Packaged

\* publish_to_cache, the upload, the eviction script: for any number of
\* Workshops, images and faults, an image that a status names and that one
\* build packaged is whole on the volume, or evicted and whole in the bucket.
THEOREM ImagesAreKept == Spec => []ReportedIsKept
<1>1. Init => TypeInv /\ ImageInv
  BY InitImage
<1>2. TypeInv /\ ImageInv /\ [Next]_vars => TypeInv' /\ ImageInv'
  BY TypeStep, ImageStep
<1>3. ImageInv => ReportedIsKept
  <2> SUFFICES ASSUME ImageInv, NEW w \in Workshops, status[w] # <<>>,
                      made[status[w].digest] = 1
               PROVE  LET d == status[w].digest
                      IN  \/ file[d] = "whole"
                          \/ file[d] = "absent" /\ object[d] = "whole"
    BY DEF ReportedIsKept
  <2> DEFINE d == status[w].digest
  <2>1. d \in Digest
    BY DEF ImageInv
  <2>2. Owned(d, file[d], object[d], builder, status)
    BY <2>1 DEF ImageInv, Sound
  <2>3. Kept(file[d], object[d])
    BY <2>2 DEF Owned, Named
  <2>4. QED
    BY <2>3 DEF Kept
<1>4. QED
  BY <1>1, <1>2, <1>3, PTL DEF Spec

-----------------------------------------------------------------------------
(* What the images serve.                                                    *)

\* What an attempt has come to serves the ports of its Job.
Attested(b, j, im) ==
    LET ports == GuestPorts_reserved(j.env.services)
    IN  /\ b.pc = "package" => Served(b.tree, ports)
        /\ b.pc \in Packaged => Served(im[b.digest], ports)

Announced(s, im) == s # <<>> => Served(im[s.digest], s.ports)

ServedInv ==
    \A w \in Workshops : Attested(builder[w], job[w], image) /\ Announced(status[w], image)

\* An attempt carries a tree that serves its ports from its assembly on.
LEMMA AttemptServed ==
    ASSUME TypeInv, ServedInv, NEW w \in Workshops,
           \/ Turned(w) \/ GuestMoved(w) \/ Assembled(w) \/ Advanced(w)
    PROVE  ServedInv'
<1>1. UNCHANGED <<image, status>>
  BY Zenon DEF Turned, GuestMoved, Assembled, Advanced, results
<1>2. \A v \in Workshops : Announced(status[v], image)
  BY DEF ServedInv
<1>3. IsAttempt(builder[w]) /\ Attested(builder[w], job[w], image)
  BY DEF TypeInv, ServedInv
<1>4. ASSUME NEW b, IsAttempt(b), Move(w, b), Attested(b, job'[w], image),
             \A v \in Workshops \ {w} : job'[v] = job[v]
      PROVE  ServedInv'
  <2>1. builder'[w] = b /\ \A v \in Workshops \ {w} : builder'[v] = builder[v]
    BY <1>4, Moved
  <2>2. \A v \in Workshops : Attested(builder'[v], job'[v], image)
    BY <1>4, <2>1 DEF ServedInv
  <2>3. QED
    BY <1>1, <1>2, <2>2 DEF ServedInv
<1>5. CASE Turned(w)
  <2>1. PICK b, j : /\ Move(w, b) /\ IsAttempt(b) /\ b.pc \notin Packaged \cup {"package"}
                    /\ job' = [job EXCEPT ![w] = j]
    BY <1>5, Zenon DEF Turned
  <2>2. \A v \in Workshops \ {w} : job'[v] = job[v]
    BY <2>1 DEF TypeInv, IsMap
  <2>3. Attested(b, job'[w], image)
    BY <2>1 DEF Attested
  <2>4. QED
    BY <1>4, <2>1, <2>2, <2>3
<1>6. CASE GuestMoved(w)
  <2>1. PICK guest : Move(w, [builder[w] EXCEPT !.guest = guest])
    BY <1>6 DEF GuestMoved
  <2> DEFINE b == [builder[w] EXCEPT !.guest = guest]
  <2>2. /\ IsAttempt(b) /\ b.pc = builder[w].pc /\ b.tree = builder[w].tree
        /\ b.digest = builder[w].digest
    BY <1>3 DEF IsAttempt
  <2> HIDE DEF b
  <2>3. UNCHANGED job
    BY <1>6 DEF GuestMoved
  <2>4. Attested(b, job'[w], image)
    BY <1>3, <2>2, <2>3 DEF Attested
  <2>5. QED
    BY <1>4, <2>1, <2>2, <2>3, <2>4 DEF b
<1>7. CASE Assembled(w)
  <2>1. PICK tree, session :
            /\ Move(w, [builder[w] EXCEPT !.pc = "package", !.tree = tree, !.session = session])
            /\ Served(tree, GuestPorts_reserved(job[w].env.services))
    BY <1>7, Zenon DEF Assembled
  <2> DEFINE b == [builder[w] EXCEPT !.pc = "package", !.tree = tree, !.session = session]
  <2>2. IsAttempt(b) /\ b.pc = "package" /\ b.tree = tree
    BY <1>3, Zenon DEF IsAttempt
  <2> HIDE DEF b
  <2>3. UNCHANGED job
    BY <1>7, Zenon DEF Assembled
  <2>4. Attested(b, job'[w], image)
    BY <2>1, <2>2, <2>3 DEF Attested, Packaged
  <2>5. QED
    BY <1>4, <2>1, <2>2, <2>3, <2>4 DEF b
<1>8. CASE Advanced(w)
  <2>1. PICK to : /\ Move(w, [builder[w] EXCEPT !.pc = to])
                  /\ Wrote(builder[w].pc, to, builder[w].digest)
    BY <1>8 DEF Advanced
  <2>2. builder[w].pc \in Packaged /\ to \in Packaged
    BY <2>1 DEF Wrote, Packaged
  <2> DEFINE b == [builder[w] EXCEPT !.pc = to]
  <2>3. IsAttempt(b) /\ b.pc = to /\ b.digest = builder[w].digest
    BY <1>3, PcAttempt
  <2> HIDE DEF b
  <2>4. UNCHANGED job
    BY <1>8 DEF Advanced
  <2>5. Attested(b, job'[w], image)
    BY <1>3, <2>2, <2>3, <2>4 DEF Attested, Packaged
  <2>6. QED
    BY <1>4, <2>1, <2>3, <2>4, <2>5 DEF b
<1>9. QED
  BY <1>5, <1>6, <1>7, <1>8

\* The digest of a packaged image is that of an equal one, or a new one, which
\* no attempt and no status has yet.
LEMMA PackageServed ==
    ASSUME TypeInv, ImageInv, ServedInv, NEW w \in Workshops, PackageTree(w)
    PROVE  ServedInv'
<1>1. PICK e, b :
        /\ e \in sha256_file(builder[w].tree)
        /\ image' = [image EXCEPT ![e] = builder[w].tree]
        /\ IsAttempt(b) /\ b.pc = "publish" /\ b.digest = e /\ Move(w, b)
  BY PackagedAttempt, Zenon
<1>2. builder'[w] = b /\ \A v \in Workshops \ {w} : builder'[v] = builder[v]
  BY <1>1, Moved
<1>3. builder[w].pc = "package" /\ UNCHANGED <<status, job>>
  BY DEF PackageTree, At
<1>4. e \in Digest /\ (image[e] = builder[w].tree \/ made[e] = 0)
  BY <1>1 DEF sha256_file
<1>5. image'[e] = builder[w].tree /\ \A d \in Digest \ {e} : image'[d] = image[d]
  BY <1>1, <1>4 DEF TypeInv, IsMap
<1>6. ASSUME NEW d \in Digest, NEW v \in Workshops, Held(builder, v, d) \/ Named(status, v, d)
      PROVE  image'[d] = image[d]
  <2>1. made[d] # 0
    BY <1>6 DEF ImageInv, Sound, Unused
  <2>2. QED
    BY <1>4, <1>5, <2>1
<1>7. \A v \in Workshops : Announced(status[v], image')
  BY <1>6 DEF ServedInv, Announced, ImageInv, Named
<1>8. \A v \in Workshops \ {w} : Attested(builder[v], job[v], image')
  BY <1>6 DEF ServedInv, Attested, ImageInv, Held
<1>9. Attested(b, job[w], image')
  BY <1>1, <1>3, <1>5 DEF ServedInv, Attested
<1>10. QED
  BY <1>2, <1>3, <1>7, <1>8, <1>9 DEF ServedInv

\* What is reported is what the attempt carries.
LEMMA ReportServed ==
    ASSUME TypeInv, ServedInv, NEW w \in Workshops, Reported(w)
    PROVE  ServedInv'
<1>1. /\ UNCHANGED <<image, job>> /\ builder[w].pc = "report"
      /\ Move(w, [builder[w] EXCEPT !.pc = "exit"])
  BY DEF Reported
<1> DEFINE b == [builder[w] EXCEPT !.pc = "exit"]
           s == status_after_build(builder[w].digest, job[w].env, builder[w].session)
<1>2. IsAttempt(b) /\ b.pc = "exit" /\ b.digest = builder[w].digest
  BY PcAttempt DEF TypeInv
<1> HIDE DEF b
<1>3. builder'[w] = b /\ \A v \in Workshops \ {w} : builder'[v] = builder[v]
  BY <1>1, <1>2, Moved DEF b
<1>4. s.digest = builder[w].digest /\ s.ports = GuestPorts_reserved(job[w].env.services)
  BY DEF status_after_build
<1>5. status'[w] = s /\ \A v \in Workshops \ {w} : status'[v] = status[v]
  BY DEF Reported, TypeInv, IsMap
<1> HIDE DEF s
<1>6. Attested(builder[w], job[w], image)
  BY DEF ServedInv
<1>7. Served(image[builder[w].digest], GuestPorts_reserved(job[w].env.services))
  BY <1>1, <1>6 DEF Attested, Packaged
<1>8. Attested(b, job[w], image) /\ Announced(s, image)
  BY <1>2, <1>4, <1>7 DEF Attested, Announced
<1>9. QED
  BY <1>1, <1>3, <1>5, <1>8 DEF ServedInv

\* Every step keeps it; packaging never changes the content of a reported
\* digest.
LEMMA ServedStep ==
    ASSUME TypeInv, ImageInv, ServedInv, [Next]_vars
    PROVE  ServedInv'
<1>1. CASE Apart \/ Evicted
  <2>1. UNCHANGED <<image, status, builder, job>>
    BY <1>1 DEF Apart, Evicted, results
  <2>2. QED
    BY <2>1 DEF ServedInv
<1>2. QED
  BY <1>1, Effects, AttemptServed, PackageServed, ReportServed

\* run of image-builder, status_after_build: for any number of Workshops,
\* images and faults, the image a status names has the init, tools, units and
\* files that the ports the status announces need to be served, unless its
\* base image has no systemd and a /sbin the Job cannot write to.
THEOREM AnnouncementsAreServed == Spec => []AnnouncedIsServed
<1>1. Init => TypeInv /\ ImageInv /\ ServedInv
  <2>1. Init => \A w \in Workshops : builder[w] = Idle /\ status[w] = <<>>
    BY DEF Init
  <2>2. Init => ServedInv
    BY <2>1, IdleAttempt DEF ServedInv, Attested, Announced, Packaged
  <2>3. QED
    BY <2>2, InitImage
<1>2. TypeInv /\ ImageInv /\ ServedInv /\ [Next]_vars => TypeInv' /\ ImageInv' /\ ServedInv'
  BY TypeStep, ImageStep, ServedStep
<1>3. ServedInv => AnnouncedIsServed
  BY DEF ServedInv, Announced, AnnouncedIsServed
<1>4. QED
  BY <1>1, <1>2, <1>3, PTL DEF Spec
=============================================================================
