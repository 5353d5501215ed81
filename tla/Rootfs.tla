------------------------------- MODULE Rootfs -------------------------------
(***************************************************************************)
(* What image-builder makes of the file system it exported: one operator   *)
(* per function of crates/image-builder/src/main.rs that changes the tree,  *)
(* applied in the order of run().  A tree keeps only what the functions     *)
(* test or what a later reader depends on:                                  *)
(*   files      the programs the boot needs and the system trust bundle     *)
(*   init       /sbin/init as the guest finds it: that of the base image,   *)
(*              guest-init, or none                                          *)
(*   sbin       where a path under /sbin leads the Job, which follows links  *)
(*              from its own root: into the tree, or out of it when /sbin is *)
(*              an absolute link                                             *)
(*   vscode     the account of exec, terminal and IDE in passwd and shadow  *)
(*   sshd       the account of the privilege separation of sshd             *)
(*   env        groups of variables in /etc/environment                     *)
(*   sshEnv     the same groups in ~vscode/.ssh/environment                 *)
(*   resolver   /etc/resolv.conf names the net-proxy of the pod             *)
(*   opencode   the agent is in /usr/local/bin                              *)
(*   workspace  what the directory of the sources holds                     *)
(*   units      the services enabled for the boot                           *)
(***************************************************************************)

\* The programs a start script of atelier needs.
Tools == {"bash", "env", "curl"}

Files == Tools \cup {"systemd", "trust"}

Account == {"absent", "locked", "open"}

Services == {"terminal", "ide"}

\* A file system as `crane export` finds it in the registry.
Base == [files : SUBSET Files, init : {"own", "none"}, sbin : {"inside", "outside"},
         vscode : Account]

\* The variables of the Job that decide what the tree becomes: clone the
\* sources, the services of spec.guestServices, the LLM token, the bucket,
\* the CA bundle of the installation.
Environment == [clone : BOOLEAN, services : SUBSET Services,
                token : {"virtual", "shared", "none"},
                s3 : BOOLEAN, ca : BOOLEAN]

\* The programs the image of the Job carries (ENV lines of its Dockerfile).
Baked == {"opencode", "ttyd", "code-server", "sshd", "guest-init"}

\* The tree unpacked from the image in the registry.
export_image_filesystem(base) ==
    [files |-> base.files, init |-> base.init, sbin |-> base.sbin,
     vscode |-> base.vscode, sshd |-> "absent",
     env |-> {}, sshEnv |-> {}, resolver |-> FALSE, opencode |-> FALSE,
     workspace |-> "none", units |-> {}]

\* ~vscode/.ssh/environment is rewritten from the whole /etc/environment.
write_ssh_environment_file(r) == [r EXCEPT !.sshEnv = r.env]

\* Proxy variables, the LLM variables of a Job with a token, and the resolver
\* of the pod.
inject_net_proxy_config(r, token) ==
    [write_ssh_environment_file(
        [r EXCEPT !.env = @ \cup {"proxy"}
                            \cup (IF token = "none" THEN {} ELSE {"token"})])
     EXCEPT !.resolver = TRUE]

\* The enterprise bundle; the variables of git, curl and pip only follow when
\* the image has a system bundle to append to.
inject_enterprise_ca_bundle(r, ca) ==
    IF ~ca THEN r
    ELSE write_ssh_environment_file(
            [r EXCEPT !.env = @ \cup {"nodeCa"}
                                \cup (IF "trust" \in r.files
                                      THEN {"systemCa"} ELSE {})])

inject_opencode_binary(r) == [r EXCEPT !.opencode = "opencode" \in Baked]

\* A clone that fails leaves an empty directory and does not fail the build.
ensure_workspace_clone(r, cloned) ==
    [r EXCEPT !.workspace = IF cloned THEN "sources" ELSE "empty"]

inject_workspace_refresh(r) == [r EXCEPT !.units = @ \cup {"refresh"}]

ensure_empty_workspace(r) == [r EXCEPT !.workspace = "empty"]

\* The session fields are kept when devcontainer.json was cloned (in the
\* image or aside), reads as JSON with comments, and names a plain user and
\* a plain absolute folder.
parse_session_config(declared) == declared = "plain"
read_session_config(cloned, declared) ==
    cloned /\ parse_session_config(declared)

\* An account that is created gets an unlocked entry, one that exists is
\* unlocked.
unlock_shadow_password(account) == "open"
ensure_system_user(account) == unlock_shadow_password(account)

ensure_vscode_user(r) == [r EXCEPT !.vscode = ensure_system_user(@)]
ensure_sshd_user(r) == [r EXCEPT !.sshd = ensure_system_user(@)]

install_and_enable_unit(r, unit) == [r EXCEPT !.units = @ \cup {unit}]

inject_terminal_and_ide(r, services) ==
    IF services = {} \/ ~({"ttyd", "code-server"} \subseteq Baked) THEN r
    ELSE [ensure_vscode_user(r) EXCEPT !.units = @ \cup services]

install_sshd_NoAccount(r) ==
    install_and_enable_unit(ensure_sshd_user(r), "sshd")

install_sshd(r) ==
    install_and_enable_unit(ensure_sshd_user(ensure_vscode_user(r)), "sshd")

inject_sshd(r) == IF "sshd" \in Baked THEN install_sshd(r) ELSE r

inject_clock_sync(r) == install_and_enable_unit(r, "clock")

\* guest-init replaces /sbin/init of an image without systemd.  The path is
\* joined to the directory of the tree: under an absolute /sbin the copy
\* lands in the file system of the Job and the tree is left as it was.
ensure_init_system(r) ==
    IF "systemd" \in r.files \/ "guest-init" \notin Baked \/ r.sbin = "outside" THEN r
    ELSE [r EXCEPT !.init = "guest"]

\* Here links are followed as the guest does.
exists_in_rootfs(r, program) ==
    IF program = "init" THEN r.init # "none" ELSE program \in r.files

check_boot_prerequisites(r) ==
    /\ exists_in_rootfs(r, "systemd") => exists_in_rootfs(r, "init")
    /\ \A tool \in Tools : exists_in_rootfs(r, tool)

\* The services with a port: sshd always has one.
GuestPorts_reserved(services) == services \cup {"sshd"}

\* run() from the export to the check, for a clone that worked or not.
Assemble(env, base, cloned) ==
    LET configured ==
            inject_opencode_binary(
                inject_enterprise_ca_bundle(
                    inject_net_proxy_config(
                        export_image_filesystem(base), env.token), env.ca))
        populated ==
            IF env.clone
            THEN inject_workspace_refresh(
                    ensure_workspace_clone(configured, cloned))
            ELSE ensure_empty_workspace(configured)
    IN  ensure_init_system(
            inject_clock_sync(
                inject_sshd(
                    inject_terminal_and_ide(populated, env.services))))

\* The single patch of the Workshop: ports and session replace those of an
\* earlier image, absent ones included.
status_after_build(digest, env, session) ==
    [digest |-> digest, ports |-> GuestPorts_reserved(env.services),
     session |-> session]

\* An image that starts what it is asked to: an init that runs the units, the
\* programs of the start scripts, the units, and an account sshd lets in with
\* the environment of the pod.
Serves(r, ports) ==
    /\ r.init # "none"
    /\ "systemd" \in r.files \/ r.init = "guest"
    /\ Tools \subseteq r.files
    /\ ports \subseteq r.units
    /\ r.vscode = "open"
    /\ r.sshd = "open"
    /\ r.sshEnv = r.env
    /\ r.resolver

\* The Job can give the tree the init it needs: it has systemd, or its /sbin
\* is inside it.
InitInReach(r) == "systemd" \in r.files \/ r.sbin = "inside"
Served(r, ports) == InitInReach(r) => Serves(r, ports)
=============================================================================
