------------------------------ MODULE Startup ------------------------------
(***************************************************************************)
(* Login startup (rsproxy-cli/src/cli/startup.rs and startup/manifest.rs   *)
(* over rsproxy-platform/src/startup.rs): a manifest that says what to     *)
(* launch, a login item that runs `startup launch`, and the three commands *)
(* install, uninstall and launch, which call start_server, stop_server and *)
(* the system proxy in turn.                                               *)
(***************************************************************************)
EXTENDS SystemProxy

VARIABLES
    manifest,    \* startup.json: NoManifest, Unreadable, or its routing options
    login,       \* whether the login item is registered
    misled       \* what a command was told wrongly (history): "registry", "manifest"

startupVars == <<manifest, login, misled>>

NoManifest == <<>>
Unreadable == [version |-> "unknown"]    \* corrupt, or of another version

\* --service and --bypass are refused without routing.  Where there are no
\* network services a name is recorded and ignored: one stands for all of them.
Manifests ==
    {m \in [system_proxy : BOOLEAN, service : {AllServices} \cup Scopes(platform), bypass : BOOLEAN] :
        m.system_proxy \/ (m.service = AllServices /\ ~m.bypass)}

\* A manifest that cannot be read counts as none, with a warning.
read_manifest_lenient == IF manifest = Unreadable THEN NoManifest ELSE manifest

\* Whether the login item is registered, as the platform reports it: a file on
\* Linux and macOS; on Windows a query, any failure of which reads as "no".
startup_status == {login} \cup (IF platform = "windows" THEN {FALSE} ELSE {})

StartupInit == manifest = NoManifest /\ login = FALSE /\ misled = {}

\* The fields of the calls: disabling or enabling the routing of manifest m,
\* with what follows, and starting or stopping the daemon of the configuration.
Disable(m, next) == [pc |-> "px_plan", sys |-> FALSE, svc |-> m.service, port |-> ConfigPort, then |-> next]
Enable(m, port, next) == [pc |-> "px_plan", sys |-> TRUE, svc |-> m.service, port |-> port, then |-> next, bypass |-> m.bypass]
Start(next) == [pc |-> "st_read", res |-> "", port |-> ConfigPort, prev |-> NoManifest, then |-> next]
Stop(next) == [pc |-> "sp_read", res |-> "", port |-> ConfigPort, then |-> next]
Back(c, next) == At(c, "returned") /\ cli[c].then = next
Finish(c, res) == cli' = [cli EXCEPT ![c] = [Idle EXCEPT !.res = res, !.pc = "returned"]]

-----------------------------------------------------------------------------
\* install.

\* Routing enabled under the manifest that is replaced is switched off when
\* the new one does not cover it.
InstallRead(c) ==
    LET previous == read_manifest_lenient
        narrower == /\ previous # NoManifest
                    /\ previous.system_proxy
                    /\ ~cli[c].mani.system_proxy \/ previous.service # cli[c].mani.service
    IN  /\ At(c, "in_read")
        /\ Go(c, [prev |-> previous] @@ (IF narrower THEN Disable(previous, "in_write")
                                                     ELSE [pc |-> "in_write"]))
        /\ misled' = IF manifest = Unreadable THEN misled \cup {"manifest"} ELSE misled
        /\ UNCHANGED <<daemonVars, proxyVars, manifest, login>>

\* install_file_registration: a temporary file, renamed over the manifest.
write_manifest(c) ==
    /\ At(c, "in_write") \/ Back(c, "in_write")
    /\ \/ manifest' = cli[c].mani /\ Go(c, [pc |-> "in_item", res |-> "", then |-> ""])
       \/ UNCHANGED manifest /\ Finish(c, "failed")
    /\ UNCHANGED <<daemonVars, proxyVars, login, misled>>

\* The item is a file renamed into place, or a `reg` command on Windows, which
\* may fail or be killed after it has taken effect.
RegistryEffect(value) ==
    \/ UNCHANGED <<login, misled>>
    \/ /\ platform = "windows" /\ login # value
       /\ login' = value /\ misled' = misled \cup {"registry"}

install_startup(c) ==
    /\ At(c, "in_item")
    /\ \/ /\ login' = TRUE /\ UNCHANGED misled
          /\ IF cli[c].flag THEN Go(c, Start("la_route")) ELSE Finish(c, "installed")
       \/ RegistryEffect(TRUE) /\ Go(c, [pc |-> "in_undo"])
    /\ UNCHANGED <<daemonVars, proxyVars, manifest>>

\* The registration failed: the former manifest is written back, or the new
\* one removed, and a failure of either is ignored.
InstallUndo(c) ==
    /\ At(c, "in_undo")
    /\ manifest' \in {cli[c].prev, manifest}
    /\ Finish(c, "failed")
    /\ UNCHANGED <<daemonVars, proxyVars, login, misled>>

-----------------------------------------------------------------------------
\* launch and launch_manifest.

LaunchRead(c) ==
    /\ At(c, "la_read")
    /\ IF manifest \in {NoManifest, Unreadable} THEN Finish(c, "failed")
       ELSE Go(c, [mani |-> manifest] @@ Start("la_route"))
    /\ UNCHANGED <<daemonVars, proxyVars, startupVars>>

\* The daemon is up, or was: routing goes to the port it really serves.
LaunchRoute(c) ==
    /\ Back(c, "la_route")
    /\ IF cli[c].res \notin {"started", "AlreadyRunning"} THEN Finish(c, "failed")
       ELSE IF ~cli[c].mani.system_proxy THEN Finish(c, "launched")
       ELSE IF daemon_status = NoPid THEN Finish(c, "NotRunning")
       ELSE Go(c, Enable(cli[c].mani, proc[daemon_status].port, "la_done"))
    /\ UNCHANGED <<daemonVars, proxyVars, startupVars>>

LaunchDone(c) ==
    /\ Back(c, "la_done")
    /\ Finish(c, IF cli[c].res = "changed" THEN "launched" ELSE "failed")
    /\ UNCHANGED <<daemonVars, proxyVars, startupVars>>

-----------------------------------------------------------------------------
\* uninstall: routing, daemon, login item, manifest, in this order; the first
\* two are best effort and skipped with --keep-running.

UninstallRead(c) ==
    LET keep == cli[c].flag
        found == read_manifest_lenient
    IN  /\ At(c, "un_read")
        /\ \/ \E installed \in startup_status :
                CASE ~keep /\ installed /\ found = NoManifest -> Finish(c, "failed")
                  [] ~keep /\ found # NoManifest ->
                         Go(c, IF found.system_proxy THEN Disable(found, "un_stop") ELSE Stop("un_item"))
                  [] OTHER -> Go(c, [pc |-> "un_item"])
           \/ platform = "windows" /\ Finish(c, "failed")
        /\ misled' = IF manifest = Unreadable THEN misled \cup {"manifest"} ELSE misled
        /\ UNCHANGED <<daemonVars, proxyVars, manifest, login>>

UninstallStop(c) ==
    /\ Back(c, "un_stop")
    /\ Go(c, Stop("un_item"))
    /\ UNCHANGED <<daemonVars, proxyVars, startupVars>>

UninstallManifestFirst(c) ==
    /\ At(c, "un_item") \/ Back(c, "un_item")
    /\ \/ manifest' = NoManifest /\ Go(c, [pc |-> "un_manifest", res |-> "", then |-> ""])
       \/ UNCHANGED manifest /\ Finish(c, "failed")
    /\ UNCHANGED <<daemonVars, proxyVars, login, misled>>

\* On Windows the item is deleted only when a query finds it, so one that fails
\* ends in success with the item still there.
uninstall_startup(c) ==
    /\ At(c, "un_item") \/ Back(c, "un_item")
    /\ \/ /\ \/ login' = FALSE /\ UNCHANGED misled
             \/ /\ FALSE \in startup_status /\ login
                /\ misled' = misled \cup {"registry"} /\ UNCHANGED login
          /\ Go(c, [pc |-> "un_manifest", res |-> "", then |-> ""])
       \/ RegistryEffect(FALSE) /\ Finish(c, "failed")
    /\ UNCHANGED <<daemonVars, proxyVars, manifest>>

remove_manifest(c) ==
    /\ At(c, "un_manifest")
    /\ \/ manifest' = NoManifest /\ Finish(c, "uninstalled")
       \/ UNCHANGED manifest /\ Finish(c, "failed")
    /\ UNCHANGED <<daemonVars, proxyVars, login, misled>>

StartupStep(c) ==
    \/ InstallRead(c) \/ write_manifest(c) \/ install_startup(c) \/ InstallUndo(c)
    \/ LaunchRead(c) \/ LaunchRoute(c) \/ LaunchDone(c)
    \/ UninstallRead(c) \/ UninstallStop(c) \/ uninstall_startup(c) \/ remove_manifest(c)
=============================================================================
