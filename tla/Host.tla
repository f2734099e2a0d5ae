-------------------------------- MODULE Host --------------------------------
(***************************************************************************)
(* The program's commands on one host and one storage directory: `run`,    *)
(* `start`, `stop`, `proxy on|off`, `startup install|uninstall|launch` and *)
(* `ca init|install|uninstall`, issued by invocations that may overlap, be *)
(* killed at any step, or be cut short by a reboot.                        *)
(***************************************************************************)
EXTENDS CaStore

CONSTANTS
    Ports,         \* proxy ports named on the command line
    Scenarios      \* the hosts considered, each with the commands issued on it (Scenario)

VARIABLES
    scenario,      \* the one of this behaviour
    commands,      \* invocations so far
    faults,        \* faults so far
    serial,        \* no two startup or proxy commands have overlapped
    tidy           \* and none of them left routing behind knowingly

history == <<scenario, commands, faults, serial, tidy>>

\* The commands issued, the platform, and three bounds: how many invocations in
\* all, how many at a time, and the kinds of fault, one of which happens.
Scenario(cmds, os, most, width, hurt) ==
    [cmds |-> cmds, os |-> os, most |-> most, width |-> width, hurt |-> hurt]

vars == <<cli, daemonVars, proxyVars, startupVars, caVars, history>>

ASSUME HostAssumption == /\ Ports \subseteq Nat \ {0}
                         /\ ConfigPort \in Ports
                         /\ Pids \subseteq Nat \ {0}

Init ==
    /\ scenario \in Scenarios
    /\ DaemonInit /\ ProxyInit(scenario.os) /\ StartupInit /\ CaInit
    /\ commands = 0 /\ faults = 0 /\ serial = TRUE /\ tidy = TRUE

Busy(c) == cli[c].cmd # "none"

\* Something other than c happens while other invocations are at work.
Disturbed(c) == [d \in Clis |-> IF d # c /\ Busy(d) THEN [cli[d] EXCEPT !.alone = FALSE] ELSE cli[d]]

-----------------------------------------------------------------------------
\* Commands begin with their arguments.

Routing == {"proxy_on", "proxy_off", "install", "uninstall", "launch"}

\* Nothing is under way: no other invocation, and no process still starting
\* or ending.
Quiet(others) ==
    others = {} /\ \A p \in Pids : proc[p].st \in {"none", "serving"}

Begin(c, cmd, args) ==
    /\ cmd \in scenario.cmds /\ ~Busy(c) /\ commands < scenario.most
    /\ Cardinality({d \in Clis : Busy(d)}) < scenario.width
    /\ commands' = commands + 1
    /\ LET others == {d \in Clis \ {c} : Busy(d)}
       IN  /\ cli' = [Disturbed(c) EXCEPT ![c] = args @@ [Idle EXCEPT !.cmd = cmd, !.alone = Quiet(others)]]
           /\ serial' = (serial /\ ~(cmd \in Routing /\ \E d \in others : cli[d].cmd \in Routing))
    /\ tidy' = (tidy /\ cmd # "proxy_on" /\ ~(cmd = "uninstall" /\ args.flag))
    /\ UNCHANGED <<daemonVars, proxyVars, startupVars, caVars, scenario, faults>>

BeginStart(c) == \E p \in Ports : Begin(c, "start", [pc |-> "st_read", port |-> p])
BeginStop(c) == Begin(c, "stop", [pc |-> "sp_read", port |-> ConfigPort])

system_proxy_cmd(c) ==
    \E on \in BOOLEAN, svc \in {AllServices} \cup Scopes(platform), bypass \in BOOLEAN :
        Begin(c, IF on THEN "proxy_on" ELSE "proxy_off",
              [pc |-> "px_plan", sys |-> on, svc |-> svc, bypass |-> bypass /\ on, port |-> ConfigPort])

BeginInstall(c) ==
    \E m \in Manifests, now \in BOOLEAN :
        Begin(c, "install", [pc |-> "in_read", mani |-> m, flag |-> now])
BeginUninstall(c) == \E keep \in BOOLEAN : Begin(c, "uninstall", [pc |-> "un_read", flag |-> keep])
BeginLaunch(c) == login /\ Begin(c, "launch", [pc |-> "la_read"])

ca_cmd(c) ==
    \/ \E force \in BOOLEAN : Begin(c, "ca_init", [pc |-> "ca_init", flag |-> force])
    \/ \E cmd \in {"ca_install", "ca_uninstall"} : Begin(c, cmd, [pc |-> "tr_read"])

-----------------------------------------------------------------------------
\* Their steps.  A best-effort disable that failed leaves routing behind, and
\* says so.

Step(c) ==
    /\ Busy(c)
    /\ \/ /\ start_server(c) \/ stop_server(c)
          /\ UNCHANGED <<proxyVars, startupVars, caVars>>
       \/ execute_system_proxy(c) /\ UNCHANGED <<startupVars, caVars>>
       \/ StartupStep(c) /\ UNCHANGED caVars
       \/ CaStep(c)
    /\ tidy' = (tidy /\ ~(cli[c].then \in {"in_write", "un_stop"} /\ At(c, "returned")
                            /\ cli[c].res # "changed"))
    /\ UNCHANGED <<scenario, commands, faults, serial>>

DaemonStep(p) ==
    /\ BindProxy(p) \/ bind_unix(p) \/ Open(p, LoadedRoot) \/ Die(p)
    /\ UNCHANGED <<proxyVars, startupVars, caVars, history>>

-----------------------------------------------------------------------------
\* What else happens on the host.

Hurt(kind) ==
    /\ faults = 0 /\ kind \in scenario.hurt
    /\ faults' = faults + 1
    /\ UNCHANGED <<scenario, commands, serial, tidy>>
Fault(kind) == Hurt(kind) /\ UNCHANGED <<proxyVars, startupVars, caVars>>

\* `rsproxy run` in a terminal: a daemon with no pid file.
RunForeground(port) ==
    /\ "run" \in scenario.cmds /\ commands < scenario.most /\ FreePids # {}
    /\ commands' = commands + 1
    /\ proc' = [proc EXCEPT ![NextPid] = Child(port, Nobody)]
    /\ cli' = [d \in Clis |-> IF Busy(d) THEN [cli[d] EXCEPT !.alone = FALSE] ELSE cli[d]]
    /\ UNCHANGED <<pidfile, sock, proxyVars, startupVars, caVars, scenario, faults, serial, tidy>>

\* A daemon ends by itself: a crash, or the npm shim it watches has exited.
DaemonExits(p) ==
    /\ proc[p].kind = "rsproxy" /\ proc[p].st # "zombie"
    /\ Fault("exit")
    /\ proc' = [proc EXCEPT ![p] = Ended(p)]
    /\ cli' = [d \in Clis |-> IF Busy(d) THEN [cli[d] EXCEPT !.alone = FALSE] ELSE cli[d]]
    /\ UNCHANGED <<pidfile, sock>>

\* Another program gets a free pid, and perhaps a free port.
ForeignStarts(p, port) ==
    /\ p \in FreePids
    /\ ~Taken(port)
    /\ Fault("foreign")
    /\ proc' = [proc EXCEPT ![p] = [Gone EXCEPT !.kind = "foreign", !.st = "serving", !.port = port]]
    /\ cli' = [d \in Clis |-> IF Busy(d) THEN [cli[d] EXCEPT !.alone = FALSE] ELSE cli[d]]
    /\ UNCHANGED <<pidfile, sock>>

\* An invocation is killed; init reaps or adopts its child.
Orphaned(c) ==
    [p \in Pids |-> IF proc[p].parent # c THEN proc[p]
                    ELSE Adopted(p)]

Killed(c) ==
    /\ Busy(c)
    /\ Fault("kill")
    /\ cli' = [Disturbed(c) EXCEPT ![c] = Idle]
    /\ proc' = Orphaned(c)
    /\ UNCHANGED <<pidfile, sock>>

\* The host restarts: files, settings and trust stay, processes do not.
Reboot ==
    /\ Fault("reboot")
    /\ \E p \in Pids : proc[p].kind # "none"
    /\ cli' = [c \in Clis |-> Idle]
    /\ proc' = [p \in Pids |-> Gone]
    /\ UNCHANGED <<pidfile, sock>>

\* The manifest is damaged, or another version of the program has written it.
ManifestSpoilt ==
    /\ manifest \notin {NoManifest, Unreadable}
    /\ Hurt("spoilt")
    /\ manifest' = Unreadable
    /\ UNCHANGED <<cli, daemonVars, proxyVars, login, misled, caVars>>

Next ==
    \/ \E c \in Clis :
          \/ BeginStart(c) \/ BeginStop(c) \/ system_proxy_cmd(c)
          \/ BeginInstall(c) \/ BeginUninstall(c) \/ BeginLaunch(c) \/ ca_cmd(c)
          \/ Step(c) \/ Killed(c)
    \/ \E p \in Pids :
          \/ DaemonStep(p) \/ DaemonExits(p)
          \/ \E port \in {0} \cup Ports : ForeignStarts(p, port)
    \/ \E port \in Ports : RunForeground(port)
    \/ Reboot
    \/ ManifestSpoilt

Spec == Init /\ [][Next]_vars

-----------------------------------------------------------------------------
\* Properties.

Returns(c) == ~At(c, "returned") /\ cli'[c].pc = "returned"

\* A `start` that reports success without anything else happening on the host
\* meanwhile has started the daemon it reports: the pid file names its child,
\* the control socket is the child's, and the child serves on the port asked
\* for.  A `start` that fails, whatever else happened, leaves no child of its
\* own running, except when the poll of the child itself failed (daemon.rs,
\* start_server).
StartTruth ==
    [][\A c \in Clis : Returns(c) =>
         /\ cli'[c].res = "started" /\ cli[c].alone =>
              /\ pidfile' = cli[c].pid /\ sock' = cli[c].pid
              /\ proc'[cli[c].pid].st = "serving"
              /\ proc'[cli[c].pid].port = cli[c].port
         /\ cli'[c].res \notin {"started", "PollFailed"} => \A p \in Pids : proc'[p].parent # c]_vars

\* An undisturbed `stop` that reports that it stopped the daemon leaves neither
\* pid file nor socket, and the process it stopped or reclaimed the port from is
\* gone.  One that finds nothing to stop promises nothing about the port, since
\* the lookup of its owner may miss a listener.  No undisturbed `stop` signals a process of another
\* program, unless a daemon the pid file does not name answers for this storage:
\* the identity is asked of the socket, not of the pid (daemon.rs, stop_server).
StopTruth ==
    [][\A c \in Clis :
         /\ Returns(c) /\ cli[c].alone =>
              /\ cli'[c].res \in {"stopped", "stale"} => pidfile' = NoPid /\ sock' = NoPid
              /\ cli'[c].res \in {"stopped", "reclaimed"} => ~process_alive(cli[c].pid)
         /\ cli[c].pc \in {"sp_term", "sp_oterm"} /\ cli'[c].pc # cli[c].pc /\ cli[c].alone =>
              \/ proc[cli[c].pid].kind # "foreign"
              \/ \E p \in Pids \ {cli[c].pid} : Serving(p) /\ sock = p]_vars

\* An undisturbed change of the system proxy that succeeds routes all of its
\* scope to the port, or none of it.  One that fails leaves every setting as it
\* was, on Linux and Windows, unless a setting could not be read or written
\* back (linux.rs native_set and rollback, windows.rs restore_values).
SettingsWhole ==
    [][\A c \in Clis : Returns(c) /\ cli[c].alone /\ cli[c].pc \in {"px_run", "px_undo"} =>
         /\ cli'[c].res = "changed" =>
              \A s \in ScopeOf(cli[c].svc) :
                 IF cli[c].sys THEN RoutedTo(s, cli[c].port) ELSE ~Routed(s)
         /\ cli'[c].res = "failed" /\ platform # "macos" => settings' = cli[c].before]_vars

\* As long as no two startup commands have overlapped, a login item always has
\* a manifest, however its commands fail or are killed, unless one of them was
\* misled: a `reg` command of Windows reported a failure after taking effect or
\* did not find the item, or a manifest there could not be read (startup.rs:
\* install writes the manifest first, uninstall removes it last).
LoginItemHasManifest == serial /\ misled = {} /\ login => manifest # NoManifest

\* As long as no two startup commands have overlapped, and routing was not left
\* on with --keep-running, switched on by hand or reported as not restored, the
\* host is routed to rsproxy only within the scope of the manifest, from which
\* uninstall will switch it off; a manifest that cannot be read has none that it
\* would (startup.rs, install).
NoOrphanRouting ==
    serial /\ tidy /\ manifest # Unreadable /\ "manifest" \notin misled =>
        \A s \in Scopes(platform) :
            Routed(s) => /\ manifest # NoManifest
                         /\ manifest.system_proxy
                         /\ s \in ScopeOf(manifest.service)

\* An undisturbed `ca init` that reports a new root leaves its two halves and
\* nothing older on disk, whatever an earlier one left behind; without --force
\* it overwrites neither half of a root.  After an undisturbed `ca install` the
\* certificate on disk is trusted, after `ca uninstall` it is not (storage.rs
\* initialize_root_ca, trust.rs).
CaTruth ==
    [][/\ \A c \in Clis : Returns(c) /\ cli[c].alone =>
            /\ cli'[c].res = "created" => ca' = [cert |-> cli[c].gen, key |-> cli[c].gen]
            /\ cli'[c].res = "installed" /\ cli[c].cmd = "ca_install" => ca.cert \in trusted'
            /\ cli'[c].res = "uninstalled" /\ cli[c].cmd = "ca_uninstall" =>
                  ca.cert \notin trusted' \cup anchors'
       /\ \A f \in {"cert", "key"} :
            ca[f] > 0 /\ ca'[f] # ca[f] => \E c \in Clis : cli[c].cmd = "ca_init" /\ (cli[c].flag \/ ~cli[c].alone)
      ]_vars


\* The pieces of a login installation never come apart: a login item has its manifest,
\* and routing its owner (startup.rs, install and uninstall).
StartupSound == LoginItemHasManifest /\ NoOrphanRouting

=============================================================================
