---------------------------- MODULE SystemProxy ----------------------------
(***************************************************************************)
(* The system proxy settings (rsproxy-platform/src/system_proxy.rs and its *)
(* backends linux.rs, windows.rs and macos.rs), changed one external       *)
(* command at a time: gsettings, reg or networksetup.  A command that      *)
(* times out is killed and counts as failed, whether or not it had taken   *)
(* effect.  Linux and Windows put back what they had changed when a later  *)
(* command fails; macOS does not.                                          *)
(*                                                                         *)
(* A setting is a value under a key <<scope, name>>: the scope is a        *)
(* network service on macOS and the desktop elsewhere.  Values stand for   *)
(* the text written: the user's own, the listener's host, its port, an     *)
(* explicit bypass list, on, off, and no value at all.                     *)
(***************************************************************************)
EXTENDS Daemon, SequencesExt

CONSTANT
    Services     \* the network services of the macOS host

VARIABLE
    settings     \* key -> value

proxyVars == <<platform, settings>>

User == 0
On == -1
Off == -2
Absent == -3
ListenerHost == -4
BypassList == -5
Routes(v) == v > 0

AllServices == "all"
Desktop == "desktop"
Scopes(os) == IF os = "macos" THEN Services ELSE {Desktop}

Names(os) ==
    CASE os = "linux" -> {"mode", "http.host", "http.port", "https.host", "https.port", "ignore-hosts"}
      [] os = "windows" -> {"ProxyEnable", "ProxyServer", "ProxyOverride"}
      [] os = "macos" -> {"web", "secure", "bypass"}

\* The settings as the user left them; on Windows a value may not exist.
ProxyInit(os) ==
    /\ platform = os
    /\ settings \in [Scopes(platform) \X Names(platform) ->
                        IF platform = "windows" THEN {User, Absent} ELSE {User}]

-----------------------------------------------------------------------------
\* The commands of one change, in order: <<key, value>>.

Command(scope, name, value) == <<<<scope, name>>, value>>

LinuxCommands(enabled, port, bypass) ==
    IF ~enabled
    THEN <<Command(Desktop, "mode", Off)>>
    ELSE <<Command(Desktop, "mode", On),
           Command(Desktop, "http.host", ListenerHost), Command(Desktop, "http.port", port),
           Command(Desktop, "https.host", ListenerHost), Command(Desktop, "https.port", port)>>
         \o (IF bypass THEN <<Command(Desktop, "ignore-hosts", BypassList)>> ELSE <<>>)

WindowsCommands(enabled, port, bypass) ==
    IF enabled
    THEN <<Command(Desktop, "ProxyEnable", On), Command(Desktop, "ProxyServer", port)>>
         \o (IF bypass THEN <<Command(Desktop, "ProxyOverride", BypassList)>> ELSE <<>>)
    ELSE <<Command(Desktop, "ProxyEnable", Off), Command(Desktop, "ProxyServer", Absent),
           Command(Desktop, "ProxyOverride", Absent)>>

\* A value that query_values did not find is not deleted.
native_set_commands(cmds) ==
    SelectSeq(cmds, LAMBDA m : m[2] = Absent => settings[m[1]] # Absent)

MacosCommands(s, enabled, port, bypass) ==
    IF ~enabled
    THEN <<Command(s, "web", Off), Command(s, "secure", Off)>>
    ELSE <<Command(s, "web", port), Command(s, "secure", port)>>
         \o (IF bypass THEN <<Command(s, "bypass", BypassList)>> ELSE <<>>)

\* services: the one named, or all of them in the order they are listed.
services(svc) == IF svc = AllServices THEN SetToSeq(Services) ELSE <<svc>>

Commands(c) ==
    LET enabled == cli[c].sys
        p == cli[c].port
        bypass == cli[c].bypass
    IN  CASE platform = "linux" -> LinuxCommands(enabled, p, bypass)
          [] platform = "windows" -> native_set_commands(WindowsCommands(enabled, p, bypass))
          [] platform = "macos" ->
                FlattenSeq([i \in DOMAIN services(cli[c].svc) |->
                              MacosCommands(services(cli[c].svc)[i], enabled, p, bypass)])

-----------------------------------------------------------------------------
\* Execution.

\* What the backend finds out before its first command: the registry values on
\* Windows, the list of services on macOS when none is named.  Either query may
\* fail.  The commands' arguments are set in cli[c]: sys says enable or disable.
ProxyPlan(c) ==
    /\ At(c, "px_plan")
    /\ \/ Go(c, [pc |-> "px_run", plan |-> Commands(c), applied |-> <<>>, before |-> settings])
       \/ /\ platform = "windows" \/ (platform = "macos" /\ cli[c].svc = AllServices)
          /\ Return(c, "failed")
    /\ UNCHANGED <<daemonVars, proxyVars>>

\* platform_command_output on the next command: it succeeds; or it fails, is
\* killed or cannot be run, and may have taken effect all the same.
RunsWell(key, value) == settings' = [settings EXCEPT ![key] = value]
RunsBadly(key, value) == settings' = settings \/ settings' = [settings EXCEPT ![key] = value]

\* Linux: the value is read first, and a failed read ends the change where it
\* is; it is remembered before the command runs, so a command that failed after
\* taking effect is rolled back too.
LinuxStepRemembersLate(c) ==
    LET m == Head(cli[c].plan)
        applied == Append(cli[c].applied, <<m[1], settings[m[1]]>>)
    IN  \/ Return(c, "unread") /\ UNCHANGED settings
        \/ /\ RunsWell(m[1], m[2])
           /\ Go(c, [plan |-> Tail(cli[c].plan), applied |-> applied])
        \/ /\ RunsBadly(m[1], m[2])
           /\ Go(c, [pc |-> "px_undo"])

LinuxStep(c) ==
    LET m == Head(cli[c].plan)
        applied == Append(cli[c].applied, <<m[1], settings[m[1]]>>)
    IN  \/ Return(c, "unread") /\ UNCHANGED settings
        \/ /\ RunsWell(m[1], m[2])
           /\ Go(c, [plan |-> Tail(cli[c].plan), applied |-> applied])
        \/ /\ RunsBadly(m[1], m[2])
           /\ Go(c, [pc |-> "px_undo", applied |-> applied])

WindowsStep(c) ==
    LET m == Head(cli[c].plan)
    IN  \/ /\ RunsWell(m[1], m[2])
           /\ Go(c, [plan |-> Tail(cli[c].plan)])
        \/ /\ RunsBadly(m[1], m[2])
           /\ Go(c, [pc |-> "px_undo"])

MacosStep(c) ==
    LET m == Head(cli[c].plan)
    IN  \/ /\ RunsWell(m[1], m[2])
           /\ Go(c, [plan |-> Tail(cli[c].plan)])
        \/ /\ RunsBadly(m[1], m[2])
           /\ Return(c, "failed")

ProxyRun(c) ==
    /\ At(c, "px_run") /\ cli[c].plan # <<>>
    /\ CASE platform = "linux" -> LinuxStep(c)
         [] platform = "windows" -> WindowsStep(c)
         [] platform = "macos" -> MacosStep(c)
    /\ UNCHANGED <<daemonVars, platform>>

\* All commands ran; on Windows the change is announced, which may fail.
ProxyDone(c) ==
    /\ At(c, "px_run") /\ cli[c].plan = <<>>
    /\ \/ Return(c, "changed")
       \/ platform = "windows" /\ Go(c, [pc |-> "px_undo"])
    /\ UNCHANGED <<daemonVars, proxyVars>>

\* rollback writes back what Linux remembered, latest first, restore_values
\* every value Windows had found.  Their commands' failures are ignored: one
\* of them at most fails here.  The keys are distinct, so their order is not seen.
Remembered(c) ==
    IF platform = "windows" THEN cli[c].before
    ELSE LET a == cli[c].applied
         IN  [k \in {a[i][1] : i \in DOMAIN a} |-> (CHOOSE e \in ToSet(a) : e[1] = k)[2]]

ProxyUndo(c) ==
    LET old == Remembered(c)
    IN  /\ At(c, "px_undo")
        /\ \/ settings' = old @@ settings /\ Return(c, "failed")
           \/ \E k \in DOMAIN old :
                /\ settings' = [old EXCEPT ![k] = settings[k]] @@ settings
                /\ Return(c, "undo_failed")
        /\ UNCHANGED <<daemonVars, platform>>

execute_system_proxy(c) == ProxyPlan(c) \/ ProxyRun(c) \/ ProxyDone(c) \/ ProxyUndo(c)

\* The scopes a change of service svc covers, and whether one routes to rsproxy.
ScopeOf(svc) == IF platform = "macos" /\ svc # AllServices THEN {svc} ELSE Scopes(platform)

Routed(scope) ==
    CASE platform = "linux" -> settings[<<scope, "mode">>] = On
      [] platform = "windows" -> settings[<<scope, "ProxyEnable">>] = On
      [] platform = "macos" -> Routes(settings[<<scope, "web">>]) \/ Routes(settings[<<scope, "secure">>])

\* Everything the scope sends goes to port.
RoutedTo(scope, port) ==
    CASE platform = "linux" -> /\ settings[<<scope, "mode">>] = On
                               /\ settings[<<scope, "http.port">>] = port
                               /\ settings[<<scope, "https.port">>] = port
      [] platform = "windows" -> /\ settings[<<scope, "ProxyEnable">>] = On
                                 /\ settings[<<scope, "ProxyServer">>] = port
      [] platform = "macos" -> /\ settings[<<scope, "web">>] = port
                               /\ settings[<<scope, "secure">>] = port
=============================================================================
