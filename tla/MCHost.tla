------------------------------- MODULE MCHost -------------------------------
(* Host with up to two invocations at a time, one group of commands at a   *)
(* time: the daemon's, the system proxy's, login startup and the CA's.     *)
EXTENDS Host

MCPids == 1..3
MCPorts == {1, 11}
DaemonCommands == {"start", "stop", "run"}
ProxyCommands == {"proxy_on", "proxy_off"}
StartupCommands == {"install", "uninstall", "launch"}
CaCommands == {"ca_init", "ca_install", "ca_uninstall"}

MCScenarios ==
    {Scenario(DaemonCommands, "linux", 2, 2, {"exit", "foreign", "kill", "reboot"}),
     Scenario(DaemonCommands, "macos", 3, 1, {"exit", "foreign", "kill", "reboot"}),
     Scenario(StartupCommands, "linux", 2, 1, {"kill", "exit"}),
     Scenario(StartupCommands, "macos", 2, 1, {"kill", "reboot"}),
     Scenario({"install", "uninstall"}, "windows", 2, 1, {"spoilt", "kill"}),
     Scenario({"install", "uninstall"}, "linux", 3, 1, {})}
    \cup {Scenario(ProxyCommands, os, 2, 1, {"kill"}) : os \in {"linux", "windows", "macos"}}
    \cup {Scenario(CaCommands, os, 2, 2, {"kill"}) : os \in {"linux", "macos"}}
    \cup {Scenario(CaCommands, os, 3, 1, {"kill"}) : os \in {"linux", "windows", "macos"}}
MCSymmetry == Permutations(Clis)
=============================================================================
