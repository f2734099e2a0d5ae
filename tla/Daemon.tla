------------------------------- MODULE Daemon -------------------------------
(***************************************************************************)
(* The daemon and the two commands that manage it, `start` and `stop`      *)
(* (rsproxy-cli/src/cli/daemon.rs), over the process primitives of         *)
(* rsproxy-platform/src/process.rs.  The commands share nothing but the    *)
(* pid file and the control socket of one storage directory, the process   *)
(* table and the proxy port; nothing locks any of them, so a command is    *)
(* split at every system call another process can see.                     *)
(*                                                                         *)
(* A command is one invocation of the program, run by a member of Clis.    *)
(* start_server and stop_server are called by the startup commands too, so *)
(* they end in pc = "returned" and their caller goes on from there.        *)
(***************************************************************************)
EXTENDS Integers, FiniteSets, Sequences, TLC

CONSTANTS
    Clis,        \* invocations of the program that may overlap
    Pids,        \* process identifiers, reused once free
    ConfigPort   \* the proxy address the configuration resolves to

VARIABLES
    platform,    \* the build: "linux", "windows" or "macos"
    cli,         \* per invocation: its command, where it is and what it holds
    proc,        \* per pid: the process that has it
    pidfile,     \* <storage>/run/rsproxy.pid
    sock         \* <storage>/run/ctl.sock: the pid that bound it

daemonVars == <<proc, pidfile, sock>>

-----------------------------------------------------------------------------
\* Processes.

NoPid == 0
Garbage == -1        \* a pid file truncated by fs::write and not yet filled
Nobody == "init"     \* a process whose parent does not wait for it
NoRoot == [cert |-> 0, key |-> 0]

Gone == [kind |-> "none", st |-> "none", port |-> 0, parent |-> Nobody, root |-> NoRoot]

Child(port, parent) ==
    [Gone EXCEPT !.kind = "rsproxy", !.st = "boot", !.port = port, !.parent = parent]

\* The program a process runs, by its executable's path, and whether it is this one.
\* The path cannot always be read: both give the set of the possible answers.
process_executable_path(p) == {proc[p].kind, "unknown"}
process_is_rsproxy(p) == {path = "rsproxy" : path \in process_executable_path(p)}

\* kill(pid, 0): a zombie its parent has not waited for is still there.
process_alive(p) == p \in Pids /\ proc[p].kind # "none"

Listening(p) == proc[p].st \in {"bound", "opening", "serving", "dying"}

\* Bind: whether an address is taken.  Addresses a and a + 10 are the same port
\* number on two interfaces of the host.
Taken(addr) == \E p \in Pids : Listening(p) /\ proc[p].port = addr
Number(addr) == addr % 10

\* Who listens there: a set of possible answers.  Linux and Windows match the
\* port number on any interface, and the lookup may see no listener that is
\* there: no lsof, a process table that cannot be read, an IPv6 listener.
pid_listening_on(addr) ==
    {NoPid} \cup {p \in Pids : /\ Listening(p)
                              /\ \/ proc[p].port = addr
                                 \/ platform # "macos" /\ Number(proc[p].port) = Number(addr)}

Serving(p) == p \in Pids /\ proc[p].kind = "rsproxy" /\ proc[p].st = "serving"

\* A process that ends stays a zombie while its parent may still wait for it.
Ended(p) ==
    IF proc[p].parent # Nobody
    THEN [proc[p] EXCEPT !.st = "zombie", !.port = 0, !.root = NoRoot]
    ELSE Gone

\* SIGTERM: the default action.  A process that holds a port lets go of it
\* only when it is dead, which the sender does not wait for here.
Terminated(p) ==
    CASE ~process_alive(p) \/ proc[p].st \in {"zombie", "dying"} -> proc[p]
      [] proc[p].st = "boot" -> Ended(p)
      [] OTHER -> [proc[p] EXCEPT !.st = "dying"]

\* The pid the kernel hands out next.
FreePids == {p \in Pids : proc[p].kind = "none"}
NextPid == CHOOSE p \in FreePids : \A q \in FreePids : p <= q

-----------------------------------------------------------------------------
\* Commands.

Idle ==
    [cmd |-> "none", pc |-> "idle", res |-> "", port |-> 0, pid |-> NoPid,
     flag |-> FALSE, alone |-> TRUE, svc |-> "", sys |-> FALSE, mani |-> <<>>, prev |-> <<>>,
     plan |-> <<>>, applied |-> <<>>, before |-> <<>>, then |-> "", gen |-> 0, bypass |-> FALSE]

\* Invocation c goes on with the fields of upd replaced.
Go(c, upd) == cli' = [cli EXCEPT ![c] = upd @@ @]
\* What it was called for is done: the caller goes on, or the program exits.
Return(c, res) ==
    IF cli[c].then # ""
    THEN Go(c, [pc |-> "returned", res |-> res, pid |-> NoPid,
                plan |-> <<>>, applied |-> <<>>, before |-> <<>>])
    ELSE cli' = [cli EXCEPT ![c] = [Idle EXCEPT !.res = res, !.pc = "returned"]]
At(c, pc) == cli[c].pc = pc

\* GET /api/status over the control socket, answered by the daemon that bound
\* it last: its pid, if it serves.  The storage it reports is this one, since
\* the socket lies under it.
daemon_status == IF Serving(sock) THEN sock ELSE NoPid
daemon_identity_matches == daemon_status # NoPid
daemon_ready(port) == daemon_status # NoPid /\ proc[daemon_status].port = port

-----------------------------------------------------------------------------
\* start_server.

\* The pid file, and the identity of a live process it names.
StartRead(c) ==
    /\ At(c, "st_read")
    /\ IF process_alive(pidfile)
       THEN Return(c, IF daemon_identity_matches THEN "AlreadyRunning" ELSE "IdentityMismatch")
       ELSE Go(c, [pc |-> IF pidfile = NoPid THEN "st_probe" ELSE "st_unlink"])
    /\ UNCHANGED daemonVars

\* A stale pid file is removed, whoever has written it since it was read.
StartUnlink(c) ==
    /\ At(c, "st_unlink")
    /\ pidfile' = NoPid
    /\ Go(c, [pc |-> "st_probe"])
    /\ UNCHANGED <<proc, sock>>

ensure_proxy_port_available(c) ==
    /\ At(c, "st_probe")
    /\ IF Taken(cli[c].port)
       THEN Return(c, "PortInUse")
       ELSE Go(c, [pc |-> "st_spawn"])
    /\ UNCHANGED daemonVars

Spawn(c) ==
    /\ At(c, "st_spawn")
    /\ FreePids # {}
    /\ proc' = [proc EXCEPT ![NextPid] = Child(cli[c].port, c)]
    /\ Go(c, [pc |-> "st_trunc", pid |-> NextPid])
    /\ UNCHANGED <<pidfile, sock>>

\* fs::write: the file is emptied, then filled.
WritePidfile(c) ==
    \/ /\ At(c, "st_trunc")
       /\ pidfile' = Garbage
       /\ Go(c, [pc |-> "st_write"])
       /\ UNCHANGED <<proc, sock>>
    \/ /\ At(c, "st_write")
       /\ pidfile' = cli[c].pid
       /\ Go(c, [pc |-> "st_poll"])
       /\ UNCHANGED <<proc, sock>>

\* child.kill, child.wait: on a pid file that cannot be written, and when the
\* fiftieth poll has found no readiness.
KillChild(c, res) ==
    /\ proc' = [proc EXCEPT ![cli[c].pid] = Gone]
    /\ Go(c, [pc |-> "rm_pid", res |-> res])
    /\ UNCHANGED <<pidfile, sock>>

WritePidfileFails(c) == cli[c].pc \in {"st_trunc", "st_write"} /\ KillChild(c, "PidfileFailed")

\* The CLI returns and no longer waits for the child, which init adopts.
Adopted(p) == IF proc[p].st = "zombie" THEN Gone ELSE [proc[p] EXCEPT !.parent = Nobody]

\* One turn of the readiness loop.  A try_wait that fails ends it there: the
\* child and the runtime files stay as they are.
Poll(c) ==
    LET child == cli[c].pid
    IN  /\ At(c, "st_poll")
        /\ \/ /\ proc[child].st = "zombie"
              /\ proc' = [proc EXCEPT ![child] = Gone]
              /\ Go(c, [pc |-> "rm_pid", res |-> "DaemonExited"])
              /\ UNCHANGED <<pidfile, sock>>
           \/ /\ daemon_ready(cli[c].port)
              /\ proc' = [proc EXCEPT ![child] = Adopted(child)]
              /\ Return(c, "started")
              /\ UNCHANGED <<pidfile, sock>>
           \/ /\ proc' = [proc EXCEPT ![child] = Adopted(child)]
              /\ Return(c, "PollFailed")
              /\ UNCHANGED <<pidfile, sock>>
           \/ KillChild(c, "ReadinessTimeout")

\* remove_runtime_files: the pid file, then the socket, whoever owns them now.
remove_runtime_files(c) ==
    \/ /\ At(c, "rm_pid")
       /\ pidfile' = NoPid
       /\ Go(c, [pc |-> "rm_sock"])
       /\ UNCHANGED <<proc, sock>>
    \/ /\ At(c, "rm_sock")
       /\ sock' = NoPid
       /\ Return(c, cli[c].res)
       /\ UNCHANGED <<proc, pidfile>>

start_server(c) ==
    \/ StartRead(c) \/ StartUnlink(c) \/ ensure_proxy_port_available(c) \/ Spawn(c)
    \/ WritePidfile(c) \/ WritePidfileFails(c) \/ Poll(c) \/ remove_runtime_files(c)

-----------------------------------------------------------------------------
\* stop_server.


\* The pid file: missing, garbage or of a dead process, of a live process that
\* does not answer for this storage, of one that does.
StopRead(c) ==
    /\ At(c, "sp_read")
    /\ CASE pidfile = NoPid -> Go(c, [pc |-> "sp_orphan"])
         [] pidfile # NoPid /\ ~process_alive(pidfile) -> Go(c, [pc |-> "rm_pid", res |-> "stale"])
         [] process_alive(pidfile) /\ ~daemon_identity_matches -> Return(c, "IdentityMismatch")
         [] OTHER -> Go(c, [pc |-> "sp_term", pid |-> pidfile])
    /\ UNCHANGED daemonVars

\* reclaim_orphan_or_not_running: whoever is found on the configured port.
FindOrphan(c) ==
    /\ At(c, "sp_orphan")
    /\ \E p \in pid_listening_on(cli[c].port) :
          IF p = NoPid THEN Return(c, "NotRunning")
          ELSE \E ours \in process_is_rsproxy(p) :
                  IF ours THEN Go(c, [pc |-> "sp_oterm", pid |-> p])
                          ELSE Return(c, "PortHeldByForeign")
    /\ UNCHANGED daemonVars

\* A signal that may not be sent ends the command; on Unix a process that is
\* gone already counts as signalled.
SignalFails(c) == Return(c, "SignalFailed") /\ UNCHANGED daemonVars

terminate_process(c) ==
    /\ cli[c].pc \in {"sp_term", "sp_oterm"}
    /\ \/ /\ proc' = [proc EXCEPT ![cli[c].pid] = Terminated(cli[c].pid)]
          /\ Go(c, [pc |-> IF At(c, "sp_term") THEN "sp_wait" ELSE "sp_owait"])
          /\ UNCHANGED <<pidfile, sock>>
       \/ SignalFails(c)

\* The five seconds of polling: the process is gone, or they have passed.
AwaitExit(c) ==
    /\ cli[c].pc \in {"sp_wait", "sp_owait", "sp_kwait"}
    /\ \/ /\ ~process_alive(cli[c].pid)
          /\ IF At(c, "sp_wait") THEN Go(c, [pc |-> "rm_pid", res |-> "stopped"])
                                 ELSE Return(c, "reclaimed")
       \/ /\ process_alive(cli[c].pid)
          /\ IF At(c, "sp_owait") THEN Go(c, [pc |-> "sp_kill"])
                                  ELSE Return(c, "StopTimeout")
    /\ UNCHANGED daemonVars

force_terminate_process(c) ==
    /\ At(c, "sp_kill")
    /\ \/ /\ proc' = [proc EXCEPT ![cli[c].pid] = IF process_alive(cli[c].pid) THEN Ended(cli[c].pid) ELSE @]
          /\ Go(c, [pc |-> "sp_kwait"])
          /\ UNCHANGED <<pidfile, sock>>
       \/ SignalFails(c)

stop_server(c) ==
    \/ StopRead(c) \/ FindOrphan(c) \/ terminate_process(c) \/ AwaitExit(c)
    \/ force_terminate_process(c)

-----------------------------------------------------------------------------
\* run_server, the daemon's own start.

BindProxy(p) ==
    /\ proc[p].kind = "rsproxy" /\ proc[p].st = "boot"
    /\ proc' = [proc EXCEPT ![p] = IF Taken(@.port)
                                   THEN Ended(p) ELSE [@ EXCEPT !.st = "bound"]]
    /\ UNCHANGED <<cli, pidfile, sock>>

\* control::bind removes whatever lies at the socket's path and takes it over.
bind_unix(p) ==
    /\ proc[p].st = "bound"
    /\ sock' = p
    /\ proc' = [proc EXCEPT ![p].st = "opening"]
    /\ UNCHANGED <<cli, pidfile>>

\* The rest of run_server: the root CA of proxy_config_with_ca_material, the
\* shared state, which may fail to open, and the two listeners' threads.
Open(p, root) ==
    /\ proc[p].st = "opening"
    /\ \/ proc' = [proc EXCEPT ![p].st = "serving", ![p].root = root]
       \/ proc' = [proc EXCEPT ![p] = Ended(p)]
    /\ UNCHANGED <<cli, pidfile, sock>>

\* A signalled process dies; a process rsproxy did not start may stay.
Die(p) ==
    /\ proc[p].st = "dying"
    /\ proc' = [proc EXCEPT ![p] = Ended(p)]
    /\ UNCHANGED <<cli, pidfile, sock>>

DaemonInit ==
    /\ cli = [c \in Clis |-> Idle]
    /\ proc = [p \in Pids |-> Gone]
    /\ pidfile = NoPid
    /\ sock = NoPid
=============================================================================
