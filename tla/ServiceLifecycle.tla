-------------------------- MODULE ServiceLifecycle --------------------------
(***************************************************************************)
(* The background processes of ctxd: the local ctxfs server, kept running  *)
(* by ensure_started (src/ctxd/local_ctxfs_service.py), and the tracker,   *)
(* run by `ctxd tracker start` and `stop` (src/ctxd/tracker_service.py).   *)
(* A background process is known only by its pid file; the server is also  *)
(* reached through its socket file.  ensure_started works under            *)
(* ctxfs.lock, the tracker commands under no lock, and a server that has   *)
(* been started checks and binds the socket under no lock either.          *)
(***************************************************************************)
EXTENDS Naturals, FiniteSets

CONSTANTS
    Clis,        \* the processes that run ctxd commands
    MaxPids,     \* bound: background processes that may be started
    MaxCommands, \* bound: commands that may be started
    MaxFaults,   \* bound: deaths, hangs and start-ups that take too long
    None

Command == {"ensure", "start", "stop"}

ASSUME LifecycleAssumption ==
    /\ None \notin Clis /\ None \notin Nat /\ None \notin Command
    /\ MaxPids \in Nat /\ MaxCommands \in Nat /\ MaxFaults \in Nat

VARIABLES
    os,          \* what each pid is: its state, or "free" or "dead"
    ctxfsPid,    \* ctxfs.pid
    trackerPid,  \* tracker.pid
    socket,      \* ctxfs.sock: the pid that bound it
    lock,        \* who holds ctxfs.lock
    cli,         \* where each command is
    ready,       \* history: the server of ctxfs.pid answered, and since then it has
                 \* not failed and no orphan has touched its socket
    orphans,     \* history: pids whose starter died before it wrote the pid file
    raced,       \* history: two tracker commands overlapped
    commands, faults

vars == <<os, ctxfsPid, trackerPid, socket, lock, cli, ready, orphans, raced,
          commands, faults>>

\* Process ids are given out in order and not used again: _pid_matches tells a
\* process of another program that was given the same id apart.
Pids == 1 .. MaxPids

Unused(n) == os[n] = "free" /\ \A m \in 1 .. n - 1 : os[m] # "free"

\* A server that has been started, that found the socket path free, that is about
\* to bind it, that accepts, and that no longer answers.
ServerStates == {"starting", "checked", "binding", "listening", "hung"}

Labels == {"idle", "checkTracker", "lock", "kill", "cleanup", "unlink", "spawn",
           "writePid", "poll", "abort", "spawnTracker", "writeTrackerPid",
           "stopTracker", "stopCleanup"}

Idle == [pc |-> "idle", cmd |-> None, child |-> None]

Servers  == {n \in Pids : os[n] \in ServerStates}
Trackers == {n \in Pids : os[n] = "tracker"}

-----------------------------------------------------------------------------
(* What a command can observe *)

\* _read_pid and _pid_matches: the pid file names a live process of the kind.
CtxfsRunning   == ctxfsPid \in Servers
TrackerRunning == trackerPid \in Trackers

\* CtxfsClient.status(): whoever bound the socket file answers.
Answers == socket # None /\ os[socket] = "listening"

Healthy == CtxfsRunning /\ Answers

Goto(c, label) == cli' = [cli EXCEPT ![c].pc = label]

\* The faulty variant does not take the lock.
LockFreeAlways == TRUE

LockFree == lock = None

-----------------------------------------------------------------------------
(* Commands start and die *)

FirstStep(cmd) == CASE cmd = "ensure" -> "lock"
                    [] cmd = "start"  -> "checkTracker"
                    [] cmd = "stop"   -> "stopTracker"

Begin(c, cmd) ==
    /\ cli[c].pc = "idle"
    /\ commands < MaxCommands
    /\ commands' = commands + 1
    /\ cli' = [cli EXCEPT ![c] = [pc |-> FirstStep(cmd), cmd |-> cmd, child |-> None]]
    /\ raced' = (raced \/ (cmd # "ensure" /\ \E d \in Clis : cli[d].cmd \in {"start", "stop"}))
    /\ UNCHANGED <<os, ctxfsPid, trackerPid, socket, lock, ready, orphans, faults>>

Die(c) ==
    /\ cli[c].pc # "idle"
    /\ faults < MaxFaults
    /\ faults' = faults + 1
    /\ orphans' = IF cli[c].pc \in {"writePid", "writeTrackerPid"}
                    THEN orphans \cup {cli[c].child} ELSE orphans
    /\ lock' = IF lock = c THEN None ELSE lock
    /\ cli' = [cli EXCEPT ![c] = Idle]
    /\ UNCHANGED <<os, ctxfsPid, trackerPid, socket, ready, raced, commands>>

-----------------------------------------------------------------------------
(* ensure_started *)

\* The command has its server: `tracker start` goes on, the others are done.
Ensured(c) ==
    /\ lock' = None
    /\ ready' = (ready \/ (Healthy /\ socket = ctxfsPid))
    /\ cli' = [cli EXCEPT ![c] = IF @.cmd = "start"
                                   THEN [@ EXCEPT !.pc = "spawnTracker", !.child = None]
                                   ELSE Idle]

\* status() under the lock.
Probe(c) ==
    /\ cli[c].pc = "lock"
    /\ LockFree
    /\ \/ Healthy /\ Ensured(c)
       \/ ~ Healthy /\ lock' = c /\ UNCHANGED ready
            /\ Goto(c, IF CtxfsRunning THEN "kill" ELSE "unlink")
    /\ UNCHANGED <<os, ctxfsPid, trackerPid, socket, orphans, raced, commands, faults>>

\* stop(): SIGTERM, and SIGKILL for a process that is still there after 5 s.
Kill(c) ==
    /\ cli[c].pc = "kill"
    /\ os' = IF CtxfsRunning THEN [os EXCEPT ![ctxfsPid] = "dead"] ELSE os
    /\ Goto(c, "cleanup")
    /\ UNCHANGED <<ctxfsPid, trackerPid, socket, lock, ready, orphans, raced, commands,
                   faults>>

\* The faulty variant empties the pid file instead of removing it.
CleanupEmptied(c) ==
    /\ cli[c].pc = "cleanup"
    /\ ctxfsPid' = 0
    /\ socket' = None
    /\ Goto(c, "unlink")
    /\ UNCHANGED <<os, trackerPid, lock, ready, orphans, raced, commands, faults>>

Cleanup(c) ==
    /\ cli[c].pc = "cleanup"
    /\ ctxfsPid' = None
    /\ socket' = None
    /\ Goto(c, "unlink")
    /\ UNCHANGED <<os, trackerPid, lock, ready, orphans, raced, commands, faults>>

\* A socket file left behind, or one of a server nobody knows, is removed.
Unlink(c) ==
    /\ cli[c].pc = "unlink"
    /\ socket' = None
    /\ Goto(c, "spawn")
    /\ UNCHANGED <<os, ctxfsPid, trackerPid, lock, ready, orphans, raced, commands, faults>>

Spawn(c) ==
    /\ cli[c].pc = "spawn"
    /\ \E n \in Pids :
         /\ Unused(n)
         /\ os' = [os EXCEPT ![n] = "starting"]
         /\ cli' = [cli EXCEPT ![c].pc = "writePid", ![c].child = n]
    /\ UNCHANGED <<ctxfsPid, trackerPid, socket, lock, ready, orphans, raced, commands,
                   faults>>

WritePid(c) ==
    /\ cli[c].pc = "writePid"
    /\ ctxfsPid' = cli[c].child
    /\ Goto(c, "poll")
    /\ UNCHANGED <<os, trackerPid, socket, lock, ready, orphans, raced, commands, faults>>

Poll(c) ==
    /\ cli[c].pc = "poll"
    /\ Answers
    /\ Ensured(c)
    /\ UNCHANGED <<os, ctxfsPid, trackerPid, socket, orphans, raced, commands, faults>>

\* The child has exited, or 5 s have passed.
GiveUp(c) ==
    /\ cli[c].pc = "poll"
    /\ faults' = IF os[cli[c].child] \in {"dead", "hung"} THEN faults ELSE faults + 1
    /\ faults' <= MaxFaults
    /\ Goto(c, "abort")
    /\ UNCHANGED <<os, ctxfsPid, trackerPid, socket, lock, ready, orphans, raced, commands>>

\* The faulty variant forgets the child it started.
AbortLeaves(c) ==
    /\ cli[c].pc = "abort"
    /\ ctxfsPid' = None
    /\ socket' = None
    /\ lock' = None
    /\ cli' = [cli EXCEPT ![c] = Idle]
    /\ UNCHANGED <<os, trackerPid, ready, orphans, raced, commands, faults>>

\* _terminate_process, _cleanup_runtime_files, and the error.
Abort(c) ==
    /\ cli[c].pc = "abort"
    /\ os' = [os EXCEPT ![cli[c].child] = "dead"]
    /\ ctxfsPid' = None
    /\ socket' = None
    /\ lock' = None
    /\ cli' = [cli EXCEPT ![c] = Idle]
    /\ UNCHANGED <<trackerPid, ready, orphans, raced, commands, faults>>

-----------------------------------------------------------------------------
(* tracker start and tracker stop *)

\* The faulty variant starts without looking.
CheckTrackerNot(c) ==
    /\ cli[c].pc = "checkTracker"
    /\ Goto(c, "lock")
    /\ UNCHANGED <<os, ctxfsPid, trackerPid, socket, lock, ready, orphans, raced,
                   commands, faults>>

\* With an external endpoint only the authentication is validated.
CheckTracker(c) ==
    /\ cli[c].pc = "checkTracker"
    /\ \/ TrackerRunning /\ cli' = [cli EXCEPT ![c] = Idle]
       \/ ~ TrackerRunning /\ \E label \in {"lock", "spawnTracker"} : Goto(c, label)
    /\ UNCHANGED <<os, ctxfsPid, trackerPid, socket, lock, ready, orphans, raced,
                   commands, faults>>

SpawnTracker(c) ==
    /\ cli[c].pc = "spawnTracker"
    /\ \E n \in Pids :
         /\ Unused(n)
         /\ os' = [os EXCEPT ![n] = "tracker"]
         /\ cli' = [cli EXCEPT ![c].pc = "writeTrackerPid", ![c].child = n]
    /\ UNCHANGED <<ctxfsPid, trackerPid, socket, lock, ready, orphans, raced, commands,
                   faults>>

WriteTrackerPid(c) ==
    /\ cli[c].pc = "writeTrackerPid"
    /\ trackerPid' = cli[c].child
    /\ cli' = [cli EXCEPT ![c] = Idle]
    /\ UNCHANGED <<os, ctxfsPid, socket, lock, ready, orphans, raced, commands, faults>>

StopTracker(c) ==
    /\ cli[c].pc = "stopTracker"
    /\ os' = IF TrackerRunning THEN [os EXCEPT ![trackerPid] = "dead"] ELSE os
    /\ Goto(c, "stopCleanup")
    /\ UNCHANGED <<ctxfsPid, trackerPid, socket, lock, ready, orphans, raced, commands,
                   faults>>

StopCleanup(c) ==
    /\ cli[c].pc = "stopCleanup"
    /\ trackerPid' = None
    /\ cli' = [cli EXCEPT ![c] = Idle]
    /\ UNCHANGED <<os, ctxfsPid, socket, lock, ready, orphans, raced, commands, faults>>

-----------------------------------------------------------------------------
(* The background processes *)

\* _validate_socket_target
SocketFree == socket = None

\* The socket of a ready server may be lost to an orphan; whoever else took it
\* would leave ready as it is.
StaysReady(n) == ready' = (ready /\ ~ (n \in orphans /\ socket' # socket))

\* serve(): the path is looked at once, before uvicorn.run.
Check(n) ==
    /\ os[n] = "starting"
    /\ os' = [os EXCEPT ![n] = IF SocketFree THEN "checked" ELSE "dead"]
    /\ UNCHANGED <<ctxfsPid, trackerPid, socket, lock, cli, ready, orphans, raced, commands,
                   faults>>

\* uvicorn.run, asyncio's create_unix_server: a socket that is there by now is
\* removed before the path is bound, whoever listens on it.
Replace(n) ==
    /\ os[n] = "checked"
    /\ os' = [os EXCEPT ![n] = "binding"]
    /\ socket' = None
    /\ StaysReady(n)
    /\ UNCHANGED <<ctxfsPid, trackerPid, lock, cli, orphans, raced, commands, faults>>

\* bind(2).  Between the removal and here the path may be taken again: the server
\* exits, and uvicorn.run removes the socket file on its way out, whoever's it is.
Bind(n) ==
    /\ os[n] = "binding"
    /\ \/ socket = None /\ socket' = n /\ os' = [os EXCEPT ![n] = "listening"]
       \/ socket # None /\ socket' = None /\ os' = [os EXCEPT ![n] = "dead"]
    /\ StaysReady(n)
    /\ UNCHANGED <<ctxfsPid, trackerPid, lock, cli, orphans, raced, commands, faults>>

\* A background process dies or stops answering.  The socket file stays when a
\* signal ended it, and is removed when uvicorn.run was left by an exception.
Fail(n) ==
    /\ faults < MaxFaults
    /\ faults' = faults + 1
    /\ \/ n \in Servers \cup Trackers /\ os' = [os EXCEPT ![n] = "dead"] /\ UNCHANGED socket
       \/ /\ n \in Servers /\ os[n] # "starting"
          /\ os' = [os EXCEPT ![n] = "dead"] /\ socket' = None
       \/ os[n] = "listening" /\ os' = [os EXCEPT ![n] = "hung"] /\ UNCHANGED socket
    /\ ready' = (ready /\ n # ctxfsPid /\ ~ (n \in orphans /\ socket' # socket))
    /\ UNCHANGED <<ctxfsPid, trackerPid, lock, cli, orphans, raced, commands>>

-----------------------------------------------------------------------------

Init ==
    /\ os = [n \in Pids |-> "free"]
    /\ ctxfsPid = None /\ trackerPid = None /\ socket = None /\ lock = None
    /\ cli = [c \in Clis |-> Idle]
    /\ ready = FALSE /\ orphans = {} /\ raced = FALSE
    /\ commands = 0 /\ faults = 0

Step(c) ==
    \/ Probe(c) \/ Kill(c) \/ Cleanup(c) \/ Unlink(c) \/ Spawn(c) \/ WritePid(c)
    \/ Poll(c) \/ GiveUp(c) \/ Abort(c)
    \/ CheckTracker(c) \/ SpawnTracker(c) \/ WriteTrackerPid(c)
    \/ StopTracker(c) \/ StopCleanup(c)

Next ==
    \/ \E c \in Clis : (\E cmd \in Command : Begin(c, cmd)) \/ Step(c) \/ Die(c)
    \/ \E n \in Pids : Check(n) \/ Replace(n) \/ Bind(n) \/ Fail(n)

Spec == Init /\ [][Next]_vars

-----------------------------------------------------------------------------
(* Properties *)

\* The type invariant of the process table, the files and the commands.
TypeOK ==
    /\ os \in [Pids -> ServerStates \cup {"free", "tracker", "dead"}]
    /\ {ctxfsPid, trackerPid, socket} \subseteq Pids \cup {None}
    /\ lock \in Clis \cup {None}
    /\ cli \in [Clis -> [pc : Labels, cmd : Command \cup {None}, child : Pids \cup {None}]]
    /\ orphans \subseteq Pids
    /\ {ready, raced} \subseteq BOOLEAN
    /\ commands \in 0 .. MaxCommands
    /\ faults \in 0 .. MaxFaults

\* However many commands call ensure_started at once, and whatever dies or
\* hangs, at most one server lives and ctxfs.pid names it, a server whose
\* starter died between starting it and writing the file excepted.
OneServer ==
    /\ Cardinality(Servers \ orphans) <= 1
    /\ \A n \in Servers \ orphans :
         ctxfsPid = n \/ \E c \in Clis : cli[c].pc = "writePid" /\ cli[c].child = n

\* Once a command has found the server of ctxfs.pid answering it stays healthy:
\* no command stops it or takes its socket away, however many commands follow and
\* die.  Only its own failure ends that, or a server nobody knows (an orphan) that
\* is late to bind the socket.
ReadyStaysHealthy == ready => Healthy

\* Tracker commands that do not overlap leave at most one tracker, named by
\* tracker.pid, so that `tracker stop` reaches it.
TrackerIsNamed ==
    \/ raced
    \/ \A n \in Trackers \ orphans :
         trackerPid = n \/ \E c \in Clis : cli[c].pc = "writeTrackerPid" /\ cli[c].child = n
=============================================================================
