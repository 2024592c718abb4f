----------------------- MODULE ServiceLifecycleProofs -----------------------
(***************************************************************************)
(* Theorems about ServiceLifecycle, for any number of commands, background *)
(* processes, deaths, hangs and slow starts: one server that its pid file  *)
(* names, a server in use left alone, and trackers that `tracker stop`     *)
(* reaches.                                                                *)
(***************************************************************************)
EXTENDS ServiceLifecycle, FiniteSetTheorems, TLAPS

-----------------------------------------------------------------------------
(* The inductive invariant *)

\* The steps of ensure_started between taking and releasing ctxfs.lock.
Locked == {"kill", "cleanup", "unlink", "spawn", "writePid", "poll", "abort"}

\* The steps of `tracker start` and of `tracker stop` about the tracker itself.
OfStart == {"checkTracker", "spawnTracker", "writeTrackerPid"}
OfStop == {"stopTracker", "stopCleanup"}

\* A process that is being started, or that a pid file names, was started.
ChildrenStarted ==
    /\ \A c \in Clis : cli[c].pc \in {"writePid", "poll", "abort", "writeTrackerPid"} =>
           cli[c].child \in Pids /\ os[cli[c].child] # "free"
    /\ \A n \in Pids : n \in {ctxfsPid, trackerPid, socket} => os[n] # "free"

\* What ensure_started knows of ctxfs.pid while it has the lock: before the start
\* of a new server the old one is gone, afterwards the file names the new one.
PidFileSound ==
    /\ \A c \in Clis : cli[c].pc \in Locked => lock = c
    /\ \A c \in Clis : cli[c].pc \in {"cleanup", "unlink", "spawn", "writePid"} =>
           ctxfsPid \notin Servers
    /\ \A c \in Clis : cli[c].pc \in {"poll", "abort"} => ctxfsPid = cli[c].child

\* Every server but the orphans is named, or about to be.
ServersNamed ==
    \A n \in Servers \ orphans :
        ctxfsPid = n \/ \E c \in Clis : cli[c].pc = "writePid" /\ cli[c].child = n

\* While the server is ready, no command is in the middle of replacing it; by
\* ServersNamed every other server is then an orphan.
ReadySound ==
    ready => /\ ctxfsPid \in Pids /\ socket = ctxfsPid /\ os[ctxfsPid] = "listening"
             /\ \A c \in Clis : cli[c].pc \notin Locked

\* Which commands are at which steps; those of the tracker exclude one another
\* unless they raced.
CommandsSound ==
    /\ \A c \in Clis : cli[c].pc = "idle" => cli[c].cmd = None
    /\ \A c \in Clis : cli[c].pc \in OfStart => cli[c].cmd = "start"
    /\ \A c \in Clis : cli[c].pc \in OfStop => cli[c].cmd = "stop"
    /\ \A c \in Clis : cli[c].pc \in Locked \cup {"lock"} =>
           cli[c].cmd \in {"ensure", "start"}
    /\ ~raced => \A c, d \in Clis :
           (cli[c].cmd \in {"start", "stop"} /\ cli[d].cmd \in {"start", "stop"}) => c = d

\* A start that has looked, and a stop that has killed, know that tracker.pid names
\* no tracker; then every tracker but the orphans is named, or about to be.
TrackersNamed ==
    ~raced =>
        /\ \A c \in Clis :
               \/ cli[c].cmd = "start" /\ cli[c].pc # "checkTracker"
               \/ cli[c].pc = "stopCleanup"
               => trackerPid \notin Trackers
        /\ \A n \in Trackers \ orphans :
               trackerPid = n \/ \E c \in Clis : cli[c].pc = "writeTrackerPid" /\ cli[c].child = n

LifecycleSound ==
    /\ TypeOK /\ ChildrenStarted /\ PidFileSound /\ ServersNamed
    /\ ReadySound /\ CommandsSound /\ TrackersNamed

-----------------------------------------------------------------------------
(* Every step keeps it *)

\* A file that is absent names no process.
LEMMA NoneIsNoPid == None \notin Pids /\ Pids \subseteq Nat
BY LifecycleAssumption DEF Pids

\* A command begins: at the first step of ensure_started or of the tracker command.
LEMMA BeginKeeps ==
    ASSUME LifecycleSound, NEW c \in Clis, NEW cmd \in Command, Begin(c, cmd)
    PROVE  LifecycleSound'
<1> USE LifecycleAssumption, NoneIsNoPid
    DEF LifecycleSound, TypeOK, ServerStates, Labels, Command
<1>1. TypeOK'
  BY DEF TypeOK, Begin, FirstStep
<1>2. ChildrenStarted'
  BY DEF ChildrenStarted, Begin, FirstStep
<1>3. PidFileSound'
  BY DEF PidFileSound, Servers, Locked, Begin, FirstStep
<1>4. ServersNamed'
  BY DEF ServersNamed, Servers, Begin
<1>5. ReadySound'
  BY DEF ReadySound, Locked, Begin, FirstStep
<1>6. CommandsSound'
  <2>1. (\A d \in Clis \ {c} : cli'[d] = cli[d]) /\ cli'[c].pc = FirstStep(cmd) /\ cli'[c].cmd = cmd
    BY DEF Begin
  <2>2. /\ FirstStep(cmd) # "idle"
        /\ FirstStep(cmd) \in OfStart => cmd = "start"
        /\ FirstStep(cmd) \in OfStop => cmd = "stop"
        /\ FirstStep(cmd) \in Locked \cup {"lock"} => cmd = "ensure"
    BY DEF FirstStep, OfStart, OfStop, Locked
  <2>3. ~raced' => ~raced /\ (cmd \in {"start", "stop"} =>
            \A d \in Clis : cli[d].cmd \notin {"start", "stop"})
    BY DEF Begin
  <2> QED BY <2>1, <2>2, <2>3 DEF CommandsSound
<1>7. TrackersNamed'
  BY DEF TrackersNamed, Trackers, Begin, FirstStep
<1> QED BY <1>1, <1>2, <1>3, <1>4, <1>5, <1>6, <1>7

\* A command is killed: the lock is released with its process, the child it started
\* and had not yet written down becomes an orphan.
LEMMA DieKeeps ==
    ASSUME LifecycleSound, NEW c \in Clis, Die(c)
    PROVE  LifecycleSound'
<1> USE LifecycleAssumption, NoneIsNoPid
    DEF LifecycleSound, TypeOK, ServerStates, Labels, Command
<1>1. TypeOK'
  <2>1. cli[c].pc \in {"writePid", "writeTrackerPid"} => cli[c].child \in Pids
    BY DEF ChildrenStarted
  <2>2. orphans' \subseteq Pids
    BY <2>1 DEF Die
  <2>3. cli' \in [Clis -> [pc : Labels, cmd : Command \cup {None}, child : Pids \cup {None}]]
    BY DEF Die, Idle
  <2>4. faults' \in 0 .. MaxFaults /\ lock' \in Clis \cup {None}
    BY DEF Die
  <2> QED BY <2>2, <2>3, <2>4 DEF Die
<1>2. ChildrenStarted'
  BY DEF ChildrenStarted, Die, Idle
<1>3. PidFileSound'
  BY DEF PidFileSound, Servers, Locked, Die, Idle
<1>4. ServersNamed'
  BY DEF ServersNamed, Servers, Die
<1>5. ReadySound'
  BY DEF ReadySound, Locked, Die, Idle
<1>6. CommandsSound'
  BY DEF CommandsSound, OfStart, OfStop, Locked, Die, Idle
<1>7. TrackersNamed'
  BY DEF TrackersNamed, Trackers, Die, Idle
<1> QED BY <1>1, <1>2, <1>3, <1>4, <1>5, <1>6, <1>7

\* ensure_started returns, before or after a start: `tracker start` goes on to its
\* tracker, the lock is free again, and a server that answers on its socket is ready.
LEMMA EnsuredKeeps ==
    ASSUME LifecycleSound, NEW c \in Clis, Answers, Ensured(c),
           \/ cli[c].pc = "lock" /\ lock = None
           \/ cli[c].pc = "poll",
           UNCHANGED <<os, ctxfsPid, trackerPid, socket, orphans, raced, commands, faults>>
    PROVE  LifecycleSound'
<1> USE LifecycleAssumption, NoneIsNoPid DEF LifecycleSound, TypeOK
<1>1. /\ \A d \in Clis \ {c} : cli'[d] = cli[d]
      /\ lock' = None /\ ready' = (ready \/ (Healthy /\ socket = ctxfsPid))
  BY DEF Ensured
<1>2. \/ /\ cli[c].cmd = "start" /\ cli'[c].cmd = "start"
         /\ cli'[c].pc = "spawnTracker" /\ cli'[c].child = None
      \/ cli'[c].cmd = None /\ cli'[c].pc = "idle" /\ cli'[c].child = None
  BY DEF Ensured, Idle
<1>3. cli' \in [Clis -> [pc : Labels, cmd : Command \cup {None}, child : Pids \cup {None}]]
  <2> DEFINE Cli == [pc : Labels, cmd : Command \cup {None}, child : Pids \cup {None}]
  <2>1. Idle \in Cli
    BY DEF Idle, Labels
  <2>2. [cli[c] EXCEPT !.pc = "spawnTracker", !.child = None] \in Cli
    <3>1. cli[c] \in Cli /\ "spawnTracker" \in Labels
      BY DEF Labels
    <3> QED BY <3>1
  <2>3. cli' \in [Clis -> Cli]
    BY <2>1, <2>2 DEF Ensured
  <2> QED BY <2>3
<1>4. TypeOK'
  <2>1. ready' \in BOOLEAN
    BY <1>1
  <2> QED BY <1>1, <1>3, <2>1
<1>5. ChildrenStarted'
  BY <1>1, <1>2 DEF ChildrenStarted
<1>6. \A d \in Clis : cli'[d].pc \notin Locked
  BY <1>1, <1>2 DEF PidFileSound, Locked
<1>7. PidFileSound'
  BY <1>6 DEF PidFileSound, Locked
<1>8. ServersNamed'
  BY <1>1, <1>2 DEF ServersNamed, Servers, PidFileSound
<1>9. ReadySound'
  BY <1>1, <1>6 DEF ReadySound, Healthy, CtxfsRunning, Answers, Servers
<1>10. CommandsSound'
  BY <1>1, <1>2 DEF CommandsSound, OfStart, OfStop, Locked, Command
<1>11. TrackersNamed'
  BY <1>1, <1>2 DEF TrackersNamed, Trackers, Command
<1> QED BY <1>4, <1>5, <1>7, <1>8, <1>9, <1>10, <1>11

\* status() under the lock: the server answers, or the command goes on to replace it.
LEMMA ProbeKeeps ==
    ASSUME LifecycleSound, NEW c \in Clis, Probe(c)
    PROVE  LifecycleSound'
<1> USE LifecycleAssumption, NoneIsNoPid DEF LifecycleSound, TypeOK
<1>1. CASE Healthy /\ Ensured(c)
  BY <1>1, EnsuredKeeps DEF Probe, LockFree, Healthy
<1>2. CASE ~Healthy
  <2>1. /\ \A d \in Clis \ {c} : cli'[d] = cli[d]
        /\ cli'[c].pc = IF CtxfsRunning THEN "kill" ELSE "unlink"
        /\ cli'[c].cmd = cli[c].cmd /\ cli'[c].child = cli[c].child
        /\ cli[c].pc = "lock" /\ lock = None /\ lock' = c /\ ready' = ready
    BY <1>2 DEF Probe, Goto, LockFree
  <2>2. UNCHANGED <<os, ctxfsPid, trackerPid, socket, orphans, raced, commands, faults>>
    BY DEF Probe
  <2>3. cli' \in [Clis -> [pc : Labels, cmd : Command \cup {None}, child : Pids \cup {None}]]
    BY <1>2 DEF Probe, Goto, Labels
  <2>4. TypeOK'
    BY <2>1, <2>2, <2>3
  <2>5. ChildrenStarted'
    BY <2>1, <2>2 DEF ChildrenStarted
  <2>6. PidFileSound'
    BY <2>1, <2>2 DEF PidFileSound, Locked, CtxfsRunning, Servers
  <2>7. ServersNamed'
    BY <2>1, <2>2 DEF ServersNamed, Servers
  <2>8. ~ready
    BY <1>2 DEF ReadySound, Healthy, CtxfsRunning, Answers, Servers, ServerStates
  <2>9. ReadySound'
    BY <2>1, <2>8 DEF ReadySound
  <2>10. CommandsSound'
    BY <2>1, <2>2 DEF CommandsSound, OfStart, OfStop, Locked
  <2>11. TrackersNamed'
    BY <2>1, <2>2 DEF TrackersNamed, Trackers
  <2> QED BY <2>4, <2>5, <2>6, <2>7, <2>9, <2>10, <2>11
<1> QED BY <1>1, <1>2 DEF Probe

\* stop(): the server that ctxfs.pid names is gone.
LEMMA KillKeeps ==
    ASSUME LifecycleSound, NEW c \in Clis, Kill(c)
    PROVE  LifecycleSound'
<1> USE LifecycleAssumption, NoneIsNoPid
    DEF LifecycleSound, TypeOK, ServerStates, Labels, Command
<1>1. TypeOK'
  <2>1. os' \in [Pids -> ServerStates \cup {"free", "tracker", "dead"}]
    BY DEF Kill, CtxfsRunning, Servers
  <2>2. cli' \in [Clis -> [pc : Labels, cmd : Command \cup {None}, child : Pids \cup {None}]]
    BY DEF Kill, Goto
  <2> QED BY <2>1, <2>2 DEF Kill
<1>2. ChildrenStarted'
  BY DEF ChildrenStarted, Kill, Goto
<1>3. PidFileSound'
  BY DEF PidFileSound, Servers, Locked, Kill, CtxfsRunning, Goto
<1>4. ServersNamed'
  BY DEF ServersNamed, Servers, Kill, Goto
<1>5. ReadySound'
  BY DEF ReadySound, Locked, Kill, Goto
<1>6. CommandsSound'
  BY DEF CommandsSound, OfStart, OfStop, Locked, Kill, Goto
<1>7. TrackersNamed'
  BY DEF TrackersNamed, Trackers, Kill, Goto
<1> QED BY <1>1, <1>2, <1>3, <1>4, <1>5, <1>6, <1>7

\* _cleanup_runtime_files after the stop.
LEMMA CleanupKeeps ==
    ASSUME LifecycleSound, NEW c \in Clis, Cleanup(c)
    PROVE  LifecycleSound'
<1> USE LifecycleAssumption, NoneIsNoPid
    DEF LifecycleSound, TypeOK, ServerStates, Labels, Command
<1>1. TypeOK'
  BY DEF TypeOK, Cleanup, Goto
<1>2. ChildrenStarted'
  BY DEF ChildrenStarted, Cleanup, Goto
<1>3. PidFileSound'
  BY DEF PidFileSound, Servers, Locked, Cleanup, Goto
<1>4. ServersNamed'
  BY DEF ServersNamed, PidFileSound, ChildrenStarted, Servers, Locked, Cleanup, Goto
<1>5. ReadySound'
  BY DEF ReadySound, Locked, Cleanup, Goto
<1>6. CommandsSound'
  BY DEF CommandsSound, OfStart, OfStop, Locked, Cleanup, Goto
<1>7. TrackersNamed'
  BY DEF TrackersNamed, Trackers, Cleanup, Goto
<1> QED BY <1>1, <1>2, <1>3, <1>4, <1>5, <1>6, <1>7

\* The socket file that was left behind is removed.
LEMMA UnlinkKeeps ==
    ASSUME LifecycleSound, NEW c \in Clis, Unlink(c)
    PROVE  LifecycleSound'
<1> USE LifecycleAssumption, NoneIsNoPid
    DEF LifecycleSound, TypeOK, ServerStates, Labels, Command
<1>1. TypeOK'
  BY DEF TypeOK, Unlink, Goto
<1>2. ChildrenStarted'
  BY DEF ChildrenStarted, Unlink, Goto
<1>3. PidFileSound'
  BY DEF PidFileSound, Servers, Locked, Unlink, Goto
<1>4. ServersNamed'
  BY DEF ServersNamed, Servers, Unlink, Goto
<1>5. ReadySound'
  BY DEF ReadySound, Locked, Unlink, Goto
<1>6. CommandsSound'
  BY DEF CommandsSound, OfStart, OfStop, Locked, Unlink, Goto
<1>7. TrackersNamed'
  BY DEF TrackersNamed, Trackers, Unlink, Goto
<1> QED BY <1>1, <1>2, <1>3, <1>4, <1>5, <1>6, <1>7

\* The new server gets a pid that no file and no command knows.
LEMMA SpawnKeeps ==
    ASSUME LifecycleSound, NEW c \in Clis, Spawn(c)
    PROVE  LifecycleSound'
<1> USE LifecycleAssumption, NoneIsNoPid
    DEF LifecycleSound, TypeOK, ServerStates, Labels, Command
<1>1. TypeOK'
  <2>1. os' \in [Pids -> ServerStates \cup {"free", "tracker", "dead"}]
    BY DEF Spawn
  <2>2. PICK n \in Pids :
            cli' = [cli EXCEPT ![c] = [@ EXCEPT !.pc = "writePid", !.child = n]]
    BY DEF Spawn
  <2>3. [cli[c] EXCEPT !.pc = "writePid", !.child = n]
          \in [pc : Labels, cmd : Command \cup {None}, child : Pids \cup {None}]
    <3>1. cli[c] \in [pc : Labels, cmd : Command \cup {None}, child : Pids \cup {None}]
      OBVIOUS
    <3> QED BY <3>1
  <2>4. cli' \in [Clis -> [pc : Labels, cmd : Command \cup {None}, child : Pids \cup {None}]]
    BY <2>2, <2>3
  <2> QED BY <2>1, <2>4 DEF Spawn
<1>2. ChildrenStarted'
  BY DEF ChildrenStarted, Spawn
<1>3. PidFileSound'
  BY DEF PidFileSound, ChildrenStarted, Servers, Locked, Spawn, Unused
<1>4. ServersNamed'
  BY DEF ServersNamed, Servers, Spawn
<1>5. ReadySound'
  BY DEF ReadySound, Locked, Spawn
<1>6. CommandsSound'
  BY DEF CommandsSound, OfStart, OfStop, Locked, Spawn
<1>7. TrackersNamed'
  BY DEF TrackersNamed, Trackers, Spawn
<1> QED BY <1>1, <1>2, <1>3, <1>4, <1>5, <1>6, <1>7

\* ctxfs.pid names the new server.
LEMMA WritePidKeeps ==
    ASSUME LifecycleSound, NEW c \in Clis, WritePid(c)
    PROVE  LifecycleSound'
<1> USE LifecycleAssumption, NoneIsNoPid
    DEF LifecycleSound, TypeOK, ServerStates, Labels, Command
<1>1. TypeOK'
  BY DEF TypeOK, WritePid, Goto
<1>2. ChildrenStarted'
  BY DEF ChildrenStarted, WritePid, Goto
<1>3. PidFileSound'
  BY DEF PidFileSound, Servers, Locked, WritePid, Goto
<1>4. ServersNamed'
  BY DEF ServersNamed, PidFileSound, ChildrenStarted, Servers, Locked, WritePid, Goto
<1>5. ReadySound'
  BY DEF ReadySound, Locked, WritePid, Goto
<1>6. CommandsSound'
  BY DEF CommandsSound, OfStart, OfStop, Locked, WritePid, Goto
<1>7. TrackersNamed'
  BY DEF TrackersNamed, Trackers, WritePid, Goto
<1> QED BY <1>1, <1>2, <1>3, <1>4, <1>5, <1>6, <1>7

\* The new server answers.
LEMMA PollKeeps ==
    ASSUME LifecycleSound, NEW c \in Clis, Poll(c)
    PROVE  LifecycleSound'
BY EnsuredKeeps DEF Poll

\* The new server exited or took too long.
LEMMA GiveUpKeeps ==
    ASSUME LifecycleSound, NEW c \in Clis, GiveUp(c)
    PROVE  LifecycleSound'
<1> USE LifecycleAssumption, NoneIsNoPid
    DEF LifecycleSound, TypeOK, ServerStates, Labels, Command
<1>1. TypeOK'
  BY DEF TypeOK, GiveUp, Goto
<1>2. ChildrenStarted'
  BY DEF ChildrenStarted, GiveUp, Goto
<1>3. PidFileSound'
  BY DEF PidFileSound, Servers, Locked, GiveUp, Goto
<1>4. ServersNamed'
  BY DEF ServersNamed, Servers, GiveUp, Goto
<1>5. ReadySound'
  BY DEF ReadySound, Locked, GiveUp, Goto
<1>6. CommandsSound'
  BY DEF CommandsSound, OfStart, OfStop, Locked, GiveUp, Goto
<1>7. TrackersNamed'
  BY DEF TrackersNamed, Trackers, GiveUp, Goto
<1> QED BY <1>1, <1>2, <1>3, <1>4, <1>5, <1>6, <1>7

\* The new server is stopped and its files are removed.
LEMMA AbortKeeps ==
    ASSUME LifecycleSound, NEW c \in Clis, Abort(c)
    PROVE  LifecycleSound'
<1> USE LifecycleAssumption, NoneIsNoPid
    DEF LifecycleSound, TypeOK, ServerStates, Labels, Command
<1>1. TypeOK'
  BY DEF TypeOK, Abort, Idle
<1>2. ChildrenStarted'
  BY DEF ChildrenStarted, Abort, Idle
<1>3. PidFileSound'
  BY DEF PidFileSound, Servers, Locked, Abort, Idle
<1>4. ServersNamed'
  BY DEF ServersNamed, PidFileSound, ChildrenStarted, Servers, Locked, Abort, Idle
<1>5. ReadySound'
  BY DEF ReadySound, Locked, Abort
<1>6. CommandsSound'
  BY DEF CommandsSound, OfStart, OfStop, Locked, Abort, Idle
<1>7. TrackersNamed'
  BY DEF TrackersNamed, Trackers, Abort, Idle
<1> QED BY <1>1, <1>2, <1>3, <1>4, <1>5, <1>6, <1>7

\* `tracker start` looks whether tracker.pid names a tracker.
LEMMA CheckTrackerKeeps ==
    ASSUME LifecycleSound, NEW c \in Clis, CheckTracker(c)
    PROVE  LifecycleSound'
<1> USE LifecycleAssumption, NoneIsNoPid
    DEF LifecycleSound, TypeOK, ServerStates, Labels, Command
<1>1. TypeOK'
  BY DEF TypeOK, CheckTracker, TrackerRunning, Goto, Idle
<1>2. ChildrenStarted'
  BY DEF ChildrenStarted, CheckTracker, TrackerRunning, Goto, Idle
<1>3. PidFileSound'
  BY DEF PidFileSound, Servers, Locked, CheckTracker, TrackerRunning, Goto, Idle
<1>4. ServersNamed'
  BY DEF ServersNamed, Servers, CheckTracker, Goto
<1>5. ReadySound'
  BY DEF ReadySound, Locked, CheckTracker, TrackerRunning, Goto, Idle
<1>6. CommandsSound'
  <2>1. \A d \in Clis \ {c} : cli'[d] = cli[d]
    BY DEF CheckTracker, Goto
  <2>2. cli[c].pc = "checkTracker" /\ cli[c].cmd = "start" /\ raced' = raced
    BY DEF CheckTracker, CommandsSound, OfStart, OfStop
  <2>3. CASE cli'[c] = Idle
    BY <2>1, <2>3 DEF CommandsSound, Idle, OfStart, OfStop, Locked, CheckTracker
  <2>4. CASE cli'[c].cmd = cli[c].cmd /\ cli'[c].pc \in {"lock", "spawnTracker"}
    BY <2>1, <2>2, <2>4 DEF CommandsSound, OfStart, OfStop, Locked
  <2> QED BY <2>3, <2>4 DEF CheckTracker, Goto
<1>7. TrackersNamed'
  BY DEF TrackersNamed, Trackers, CheckTracker, TrackerRunning, Goto, Idle
<1> QED BY <1>1, <1>2, <1>3, <1>4, <1>5, <1>6, <1>7

\* The new tracker gets a pid that no file and no command knows.
LEMMA SpawnTrackerKeeps ==
    ASSUME LifecycleSound, NEW c \in Clis, SpawnTracker(c)
    PROVE  LifecycleSound'
<1> USE LifecycleAssumption, NoneIsNoPid
    DEF LifecycleSound, TypeOK, ServerStates, Labels, Command
<1>1. TypeOK'
  <2>1. os' \in [Pids -> ServerStates \cup {"free", "tracker", "dead"}]
    BY DEF SpawnTracker
  <2>2. PICK n \in Pids :
            cli' = [cli EXCEPT ![c] = [@ EXCEPT !.pc = "writeTrackerPid", !.child = n]]
    BY DEF SpawnTracker
  <2>3. [cli[c] EXCEPT !.pc = "writeTrackerPid", !.child = n]
          \in [pc : Labels, cmd : Command \cup {None}, child : Pids \cup {None}]
    <3>1. cli[c] \in [pc : Labels, cmd : Command \cup {None}, child : Pids \cup {None}]
      OBVIOUS
    <3> QED BY <3>1
  <2>4. cli' \in [Clis -> [pc : Labels, cmd : Command \cup {None}, child : Pids \cup {None}]]
    BY <2>2, <2>3
  <2> QED BY <2>1, <2>4 DEF SpawnTracker
<1>2. ChildrenStarted'
  BY DEF ChildrenStarted, SpawnTracker
<1>3. PidFileSound'
  BY DEF PidFileSound, Servers, Locked, SpawnTracker
<1>4. ServersNamed'
  BY DEF ServersNamed, Servers, SpawnTracker
<1>5. ReadySound'
  BY DEF ReadySound, Locked, SpawnTracker, Unused
<1>6. CommandsSound'
  BY DEF CommandsSound, OfStart, OfStop, Locked, SpawnTracker
<1>7. TrackersNamed'
  BY DEF TrackersNamed, CommandsSound, ChildrenStarted, OfStart, OfStop, Trackers,
         Locked, SpawnTracker, Unused
<1> QED BY <1>1, <1>2, <1>3, <1>4, <1>5, <1>6, <1>7

\* tracker.pid names the new tracker.
LEMMA WriteTrackerPidKeeps ==
    ASSUME LifecycleSound, NEW c \in Clis, WriteTrackerPid(c)
    PROVE  LifecycleSound'
<1> USE LifecycleAssumption, NoneIsNoPid
    DEF LifecycleSound, TypeOK, ServerStates, Labels, Command
<1>1. TypeOK'
  BY DEF TypeOK, WriteTrackerPid, Idle
<1>2. ChildrenStarted'
  BY DEF ChildrenStarted, WriteTrackerPid, Idle
<1>3. PidFileSound'
  BY DEF PidFileSound, Servers, Locked, WriteTrackerPid, Idle
<1>4. ServersNamed'
  BY DEF ServersNamed, Servers, WriteTrackerPid
<1>5. ReadySound'
  BY DEF ReadySound, Locked, WriteTrackerPid, Idle
<1>6. CommandsSound'
  BY DEF CommandsSound, OfStart, OfStop, Locked, WriteTrackerPid, Idle
<1>7. TrackersNamed'
  <2> SUFFICES ASSUME ~raced PROVE TrackersNamed'
    BY DEF TrackersNamed, WriteTrackerPid
  <2>1. /\ \A d \in Clis \ {c} : cli'[d] = cli[d]
        /\ cli'[c].cmd = None /\ cli'[c].pc = "idle"
    BY DEF WriteTrackerPid, Idle
  <2>2. Trackers' = Trackers /\ orphans' = orphans /\ trackerPid' = cli[c].child
    BY DEF WriteTrackerPid, Trackers
  <2>3. cli[c].cmd = "start"
    BY DEF CommandsSound, OfStart, OfStop, WriteTrackerPid
  <2>4. \A d \in Clis \ {c} : cli[d].cmd \notin {"start", "stop"} /\ cli[d].pc \notin OfStop
    BY <2>3 DEF CommandsSound
  <2>5. trackerPid \notin Trackers
    BY <2>3 DEF TrackersNamed, WriteTrackerPid
  <2> QED BY <2>1, <2>2, <2>4, <2>5 DEF TrackersNamed, OfStop, WriteTrackerPid
<1> QED BY <1>1, <1>2, <1>3, <1>4, <1>5, <1>6, <1>7

\* `tracker stop` stops the tracker that tracker.pid names.
LEMMA StopTrackerKeeps ==
    ASSUME LifecycleSound, NEW c \in Clis, StopTracker(c)
    PROVE  LifecycleSound'
<1> USE LifecycleAssumption, NoneIsNoPid
    DEF LifecycleSound, TypeOK, ServerStates, Labels, Command
<1>1. TypeOK'
  <2>1. os' \in [Pids -> ServerStates \cup {"free", "tracker", "dead"}]
    BY DEF StopTracker, TrackerRunning, Trackers
  <2>2. cli' \in [Clis -> [pc : Labels, cmd : Command \cup {None}, child : Pids \cup {None}]]
    BY DEF StopTracker, Goto
  <2> QED BY <2>1, <2>2 DEF StopTracker
<1>2. ChildrenStarted'
  BY DEF ChildrenStarted, StopTracker, Goto
<1>3. PidFileSound'
  BY DEF PidFileSound, Servers, Locked, StopTracker, Goto
<1>4. ServersNamed'
  BY DEF ServersNamed, Servers, StopTracker, Goto
<1>5. ReadySound'
  <2>1. trackerPid \in Trackers => os[trackerPid] # "listening"
    BY DEF Trackers
  <2>2. ready => os'[ctxfsPid] = os[ctxfsPid]
    BY <2>1 DEF StopTracker, TrackerRunning, ReadySound
  <2>3. \A d \in Clis : cli'[d].pc \in Locked => cli[d].pc \in Locked
    BY DEF StopTracker, Goto, Locked
  <2> QED BY <2>2, <2>3 DEF ReadySound, StopTracker
<1>6. CommandsSound'
  BY DEF CommandsSound, OfStart, OfStop, Locked, StopTracker, Goto
<1>7. TrackersNamed'
  BY DEF TrackersNamed, Trackers, StopTracker, TrackerRunning, Goto
<1> QED BY <1>1, <1>2, <1>3, <1>4, <1>5, <1>6, <1>7

\* tracker.pid is removed.
LEMMA StopCleanupKeeps ==
    ASSUME LifecycleSound, NEW c \in Clis, StopCleanup(c)
    PROVE  LifecycleSound'
<1> USE LifecycleAssumption, NoneIsNoPid
    DEF LifecycleSound, TypeOK, ServerStates, Labels, Command
<1>1. TypeOK'
  BY DEF TypeOK, StopCleanup, Idle
<1>2. ChildrenStarted'
  BY DEF ChildrenStarted, StopCleanup, Idle
<1>3. PidFileSound'
  BY DEF PidFileSound, Servers, Locked, StopCleanup, Idle
<1>4. ServersNamed'
  BY DEF ServersNamed, Servers, StopCleanup
<1>5. ReadySound'
  BY DEF ReadySound, Locked, StopCleanup, Idle
<1>6. CommandsSound'
  BY DEF CommandsSound, OfStart, OfStop, Locked, StopCleanup, Idle
<1>7. TrackersNamed'
  BY DEF TrackersNamed, Trackers, StopCleanup
<1> QED BY <1>1, <1>2, <1>3, <1>4, <1>5, <1>6, <1>7

\* A server finds the socket path free, or exits.
LEMMA CheckKeeps ==
    ASSUME LifecycleSound, NEW n \in Pids, Check(n)
    PROVE  LifecycleSound'
<1> USE LifecycleAssumption, NoneIsNoPid
    DEF LifecycleSound, TypeOK, ServerStates, Labels, Command
<1>1. TypeOK'
  BY DEF TypeOK, Check
<1>2. ChildrenStarted'
  <2>1. \A m \in Pids : os[m] # "free" => os'[m] # "free"
    BY DEF Check
  <2>2. os[n] # "free"
    BY DEF Check, Servers, Trackers
  <2> QED BY <2>1, <2>2 DEF ChildrenStarted, Check
<1>3. PidFileSound'
  BY DEF PidFileSound, Servers, Locked, Check
<1>4. ServersNamed'
  BY DEF ServersNamed, Servers, Check
<1>5. ReadySound'
  BY DEF ReadySound, Locked, Check
<1>6. CommandsSound'
  BY DEF CommandsSound, OfStart, OfStop, Locked, Check
<1>7. TrackersNamed'
  <2>1. Trackers' \subseteq Trackers
    BY DEF Check, Trackers, Servers
  <2> QED BY <2>1 DEF TrackersNamed, Check
<1> QED BY <1>1, <1>2, <1>3, <1>4, <1>5, <1>6, <1>7

\* A server removes the socket that appeared since it looked: that of a ready server
\* only if it is an orphan, for every other server is named by ctxfs.pid.
LEMMA ReplaceKeeps ==
    ASSUME LifecycleSound, NEW n \in Pids, Replace(n)
    PROVE  LifecycleSound'
<1> USE LifecycleAssumption, NoneIsNoPid
    DEF LifecycleSound, TypeOK, ServerStates, Labels, Command
<1>1. TypeOK'
  BY DEF TypeOK, Replace, StaysReady
<1>2. ChildrenStarted'
  <2>1. \A m \in Pids : os[m] # "free" => os'[m] # "free"
    BY DEF Replace
  <2>2. os[n] # "free"
    BY DEF Replace, Servers, Trackers
  <2> QED BY <2>1, <2>2 DEF ChildrenStarted, Replace
<1>3. PidFileSound'
  BY DEF PidFileSound, Servers, Locked, Replace
<1>4. ServersNamed'
  BY DEF ServersNamed, Servers, Replace
<1>5. ReadySound'
  <2> SUFFICES ASSUME ready' PROVE ReadySound'
    BY DEF ReadySound
  <2>1. ready /\ ctxfsPid \in Pids /\ socket = ctxfsPid /\ os[ctxfsPid] = "listening"
    BY DEF ReadySound, Replace, StaysReady
  <2>2. \A c \in Clis : cli[c].pc \notin Locked
    BY <2>1 DEF ReadySound
  <2>3. n # ctxfsPid
    BY <2>1 DEF Replace
  <2>4. n \in Servers => n \in orphans
    BY <2>2, <2>3 DEF ServersNamed, Locked
  <2>5. socket' = socket
    BY <2>1, <2>4 DEF Replace, StaysReady, Servers
  <2>6. os'[ctxfsPid] = os[ctxfsPid]
    BY <2>1, <2>3 DEF Replace
  <2> QED BY <2>1, <2>2, <2>5, <2>6 DEF ReadySound, Replace
<1>6. CommandsSound'
  BY DEF CommandsSound, OfStart, OfStop, Locked, Replace
<1>7. TrackersNamed'
  <2>1. Trackers' \subseteq Trackers
    BY DEF Replace, Trackers, Servers
  <2> QED BY <2>1 DEF TrackersNamed, Replace
<1> QED BY <1>1, <1>2, <1>3, <1>4, <1>5, <1>6, <1>7

\* A server binds its socket, or finds the path taken and exits.
LEMMA BindKeeps ==
    ASSUME LifecycleSound, NEW n \in Pids, Bind(n)
    PROVE  LifecycleSound'
<1> USE LifecycleAssumption, NoneIsNoPid
    DEF LifecycleSound, TypeOK, ServerStates, Labels, Command
<1>1. TypeOK'
  BY DEF TypeOK, Bind, StaysReady
<1>2. ChildrenStarted'
  <2>1. \A m \in Pids : os[m] # "free" => os'[m] # "free"
    BY DEF Bind
  <2>2. os[n] # "free"
    BY DEF Bind, Servers, Trackers
  <2>3. socket' \in {socket, n, None} /\ UNCHANGED <<ctxfsPid, trackerPid, cli>>
    BY DEF Bind
  <2> QED BY <2>1, <2>2, <2>3 DEF ChildrenStarted
<1>3. PidFileSound'
  BY DEF PidFileSound, Servers, Locked, Bind
<1>4. ServersNamed'
  BY DEF ServersNamed, Servers, Bind
<1>5. ReadySound'
  <2> SUFFICES ASSUME ready' PROVE ReadySound'
    BY DEF ReadySound
  <2>1. ready /\ ctxfsPid \in Pids /\ socket = ctxfsPid /\ os[ctxfsPid] = "listening"
    BY DEF ReadySound, Bind, StaysReady
  <2>2. \A c \in Clis : cli[c].pc \notin Locked
    BY <2>1 DEF ReadySound
  <2>3. n # ctxfsPid
    BY <2>1 DEF Bind
  <2>4. n \in Servers => n \in orphans
    BY <2>2, <2>3 DEF ServersNamed, Locked
  <2>5. socket' = socket
    BY <2>1, <2>4 DEF Bind, StaysReady, Servers
  <2>6. os'[ctxfsPid] = os[ctxfsPid]
    BY <2>1, <2>3 DEF Bind
  <2> QED BY <2>1, <2>2, <2>5, <2>6 DEF ReadySound, Bind
<1>6. CommandsSound'
  BY DEF CommandsSound, OfStart, OfStop, Locked, Bind
<1>7. TrackersNamed'
  <2>1. Trackers' \subseteq Trackers
    BY DEF Bind, Trackers, Servers
  <2> QED BY <2>1 DEF TrackersNamed, Bind
<1> QED BY <1>1, <1>2, <1>3, <1>4, <1>5, <1>6, <1>7

\* A background process dies, with or without its socket file, or hangs.
LEMMA FailKeeps ==
    ASSUME LifecycleSound, NEW n \in Pids, Fail(n)
    PROVE  LifecycleSound'
<1> USE LifecycleAssumption, NoneIsNoPid
    DEF LifecycleSound, TypeOK, ServerStates, Labels, Command
<1>1. TypeOK'
  BY DEF TypeOK, Fail
<1>2. ChildrenStarted'
  <2>1. \A m \in Pids : os[m] # "free" => os'[m] # "free"
    BY DEF Fail
  <2>2. os[n] # "free"
    BY DEF Fail, Servers, Trackers
  <2>3. socket' \in {socket, n, None} /\ UNCHANGED <<ctxfsPid, trackerPid, cli>>
    BY DEF Fail
  <2> QED BY <2>1, <2>2, <2>3 DEF ChildrenStarted
<1>3. PidFileSound'
  BY DEF PidFileSound, Servers, Locked, Fail
<1>4. ServersNamed'
  BY DEF ServersNamed, Servers, Fail
<1>5. ReadySound'
  <2> SUFFICES ASSUME ready' PROVE ReadySound'
    BY DEF ReadySound
  <2>1. ready /\ ctxfsPid \in Pids /\ socket = ctxfsPid /\ os[ctxfsPid] = "listening"
    BY DEF ReadySound, Fail
  <2>2. \A c \in Clis : cli[c].pc \notin Locked
    BY <2>1 DEF ReadySound
  <2>3. n # ctxfsPid
    BY <2>1 DEF Fail
  <2>4. n \in Servers => n \in orphans
    BY <2>2, <2>3 DEF ServersNamed, Locked
  <2>5. socket' = socket
    BY <2>1, <2>4 DEF Fail, Servers
  <2>6. os'[ctxfsPid] = os[ctxfsPid]
    BY <2>1, <2>3 DEF Fail
  <2> QED BY <2>1, <2>2, <2>5, <2>6 DEF ReadySound, Fail
<1>6. CommandsSound'
  BY DEF CommandsSound, OfStart, OfStop, Locked, Fail
<1>7. TrackersNamed'
  <2>1. Trackers' \subseteq Trackers
    BY DEF Fail, Trackers, Servers
  <2> QED BY <2>1 DEF TrackersNamed, Fail
<1> QED BY <1>1, <1>2, <1>3, <1>4, <1>5, <1>6, <1>7

-----------------------------------------------------------------------------
(* The theorems *)

\* LifecycleSound holds in every state of Spec.
THEOREM LifecycleInvariant == Spec => []LifecycleSound
<1>1. Init => LifecycleSound
  <2> SUFFICES ASSUME Init PROVE LifecycleSound
    OBVIOUS
  <2> USE LifecycleAssumption, NoneIsNoPid DEF Init, Idle
  <2>1. cli \in [Clis -> [pc : Labels, cmd : Command \cup {None}, child : Pids \cup {None}]]
    BY DEF Labels
  <2>2. TypeOK
    <3>1. os \in [Pids -> ServerStates \cup {"free", "tracker", "dead"}]
      OBVIOUS
    <3>2. {ready, raced} \subseteq BOOLEAN
      OBVIOUS
    <3> QED BY <2>1, <3>1, <3>2 DEF TypeOK
  <2>3. ChildrenStarted /\ PidFileSound /\ ServersNamed
    BY DEF ChildrenStarted, PidFileSound, ServersNamed, Servers, ServerStates, Locked
  <2>4. ReadySound /\ CommandsSound /\ TrackersNamed
    BY DEF ReadySound, CommandsSound, TrackersNamed, Trackers, OfStart, OfStop, Locked,
           Command
  <2> QED BY <2>2, <2>3, <2>4 DEF LifecycleSound
<1>2. LifecycleSound /\ [Next]_vars => LifecycleSound'
  <2> SUFFICES ASSUME LifecycleSound, [Next]_vars PROVE LifecycleSound'
    OBVIOUS
  <2>1. CASE UNCHANGED vars
    BY <2>1 DEF vars, LifecycleSound, TypeOK, ChildrenStarted, PidFileSound, ServersNamed,
                ReadySound, CommandsSound, TrackersNamed, Servers, Trackers
  <2>2. CASE \E c \in Clis : \E cmd \in Command : Begin(c, cmd)
    BY <2>2, BeginKeeps
  <2>3. CASE \E c \in Clis : Die(c)
    BY <2>3, DieKeeps
  <2>4. CASE \E c \in Clis : Step(c)
    BY <2>4, ProbeKeeps, KillKeeps, CleanupKeeps, UnlinkKeeps, SpawnKeeps, WritePidKeeps,
       PollKeeps, GiveUpKeeps, AbortKeeps, CheckTrackerKeeps, SpawnTrackerKeeps,
       WriteTrackerPidKeeps, StopTrackerKeeps, StopCleanupKeeps DEF Step
  <2>5. CASE \E n \in Pids : Check(n) \/ Replace(n) \/ Bind(n) \/ Fail(n)
    BY <2>5, CheckKeeps, ReplaceKeeps, BindKeeps, FailKeeps
  <2> QED BY <2>1, <2>2, <2>3, <2>4, <2>5 DEF Next
<1> QED BY <1>1, <1>2, PTL DEF Spec

\* The process table, the files and the commands always have their types.
THEOREM LifecycleTyped == Spec => []TypeOK
<1>1. LifecycleSound => TypeOK
  BY DEF LifecycleSound
<1> QED BY <1>1, LifecycleInvariant, PTL

\* Whatever commands call ensure_started at once, and whatever dies or hangs, one
\* server lives and ctxfs.pid names it, orphans excepted.
THEOREM OneServerAlways == Spec => []OneServer
<1>1. LifecycleSound => OneServer
  <2> SUFFICES ASSUME LifecycleSound PROVE OneServer
    OBVIOUS
  <2>1. \A n \in Servers \ orphans :
            ctxfsPid = n \/ \E c \in Clis : cli[c].pc = "writePid" /\ cli[c].child = n
    BY DEF LifecycleSound, ServersNamed
  <2>2. \A c \in Clis : cli[c].pc = "writePid" => lock = c /\ ctxfsPid \notin Servers
    BY DEF LifecycleSound, PidFileSound, Locked
  <2>3. \E n : Servers \ orphans \subseteq {n}
    <3>1. CASE \E c \in Clis : cli[c].pc = "writePid"
      BY <3>1, <2>1, <2>2
    <3>2. CASE ~ \E c \in Clis : cli[c].pc = "writePid"
      BY <3>2, <2>1
    <3> QED BY <3>1, <3>2
  <2>4. Cardinality(Servers \ orphans) <= 1
    <3>1. PICK n : Servers \ orphans \subseteq {n}
      BY <2>3
    <3>2. IsFiniteSet({n}) /\ Cardinality({n}) = 1
      BY FS_Singleton
    <3>3. Cardinality(Servers \ orphans) <= Cardinality({n})
      BY <3>1, <3>2, FS_Subset
    <3> QED BY <3>2, <3>3
  <2> QED BY <2>1, <2>4 DEF OneServer
<1> QED BY <1>1, LifecycleInvariant, PTL

\* No command stops, or takes the socket from, a server that has been found answering,
\* nor does any server but an orphan: it stays healthy until it fails by itself or an
\* orphan that passed its check of the socket path earlier binds that path.
THEOREM ReadyStaysHealthyAlways == Spec => []ReadyStaysHealthy
<1>1. LifecycleSound => ReadyStaysHealthy
  <2> SUFFICES ASSUME LifecycleSound, ready PROVE Healthy
    BY DEF ReadyStaysHealthy
  <2>1. ctxfsPid \in Pids /\ socket = ctxfsPid /\ os[ctxfsPid] = "listening"
    BY DEF LifecycleSound, ReadySound
  <2> QED BY <2>1, NoneIsNoPid DEF Healthy, CtxfsRunning, Answers, Servers, ServerStates
<1> QED BY <1>1, LifecycleInvariant, PTL

\* Tracker commands that do not overlap leave only trackers that `tracker stop` finds.
THEOREM TrackerIsNamedAlways == Spec => []TrackerIsNamed
<1>1. LifecycleSound => TrackerIsNamed
  BY DEF LifecycleSound, TrackersNamed, TrackerIsNamed
<1> QED BY <1>1, LifecycleInvariant, PTL
=============================================================================
