--------------------------------- MODULE Host ---------------------------------
(***************************************************************************)
(* The processes of one machine: daemons (internal/daemon/start.go), the   *)
(* commands that start, stop, restart and update them (stop.go, status.go, *)
(* internal/cli/root.go, internal/update), the service manager that        *)
(* respawns a managed daemon (service*.go), and processes of "ezoss        *)
(* triage" that share the investigation checkout with the daemon.          *)
(*                                                                         *)
(* They meet in files: the pid file, the IPC socket, the lock of the       *)
(* checkout, the executable and the unit file.  Nothing locks the pid      *)
(* file: it is read, judged by whether a process has that pid, and written *)
(* or removed later, by daemons and by commands alike.                     *)
(***************************************************************************)
EXTENDS CheckoutLock

CONSTANTS
    Empty,          \* a file without contents
    Ops,            \* the commands the user gives
    Triages,        \* is there anything to triage, for the daemons and by "ezoss triage"
    MaxVersion,     \* bound: the newest release
    MaxFaults,      \* bound: how often a process is killed or crashes, or a socket cannot be bound
    MaxReuses       \* bound: how often a process gets a pid that a file still names

AllOps == {"start", "stop", "restart", "update", "install", "uninstall"}

ASSUME OpsAssumption == Ops \subseteq AllOps /\ Triages \in BOOLEAN
ASSUME EmptyAssumption == Empty \notin Pids \cup {Dead, None}
ASSUME BoundsAssumption == MaxVersion \in Nat /\ MaxFaults \in Nat /\ MaxReuses \in Nat

VARIABLES
    st,         \* where each process is
    sig,        \* the processes with a SIGTERM in their signal channel
    version,    \* the release each process runs
    pidFile,    \* whose pid is in the pid file, which may be empty
    socket,     \* who bound the socket there is
    disk,       \* the release the executable holds
    unit,       \* a unit file is installed
    wanted,     \* the service manager is to keep a daemon up
    main,       \* the daemon it started last
    cmd,        \* the user's command: what it is to do, where it is, whom it stops
    faults,
    reuses,
    \* History, which no step reads:
    raced,      \* two processes decided about the pid file at the same time
    unseen      \* the daemons whose pid was not in the file yet when the command read it

files == <<pidFile, socket, disk, unit>>
manager == <<wanted, main>>
procs == <<alive, st, sig, version>>
counters == <<faults, reuses>>
history == <<raced, unseen>>
vars == <<procs, lockVars, files, manager, cmd, counters, history>>

\* Before the first poll cycle, in the poll loop, and on the way out.
Booting == {"check", "unstale", "create", "fill", "listen"}
Polling == {"cycle", "select", "backoff"}
Closing == {"close", "unpid", "unlink"}
Stages == {"none", "triage", "other"} \cup Booting \cup Polling \cup Closing

\* Between a look at the pid file and the write or the removal it led to.
Deciding == {"unstale", "create", "fill"}
CmdDeciding == {"unstale", "term", "wait", "kill", "killed", "rmpid"}

CmdPlaces == CmdDeciding \cup
    {"idle", "status", "launch", "svcStart", "ready", "halt", "svcStop", "svcWait",
     "latest", "path", "download", "replace", "reset", "ok"}

Cmds == [op : AllOps, pc : CmdPlaces, pid : Pids \cup {Dead, None}]

NoCmd == [op |-> "start", pc |-> "idle", pid |-> None]

TypeOK ==
    /\ LockTypeOK
    /\ st \in [Pids -> Stages]
    /\ sig \in SUBSET alive
    /\ version \in [Pids -> 0 .. MaxVersion]
    /\ pidFile \in Pids \cup {Dead, Empty, None}
    /\ socket \in Pids \cup {Dead, None}
    /\ disk \in 0 .. MaxVersion
    /\ unit \in BOOLEAN
    /\ wanted \in BOOLEAN
    /\ main \in Pids \cup {Dead, None}
    /\ cmd \in Cmds
    /\ faults \in 0 .. MaxFaults
    /\ reuses \in 0 .. MaxReuses
    /\ raced \in BOOLEAN
    /\ unseen \in SUBSET alive
    \* Only a triage, by itself or in a cycle, is about the checkout.
    /\ \A p \in Pids : at[p] # "out" => st[p] \in {"triage", "cycle"}

Init ==
    /\ alive = {}
    /\ LockInit
    /\ st = [p \in Pids |-> "none"]
    /\ sig = {}
    /\ version = [p \in Pids |-> 0]
    /\ pidFile = None
    /\ socket = None
    /\ disk = 0
    /\ unit = FALSE
    /\ wanted = FALSE
    /\ main = None
    /\ cmd = NoCmd
    /\ faults = 0
    /\ reuses = 0
    /\ raced = FALSE
    /\ unseen = {}

(***************************************************************************)
(* Processes.                                                              *)
(***************************************************************************)
Free == Pids \ alive

\* The pid of a dead process, where a file has it, may be that of a new one.
Reborn(p, pid) == IF pid = Dead THEN {Dead, p} ELSE {pid}

\* The pid of a new process: one that no file has, or one that the pid file, the
\* lock or both still have.  None comes back while a stop waits for it to go.
PidOf(p) ==
    \/ UNCHANGED <<pidFile, lockFile, reuses>>
    \/ /\ reuses < MaxReuses /\ reuses' = reuses + 1
       /\ cmd.pid # Dead
       /\ pidFile' \in Reborn(p, pidFile)
       /\ \/ UNCHANGED lockFile
          \/ /\ lockFile # None
             /\ \E q \in Reborn(p, lockFile.by) : lockFile' = [lockFile EXCEPT !.by = q]
       /\ <<pidFile, lockFile>>' # <<pidFile, lockFile>>

\* A process is started from the executable there is.
Spawn(p, stage) ==
    /\ p \in Free /\ \A q \in Free : p <= q
    /\ PidOf(p)
    /\ alive' = alive \cup {p}
    /\ st' = [st EXCEPT ![p] = stage]
    /\ version' = [version EXCEPT ![p] = disk]
    /\ UNCHANGED <<sig, socket, disk, unit, faults, raced, unseen>>

Bury(p, pid) == IF pid = p THEN Dead ELSE pid

\* A process is gone, and leaves the pid file as "left".  What it left in other
\* files stays as well: they now name a dead process.
Dies(p, left) ==
    /\ alive' = alive \ {p}
    /\ st' = [st EXCEPT ![p] = "none"]
    /\ at' = [at EXCEPT ![p] = "out"]
    /\ sig' = sig \ {p}
    /\ version' = [version EXCEPT ![p] = 0]
    /\ unseen' = unseen \ {p}
    /\ pidFile' = Bury(p, left)
    /\ socket' = Bury(p, socket)
    /\ main' = Bury(p, main)
    /\ lockFile' = IF lockFile = None THEN None ELSE [lockFile EXCEPT !.by = Bury(p, lockFile.by)]
    /\ cmd' = [cmd EXCEPT !.pid = Bury(p, cmd.pid)]
    /\ UNCHANGED <<disk, unit, wanted, reuses, raced>>

Daemon(p) == p \in alive /\ st[p] \notin {"triage", "other"}

\* Somebody begins to decide: another one may be at it.
Decides == raced' = (raced \/ cmd.pc \in CmdDeciding \/ \E p \in alive : st[p] \in Deciding)

StageTo(p, stage) == st' = [st EXCEPT ![p] = stage] /\ UNCHANGED <<alive, sig, version>>

\* ReadStatus: no file, a file without a pid, a pid that lives or one that does not.
Status ==
    IF pidFile = None THEN "stopped"
    ELSE IF pidFile = Empty THEN "error"
    ELSE IF pidFile \in alive THEN "running" ELSE "stale"

(***************************************************************************)
(* A daemon: RunWithOptions.                                               *)
(***************************************************************************)
MutCheckPid(p) ==
    /\ st[p] = "check"
    /\ \/ Status # "stopped" /\ Dies(p, pidFile) /\ UNCHANGED faults
       \/ /\ Status = "stopped" /\ StageTo(p, "create") /\ Decides
          /\ UNCHANGED <<lockVars, files, manager, cmd, counters, unseen>>

CheckPid(p) ==
    /\ st[p] = "check"
    /\ \/ Status \in {"running", "error"} /\ Dies(p, pidFile) /\ UNCHANGED faults
       \/ /\ \/ Status = "stale" /\ StageTo(p, "unstale")
             \/ Status = "stopped" /\ StageTo(p, "create")
          /\ Decides
          /\ UNCHANGED <<lockVars, files, manager, cmd, counters, unseen>>

RemoveStalePid(p) ==
    /\ st[p] = "unstale"
    /\ pidFile' = None
    /\ StageTo(p, "create")
    /\ UNCHANGED <<lockVars, socket, disk, unit, manager, cmd, counters, history>>

\* os.WriteFile creates or truncates the file, then writes to it.
CreatePid(p) ==
    /\ st[p] = "create"
    /\ pidFile' = Empty
    /\ StageTo(p, "fill")
    /\ UNCHANGED <<lockVars, socket, disk, unit, manager, cmd, counters, history>>

WritePid(p) ==
    /\ st[p] = "fill"
    /\ pidFile' = p
    /\ StageTo(p, "listen")
    /\ UNCHANGED <<lockVars, socket, disk, unit, manager, cmd, counters, history>>

\* listen removes the socket that is in the way.  When the server does not come
\* up the daemon exits through its deferred clean-up of the pid file.
Listen(p) ==
    /\ st[p] = "listen"
    /\ \/ socket' = p /\ StageTo(p, "cycle")
          /\ UNCHANGED faults
       \/ UNCHANGED socket /\ StageTo(p, "unpid")
          /\ faults < MaxFaults /\ faults' = faults + 1
    /\ UNCHANGED <<lockVars, pidFile, disk, unit, manager, cmd, reuses, history>>

\* The agents stage comes to an item of the repository.
TriageItem(p) ==
    /\ st[p] = "cycle" /\ Triages
    /\ WantCheckout(p)
    /\ UNCHANGED <<procs, files, manager, cmd, counters, history>>


EndCycle(p) ==
    /\ st[p] = "cycle" /\ at[p] = "out"
    /\ \E next \in {"select", "backoff", "close"} : StageTo(p, next)
    /\ UNCHANGED <<lockVars, files, manager, cmd, counters, history>>

\* select: a signal ends the loop; a wake or a tick that is ready as well may win.
StopOnSignal(p) ==
    /\ st[p] = "select" /\ p \in sig
    /\ sig' = sig \ {p}
    /\ st' = [st EXCEPT ![p] = "close"]
    /\ UNCHANGED <<alive, version, lockVars, files, manager, cmd, counters, history>>

NextCycle(p) ==
    /\ st[p] = "select"
    /\ StageTo(p, "cycle")
    /\ UNCHANGED <<lockVars, files, manager, cmd, counters, history>>

\* handlePollError: the back-off ends with its timer, or with a signal, which it
\* takes from the channel; either way the loop goes on.
EndBackOff(p) ==
    /\ st[p] = "backoff"
    /\ st' = [st EXCEPT ![p] = "select"]
    /\ sig' \in {sig, sig \ {p}}
    /\ UNCHANGED <<alive, version, lockVars, files, manager, cmd, counters, history>>

\* stopIPC: once every connection's handler has returned, the socket is removed.
CloseIPC(p) ==
    /\ st[p] = "close"
    /\ socket' = None
    /\ StageTo(p, "unpid")
    /\ UNCHANGED <<lockVars, pidFile, disk, unit, manager, cmd, counters, history>>

\* The deferred clean-up removes the pid file if it holds the daemon's own pid.
ReadOwnPid(p) ==
    /\ st[p] = "unpid"
    /\ \/ /\ pidFile = p /\ StageTo(p, "unlink")
          /\ UNCHANGED <<lockVars, files, manager, cmd, counters, history>>
       \/ pidFile # p /\ Dies(p, pidFile) /\ UNCHANGED faults

RemoveOwnPid(p) ==
    /\ st[p] = "unlink"
    /\ Dies(p, None)
    /\ UNCHANGED faults

(***************************************************************************)
(* A process of "ezoss triage", any other process, and the lock.           *)
(***************************************************************************)
BeginTriage(p) ==
    /\ Triages /\ \A q \in alive : st[q] # "triage"
    /\ Spawn(p, "triage")
    /\ GoesTo(p, "open")
    /\ UNCHANGED <<manager, cmd>>

\* It ends by itself, or by the signal of a stop that took it for the daemon.
EndTriage(p) ==
    /\ st[p] = "triage" /\ (at[p] = "out" \/ p \in sig)
    /\ Dies(p, pidFile)
    /\ UNCHANGED faults

\* A program that has nothing to do with ezoss gets a pid that a file still names.
BeginOther(p) ==
    /\ Spawn(p, "other") /\ reuses' # reuses
    /\ UNCHANGED <<at, manager, cmd>>

EndOther(p) ==
    /\ st[p] = "other"
    /\ Dies(p, pidFile)
    /\ UNCHANGED faults

UseLock(p) ==
    /\ p \in alive
    /\ LockStep(p)
    /\ UNCHANGED <<procs, files, manager, cmd, counters, history>>

\* Anything may kill a process, wherever it is.
Crash(p) ==
    /\ p \in alive
    /\ faults < MaxFaults
    /\ faults' = faults + 1
    /\ Dies(p, pidFile)

(***************************************************************************)
(* The service manager (Restart=always), and the user's commands.          *)
(***************************************************************************)
Respawn(p) ==
    /\ wanted /\ main \notin alive
    /\ Spawn(p, "check")
    /\ main' = p
    /\ UNCHANGED <<at, wanted, cmd>>

\* A command that fails says so and is over.
CmdTo(pc) == cmd' = IF pc = "failed" THEN NoCmd ELSE [cmd EXCEPT !.pc = pc]

\* The user gives a command; the daemon that the last one launched may still be on
\* its way up, for "daemon start" does not wait for it.
Begin(op) ==
    /\ cmd.pc = "idle"
    /\ op # "install"
    /\ cmd' = [op |-> op, pid |-> None, pc |->
           CASE op = "start" -> IF unit THEN "svcStart" ELSE "status"
             [] op \in {"stop", "restart"} -> IF unit THEN "svcStop" ELSE "halt"
             [] op = "update" -> "latest"
             [] op = "uninstall" -> IF unit THEN "svcStop" ELSE "ok"]
    /\ unseen' = {}
    /\ UNCHANGED <<procs, lockVars, files, manager, counters, raced>>

\* The unit is written and enabled; nothing is started.
Install ==
    /\ cmd.pc = "idle"
    /\ "install" \in Ops
    /\ cmd' = [op |-> "install", pid |-> None, pc |-> "ok"]
    /\ unit' = TRUE
    /\ UNCHANGED <<procs, lockVars, pidFile, socket, disk, manager, counters, history>>

Finish ==
    /\ cmd.pc = "ok"
    /\ cmd' = NoCmd
    /\ UNCHANGED <<procs, lockVars, files, manager, counters, history>>

\* Start: refuses while the pid in the file lives, removes a stale file, launches.
ReadForStart ==
    /\ cmd.pc = "status"
    /\ \/ Status \in {"running", "error"} /\ CmdTo("failed") /\ UNCHANGED raced
       \/ Status = "stopped" /\ CmdTo("launch") /\ UNCHANGED raced
       \/ Status = "stale" /\ CmdTo("unstale") /\ Decides
    /\ UNCHANGED <<procs, lockVars, files, manager, counters, unseen>>

RemoveStaleForStart ==
    /\ cmd.pc = "unstale"
    /\ pidFile' = None
    /\ CmdTo("launch")
    /\ UNCHANGED <<procs, lockVars, socket, disk, unit, manager, counters, history>>

Launch(p) ==
    /\ cmd.pc = "launch"
    /\ Spawn(p, "check")
    /\ CmdTo("ok")
    /\ UNCHANGED <<at, manager>>

\* StopWithOptions: SIGTERM to the pid in the file, SIGKILL when it still lives
\* after the grace period, and the pid file goes once the process is dead.
AfterHalt == IF cmd.op = "stop" THEN "ok" ELSE "status"

Unseen == {p \in alive : st[p] \in {"check"} \cup Deciding}

ReadForHalt ==
    /\ cmd.pc = "halt"
    /\ \/ Status = "running" /\ cmd' = [cmd EXCEPT !.pc = "term", !.pid = pidFile] /\ Decides
       \/ Status = "stale" /\ CmdTo("rmpid") /\ Decides
       \/ Status = "stopped" /\ CmdTo(AfterHalt) /\ UNCHANGED raced
       \/ Status = "error" /\ CmdTo("failed") /\ UNCHANGED raced
    /\ unseen' = Unseen
    /\ UNCHANGED <<procs, lockVars, files, manager, counters>>

Signalled(p) == sig' = sig \cup ({p} \cap alive) /\ UNCHANGED <<alive, st, version>>

\* The process is gone, or it is another user's.
Refused(p) == p \in alive => st[p] = "other"

MutSendTerm ==
    /\ cmd.pc = "term"
    /\ Signalled(cmd.pid)
    /\ CmdTo(IF cmd.pid \in alive THEN "rmpid" ELSE "failed")
    /\ UNCHANGED <<lockVars, files, manager, counters, history>>

SendTerm ==
    /\ cmd.pc = "term"
    /\ \/ cmd.pid \in alive /\ Signalled(cmd.pid) /\ CmdTo("wait")
       \/ Refused(cmd.pid) /\ CmdTo("failed") /\ UNCHANGED procs
    /\ UNCHANGED <<lockVars, files, manager, counters, history>>

\* waitForExit looks, and kills when the time is over: the process may end in
\* between, and then the kill fails and with it the command.
MutGraceOver ==
    /\ cmd.pc = "wait" /\ cmd.pid \in alive
    /\ CmdTo("wait")
    /\ UNCHANGED <<procs, lockVars, files, manager, counters, history>>

GraceOver ==
    /\ cmd.pc = "wait" /\ cmd.pid \in alive
    /\ CmdTo("kill")
    /\ UNCHANGED <<procs, lockVars, files, manager, counters, history>>

MutKill ==
    /\ cmd.pc = "kill"
    /\ CmdTo("rmpid")
    /\ UNCHANGED <<procs, lockVars, files, manager, counters, history>>

Kill ==
    /\ cmd.pc = "kill"
    /\ \/ cmd.pid \in alive /\ CmdTo("killed")
       \/ Refused(cmd.pid) /\ CmdTo("failed")
    /\ UNCHANGED <<procs, lockVars, files, manager, counters, history>>

KilledDies ==
    /\ cmd.pc = "killed" /\ cmd.pid \in alive
    /\ Dies(cmd.pid, pidFile)
    /\ UNCHANGED faults

Exited ==
    /\ cmd.pc \in {"wait", "killed"} /\ cmd.pid \notin alive
    /\ CmdTo("rmpid")
    /\ UNCHANGED <<procs, lockVars, files, manager, counters, history>>

RemovePid ==
    /\ cmd.pc = "rmpid"
    /\ pidFile' = None
    /\ cmd' = [cmd EXCEPT !.pc = AfterHalt, !.pid = None]
    /\ UNCHANGED <<procs, lockVars, socket, disk, unit, manager, counters, history>>

\* systemctl stop and start; the manager waits for the process and kills it in the end.
ServiceStop ==
    /\ cmd.pc = "svcStop"
    /\ wanted' = FALSE
    /\ Signalled(main)
    /\ CmdTo("svcWait")
    /\ UNCHANGED <<lockVars, files, main, counters, history>>

ServiceKill ==
    /\ cmd.pc = "svcWait" /\ main \in alive
    /\ Dies(main, pidFile)
    /\ UNCHANGED faults

ServiceStopped ==
    /\ cmd.pc = "svcWait" /\ main \notin alive
    /\ unit' = (cmd.op # "uninstall")
    /\ main' = None
    /\ CmdTo(IF cmd.op \in {"restart", "update"} THEN "svcStart" ELSE "ok")
    /\ UNCHANGED <<procs, lockVars, pidFile, socket, disk, wanted, counters, history>>

ServiceStart(p) ==
    /\ cmd.pc = "svcStart"
    /\ wanted' = TRUE
    /\ \/ main \in alive /\ UNCHANGED <<procs, lockFile, files, main, counters, history>>
       \/ main \notin alive /\ Spawn(p, "check") /\ main' = p
    /\ CmdTo(IF cmd.op = "update" THEN "ok" ELSE "ready")
    /\ UNCHANGED at

\* waitForDaemonReady: any live pid in the file will do; it gives up after 5 s.
Ready ==
    /\ cmd.pc = "ready"
    /\ \/ Status = "running" /\ CmdTo("ok")
       \/ Status # "running" /\ CmdTo("failed")
    /\ UNCHANGED <<procs, lockVars, files, manager, counters, history>>

\* update: GitHub is asked for the releases; there is nothing to do when the
\* executable is the newest one.
MutCheckLatest ==
    /\ cmd.pc = "latest"
    /\ \/ CmdTo("path")
       \/ CmdTo("failed")
    /\ UNCHANGED <<procs, lockVars, files, manager, counters, history>>

CheckLatest ==
    /\ cmd.pc = "latest"
    /\ \/ disk = MaxVersion /\ cmd' = NoCmd
       \/ disk < MaxVersion /\ CmdTo("path")
       \/ CmdTo("failed")
    /\ UNCHANGED <<procs, lockVars, files, manager, counters, history>>

\* The running daemon must run the executable that is to be replaced; one that was
\* replaced already under a running daemon has another path ("(deleted)"), and so
\* has another program's.
CheckPath ==
    /\ cmd.pc = "path"
    /\ CmdTo(IF Status = "running" /\ (version[pidFile] # disk \/ st[pidFile] = "other")
             THEN "failed" ELSE "download")
    /\ UNCHANGED <<procs, lockVars, files, manager, counters, history>>

\* Archive and checksums are fetched and compared.
Download ==
    /\ cmd.pc = "download"
    /\ \/ CmdTo("replace")
       \/ CmdTo("failed")
    /\ UNCHANGED <<procs, lockVars, files, manager, counters, history>>

ReplaceExecutable ==
    /\ cmd.pc = "replace"
    /\ disk' = disk + 1
    /\ CmdTo("reset")
    /\ UNCHANGED <<procs, lockVars, pidFile, socket, unit, manager, counters, history>>

MutResetDaemon ==
    /\ cmd.pc = "reset"
    /\ CmdTo(CASE pidFile = None /\ socket = None -> "ok"
               [] OTHER -> "status")
    /\ unseen' = Unseen
    /\ UNCHANGED <<procs, lockVars, files, manager, counters, raced>>

ResetDaemon ==
    /\ cmd.pc = "reset"
    /\ CmdTo(CASE unit -> "svcStop"
               [] ~unit /\ pidFile = None /\ socket = None -> "ok"
               [] OTHER -> "halt")
    /\ unseen' = Unseen
    /\ UNCHANGED <<procs, lockVars, files, manager, counters, raced>>

BootStep(p) ==
    CheckPid(p) \/ RemoveStalePid(p) \/ CreatePid(p) \/ WritePid(p) \/ Listen(p)

LoopStep(p) ==
    TriageItem(p) \/ EndCycle(p) \/ StopOnSignal(p) \/ NextCycle(p) \/ EndBackOff(p)

ExitStep(p) == CloseIPC(p) \/ ReadOwnPid(p) \/ RemoveOwnPid(p)

CmdStep ==
    \/ Finish \/ ReadForStart \/ RemoveStaleForStart \/ ReadForHalt \/ SendTerm
    \/ GraceOver \/ Kill \/ KilledDies \/ Exited \/ RemovePid
    \/ ServiceStop \/ ServiceKill \/ ServiceStopped
    \/ Ready \/ CheckLatest \/ CheckPath \/ Download \/ ReplaceExecutable \/ ResetDaemon
    \/ \E p \in Pids : Launch(p) \/ ServiceStart(p)

Next ==
    \/ \E p \in Pids :
        BootStep(p) \/ LoopStep(p) \/ ExitStep(p) \/ UseLock(p) \/ BeginTriage(p)
        \/ EndTriage(p) \/ BeginOther(p) \/ EndOther(p) \/ Crash(p) \/ Respawn(p)
    \/ \E op \in Ops : Begin(op)
    \/ Install
    \/ CmdStep

Spec == Init /\ [][Next]_vars

\* Processes and the manager go on; a poll cycle, an agent, an open connection or a
\* user may take for ever.
Fairness ==
    /\ WF_vars(CmdStep)
    /\ WF_vars(\E p \in Pids : Respawn(p))
    /\ \A p \in Pids :
        /\ WF_vars(BootStep(p))
        /\ WF_vars(ReadOwnPid(p) \/ RemoveOwnPid(p))
        /\ WF_vars(at[p] # "agent" /\ UseLock(p))

FairSpec == Spec /\ Fairness

(***************************************************************************)
(* What the processes promise.                                             *)
(***************************************************************************)
\* A daemon that polls is the one the pid file names and the one behind the socket, so
\* that "stop" and the inbox reach it and no second daemon starts: through crashes,
\* kills, respawns, restarts and updates, managed or not.  It takes a race to break
\* it: two processes of which neither had written or removed the pid file yet when
\* the other one read it.
PollingIsReachable ==
    ~raced => \A p \in alive : st[p] \in Polling => pidFile = p /\ socket = p

\* The daemon a command is about: the one the manager started, or, without a unit,
\* any whose pid could be in the file when the command read it.
Found(p) == Daemon(p) /\ IF unit THEN p = main ELSE p \notin unseen

\* A reported update has reached the daemon it is about: it runs the new release.
UpdateTakesEffect ==
    ~raced /\ cmd.op = "update" /\ cmd.pc = "ok" => \A p \in alive : Found(p) => version[p] = disk

\* A reported stop has stopped it, whether it obeyed the signal, was killed or had died
\* before, and nothing has started another one.
StopLeavesNobody ==
    ~raced /\ cmd.op = "stop" /\ cmd.pc = "ok" => \A p \in alive : ~Found(p)

\* A stop ends the daemon it signalled, although the signal may come during a cycle
\* that never ends, be taken by a back-off, or meet a connection that is never closed.
StopEndsDaemon ==
    \A p \in Pids : cmd.pc = "wait" /\ cmd.pid = p /\ Daemon(p) ~> ~Daemon(p)

\* A crash left an empty pid file, after which no daemon starts; or the pid in the
\* file is by now that of a process which is no daemon.
Orphaned == pidFile = Empty /\ \A p \in alive : st[p] # "fill"
Occupied == pidFile \in alive /\ ~Daemon(pidFile)

Up == \E p \in alive : st[p] \in Polling \cup {"close"}

\* A managed daemon that crashed, or that could not start while another one ran, is
\* back in the end, or another daemon is.  A daemon on its way out may wait for a
\* connection that its client does not close.
ServiceKeepsDaemonUp == wanted ~> ~wanted \/ Up \/ Orphaned \/ Occupied

\* A process that died with the lock does not keep the others from the checkout, as
\* long as no other process has its pid.
DeadOwnerBlocksNobody ==
    LET OwnedByDead == lockFile = [by |-> Dead, written |-> TRUE]
    IN  \A p \in Pids : OwnedByDead /\ at[p] = "open" ~> ~OwnedByDead \/ at[p] = "out"

(***************************************************************************)
(* What the code or its documentation says, and the code does not do.      *)
(***************************************************************************)
\* RunWithOptions: "Refuse to start if another daemon is already holding the pidfile."
\* Two that look before either writes both go on.
OneDaemonPolls ==
    \A p, q \in alive : st[p] \in Polling /\ st[q] \in Polling => p = q

=============================================================================
